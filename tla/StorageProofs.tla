---------------------------- MODULE StorageProofs ----------------------------
(***************************************************************************)
(* Proofs about the files of the download pages (Storage): a row never     *)
(* hands out a file that is gone, a file nothing refers to is never        *)
(* forgotten, and the stable release line only rises, for any number of    *)
(* requests, downloads, cleaners and rows.                                 *)
(*                                                                         *)
(* A path is asked for its references before it is removed, and nothing    *)
(* locks the row in between.  What makes that safe is that a path the      *)
(* cleanup has heard of is never written into a row again: a package's     *)
(* path is used once, and a version's row is dead when its path is queued. *)
(* StorageInv says so for both (PackagesFit, VersionsFit); Queued is the   *)
(* other direction, that a path loses its job only when it is gone or      *)
(* wanted; LineHeld is what the lock of the release line protects.         *)
(***************************************************************************)
EXTENDS Storage, TLAPS

(* The rows and requests, field by field. *)
Packages == {Package(n) : n \in 1..MaxUploads}
Requests ==
    {NoRequest}
    \union [op : {"edit"}, pc : {"begun", "read"}, r : Releases,
            channel : {"same", "beta", "stable"}, status : {"same", "published", "draft"}]
    \union [op : {"promote"}, pc : {"begun", "read"}, r : Releases]
    \union [op : {"link"}, pc : {"begun"}, r : Releases]
    \union [op : {"upload"}, pc : {"stored", "failed"}, r : Releases,
            a : Artifacts \union {0}, path : Packages]
CleanerStates ==
    [pc : {"idle", "taken", "unlink", "done"}, path : Paths \union {NoPath},
     scan : BOOLEAN, current : BOOLEAN]
Statuses == {"none", "queued", "busy", "ready", "failed", "unchanged", "gone"}
FetchSteps == {"idle", "claimed", "fetching", "fetched", "prepared", "failed", "ready", "clean"}

FilesTyped ==
    /\ files \subseteq Paths /\ forsaken \subseteq Paths
    /\ cleanup \subseteq [path : Paths, scan : BOOLEAN]
    /\ cleaner \in [Cleaners -> CleanerStates]

ReleasesTyped ==
    /\ release \in [Releases -> [status : {"none", "draft", "published"}, channel : {"beta", "stable"}]]
    /\ artifact \in [Artifacts -> [release : Releases \union {0}, path : Packages \union {Link, NoPath}]]
    /\ admin \in [AdminProcs -> Requests]
    /\ line \in AdminProcs \union {NoAdmin} /\ uploads \in 0..MaxUploads

VersionsTyped ==
    /\ version \in [VersionRows -> [status : Statuses, auto : BOOLEAN, source : Sources \union {0}]]
    /\ policy \in [component : BOOLEAN, source : Sources \union {0}, auto : BOOLEAN,
                   active : VersionRows \union {0}]
    /\ fetcher \in [Fetchers -> [pc : FetchSteps, v : VersionRows \union {0}]]

(* The lock of the release line: who has read under it holds it, and what  *)
(* it read still holds when it writes.                                     *)
Reading(p) == admin[p].op \in {"edit", "promote"} /\ admin[p].pc = "read"
LineHeld ==
    \A p \in AdminProcs : Reading(p) =>
        /\ line = p
        /\ admin[p].op = "edit" /\ release[admin[p].r].status = "published" =>
             admin[p].channel \in {"same", release[admin[p].r].channel}
        /\ admin[p].op = "promote" => \A s \in StableLine : s < admin[p].r

(* A path that a cleanup job or a cleaner names.                           *)
Doomed == QueuedPaths \union {cleaner[c].path : c \in Cleaners}

(* A package belongs to one request until a row takes it over: a path is   *)
(* used once, and the cleanup knows none that is still to be written.      *)
Uploading(p) == admin[p].op = "upload"
StoredUploads == {admin[p].path : p \in {q \in AdminProcs : At(q, "upload", "stored")}}
PackageFresh(n) == Package(n) \notin files \union Doomed \union ArtifactPaths
PackagesFit ==
    /\ ArtifactPaths \subseteq files
    /\ \A p \in AdminProcs : Uploading(p) => \E n \in 1..uploads : admin[p].path = Package(n)
    /\ \A p, q \in AdminProcs : Uploading(p) /\ Uploading(q) /\ admin[p].path = admin[q].path => p = q
    /\ StoredUploads \subseteq files \ (Doomed \union ArtifactPaths)
    /\ \A n \in 1..MaxUploads : n > uploads => PackageFresh(n)
    /\ \A c \in Cleaners : cleaner[c].pc = "unlink" => cleaner[c].path \notin ArtifactPaths

(* The download that works on a version, and whether one may still come to *)
(* write its row.                                                          *)
FetchersOf(v) == {w \in Fetchers : fetcher[w].v = v}
Dead(v) == \/ version[v].status = "gone"
           \/ version[v].status \in {"failed", "unchanged"} /\ FetchersOf(v) = {}

(* A version's files are there when its row says so, and a path the        *)
(* cleanup knows is one no download will write again.                      *)
VersionFits(v) ==
    /\ version[v].status \in {"none", "queued"} =>
         FetchersOf(v) = {} /\ FinalPath(v) \notin files /\ PartPath(v) \notin files
    /\ version[v].status = "ready" => FinalPath(v) \in files /\ PartPath(v) \notin files
    /\ version[v].status = "busy" /\ FetchersOf(v) = {} =>
         /\ FinalPath(v) \in files => FinalPath(v) \in forsaken
         /\ PartPath(v) \in files => PartPath(v) \in forsaken
    /\ FinalPath(v) \in Doomed \/ PartPath(v) \in Doomed => Dead(v)

(* A download is the only one of its version, and where it stands says     *)
(* what the row and the files may be.                                      *)
FetchFits(w) ==
    LET v == fetcher[w].v IN
    /\ v = 0 <=> fetcher[w].pc = "idle"
    /\ v # 0 =>
         /\ \A x \in Fetchers : fetcher[x].v = v => x = w
         /\ CASE fetcher[w].pc = "clean" -> version[v].status \in {"failed", "gone"}
              [] fetcher[w].pc = "ready" -> version[v].status \in {"ready", "gone"}
              [] OTHER -> version[v].status \in {"busy", "failed", "gone"}
         /\ fetcher[w].pc \in {"prepared", "ready"} => PartPath(v) \notin files
         /\ fetcher[w].pc = "prepared" /\ version[v].status # "gone" => FinalPath(v) \in files

VersionsFit ==
    /\ \A v \in VersionRows : VersionFits(v)
    /\ \A w \in Fetchers : FetchFits(w)
    /\ policy.active # 0 => version[policy.active].status = "ready"

(* Files somebody answers for: a row, a running request or download that   *)
(* will still write or remove them, or the nightly scan.                   *)
Growing == ReceivedPaths \union PathsOf({fetcher[w].v : w \in {x \in Fetchers : fetcher[x].pc # "ready"}})
Wanted == References \union Growing \union forsaken

(* Every other file has a job, and the cleaner that could delete that job  *)
(* has read an older one.                                                  *)
Queued ==
    /\ files \ Wanted \subseteq QueuedPaths
    /\ \A c \in Cleaners : cleaner[c].pc = "done" /\ cleaner[c].current
                           => cleaner[c].path \notin files \ Wanted

StorageInv ==
    /\ FilesTyped /\ ReleasesTyped /\ VersionsTyped
    /\ LineHeld /\ PackagesFit /\ VersionsFit /\ Queued

-----------------------------------------------------------------------------
(* Paths.                                                                  *)

(* The stored paths of packages and versions never collide
   (storagePathFor names them by kind and id).                             *)
LEMMA PathsDiffer ==
  /\ \A n, m : Package(n) = Package(m) => n = m
  /\ \A u, v : FinalPath(u) = FinalPath(v) => u = v
  /\ \A u, v : PartPath(u) = PartPath(v) => u = v
  /\ \A u, v : FinalPath(u) # PartPath(v)
  /\ \A n, v : Package(n) # FinalPath(v) /\ Package(n) # PartPath(v)
  /\ \A n : Package(n) \notin {Link, NoPath} /\ FinalPath(n) \notin {Link, NoPath} /\ PartPath(n) \notin {Link, NoPath}
  BY DEF Package, FinalPath, PartPath, Link, NoPath

(* The two paths of a version row (finalPathFor, partPathFor). *)
LEMMA PathsOfOne ==
  ASSUME NEW v
  PROVE  PathsOf({v}) = {FinalPath(v), PartPath(v)}
  BY DEF PathsOf

(* Every path is a package's or one of a version's two. *)
LEMMA PathKinds ==
  /\ Packages \subseteq Paths /\ NoPath \notin Paths /\ Link \notin Paths
  /\ \A v \in VersionRows : FinalPath(v) \in Paths \ Packages /\ PartPath(v) \in Paths \ Packages
  /\ \A x \in Paths : x \in Packages \/ \E v \in VersionRows : x = FinalPath(v) \/ x = PartPath(v)
  BY PathsDiffer DEF Paths, Packages, PathsOf

(* A request has the fields of its kind. *)
LEMMA RequestKinds ==
  ASSUME NEW q \in Requests
  PROVE  /\ q.op \in {"idle", "edit", "promote", "link", "upload"}
         /\ q.op = "idle" <=> q = NoRequest
         /\ q.op = "edit" => q \in [op : {"edit"}, pc : {"begun", "read"}, r : Releases,
                                    channel : {"same", "beta", "stable"}, status : {"same", "published", "draft"}]
         /\ q.op = "promote" => q \in [op : {"promote"}, pc : {"begun", "read"}, r : Releases]
         /\ q.op = "link" => q \in [op : {"link"}, pc : {"begun"}, r : Releases]
         /\ q.op = "upload" => q \in [op : {"upload"}, pc : {"stored", "failed"}, r : Releases,
                                      a : Artifacts \union {0}, path : Packages]
  BY DEF Requests, NoRequest

(* What rows of releases and running uploads name are packages. *)
LEMMA PackagePaths ==
  ASSUME ReleasesTyped
  PROVE  ArtifactPaths \subseteq Packages /\ ReceivedPaths \subseteq Packages /\ StoredUploads \subseteq ReceivedPaths
  <1>1. ArtifactPaths \subseteq Packages
    BY DEF ReleasesTyped, ArtifactPaths, StoredPaths
  <1>2. \A p \in AdminProcs : admin[p].op = "upload" => admin[p].path \in Packages
    BY RequestKinds DEF ReleasesTyped
  <1> QED
    BY <1>1, <1>2 DEF ReceivedPaths, StoredUploads, At

(* The same in the next state. *)
LEMMA PackagePathsNext ==
  ASSUME ReleasesTyped'
  PROVE  ArtifactPaths' \subseteq Packages /\ ReceivedPaths' \subseteq Packages /\ StoredUploads' \subseteq ReceivedPaths'
  <1>1. ArtifactPaths' \subseteq Packages
    BY DEF ReleasesTyped, ArtifactPaths, StoredPaths
  <1>2. \A p \in AdminProcs : admin'[p].op = "upload" => admin'[p].path \in Packages
    BY RequestKinds DEF ReleasesTyped
  <1> QED
    BY <1>1, <1>2 DEF ReceivedPaths, StoredUploads, At

(* A download that is not at its end works on v. *)
Working(v) == \E w \in Fetchers : fetcher[w].v = v /\ fetcher[w].pc # "ready"

(* Who answers for a path, kind by kind (references and the age of a file). *)
LEMMA WantedFacts ==
  ASSUME ReleasesTyped
  PROVE  /\ \A x \in Packages : x \in Wanted <=> x \in ArtifactPaths \/ x \in ReceivedPaths \/ x \in forsaken
         /\ \A v \in VersionRows :
              /\ FinalPath(v) \in Wanted <=> \/ version[v].status \in {"queued", "busy", "ready"}
                                             \/ Working(v) \/ FinalPath(v) \in forsaken
              /\ PartPath(v) \in Wanted <=> \/ version[v].status \in {"queued", "busy"}
                                            \/ Working(v) \/ PartPath(v) \in forsaken
  <1>1. ArtifactPaths \subseteq Packages /\ ReceivedPaths \subseteq Packages
    BY PackagePaths
  <1>2. \A v \in VersionRows : /\ FinalPath(v) \in VersionPaths <=> version[v].status \in {"queued", "busy", "ready"}
                               /\ PartPath(v) \in VersionPaths <=> version[v].status \in {"queued", "busy"}
    BY PathsDiffer DEF VersionPaths, StatusIs, InProgress
  <1> DEFINE fs == PathsOf({fetcher[w].v : w \in {x \in Fetchers : fetcher[x].pc # "ready"}})
  <1>3. \A v : (FinalPath(v) \in fs <=> Working(v)) /\ (PartPath(v) \in fs <=> Working(v))
    BY PathsDiffer DEF PathsOf, Working
  <1>4. \A n : Package(n) \notin VersionPaths /\ Package(n) \notin fs
    BY PathsDiffer DEF VersionPaths, PathsOf
  <1>5. Wanted = ArtifactPaths \union VersionPaths \union ReceivedPaths \union fs \union forsaken
    BY DEF Wanted, References, Growing
  <1> HIDE DEF fs
  <1>6. \A x \in Packages : x \notin VersionPaths /\ x \notin fs
    BY <1>4 DEF Packages
  <1> QED
    BY <1>1, <1>2, <1>3, <1>5, <1>6, PathKinds

(* The same in the next state. *)
LEMMA WantedFactsNext ==
  ASSUME ReleasesTyped'
  PROVE  /\ \A x \in Packages : x \in Wanted' <=> x \in ArtifactPaths' \/ x \in ReceivedPaths' \/ x \in forsaken'
         /\ \A v \in VersionRows :
              /\ FinalPath(v) \in Wanted' <=> \/ version'[v].status \in {"queued", "busy", "ready"}
                                              \/ Working(v)' \/ FinalPath(v) \in forsaken'
              /\ PartPath(v) \in Wanted' <=> \/ version'[v].status \in {"queued", "busy"}
                                             \/ Working(v)' \/ PartPath(v) \in forsaken'
  <1>1. ArtifactPaths' \subseteq Packages /\ ReceivedPaths' \subseteq Packages
    BY PackagePathsNext
  <1>2. \A v \in VersionRows : /\ FinalPath(v) \in VersionPaths' <=> version'[v].status \in {"queued", "busy", "ready"}
                               /\ PartPath(v) \in VersionPaths' <=> version'[v].status \in {"queued", "busy"}
    BY PathsDiffer DEF VersionPaths, StatusIs, InProgress
  <1> DEFINE fs == PathsOf({fetcher'[w].v : w \in {x \in Fetchers : fetcher'[x].pc # "ready"}})
  <1>3. \A v : (FinalPath(v) \in fs <=> Working(v)') /\ (PartPath(v) \in fs <=> Working(v)')
    BY PathsDiffer DEF PathsOf, Working
  <1>4. \A n : Package(n) \notin VersionPaths' /\ Package(n) \notin fs
    BY PathsDiffer DEF VersionPaths, PathsOf
  <1>5. Wanted' = ArtifactPaths' \union VersionPaths' \union ReceivedPaths' \union fs \union forsaken'
    BY DEF Wanted, References, Growing
  <1> HIDE DEF fs
  <1>6. \A x \in Packages : x \notin VersionPaths' /\ x \notin fs
    BY <1>4 DEF Packages
  <1> QED
    BY <1>1, <1>2, <1>3, <1>5, <1>6, PathKinds

-----------------------------------------------------------------------------
(* The cleanup queue.                                                      *)

(* The queue gains the paths ps, and cleaners that have read an older job  *)
(* of one of them may no longer delete it.                                 *)
QueueGrows(ps) ==
    /\ cleanup' \subseteq [path : Paths, scan : BOOLEAN] /\ cleaner' \in [Cleaners -> CleanerStates]
    /\ QueuedPaths' = QueuedPaths \union ps /\ Doomed' = Doomed \union ps
    /\ \A c \in Cleaners :
         /\ cleaner'[c].pc = cleaner[c].pc /\ cleaner'[c].path = cleaner[c].path
         /\ cleaner'[c].current => cleaner[c].current /\ cleaner[c].path \notin ps

(* enqueue and its revision. *)
LEMMA EnqueueGrows ==
  ASSUME FilesTyped, NEW ps \in SUBSET Paths, NEW scan \in BOOLEAN, Enqueue(ps, scan)
  PROVE  QueueGrows(ps)
  <1>1. /\ cleanup' = Others(ps) \union {JobOf(p, scan) : p \in ps}
        /\ cleaner' = [c \in Cleaners |-> IF cleaner[c].path \in ps
                                          THEN [cleaner[c] EXCEPT !.current = FALSE] ELSE cleaner[c]]
        /\ cleaner \in [Cleaners -> CleanerStates] /\ cleanup \subseteq [path : Paths, scan : BOOLEAN]
    BY DEF Enqueue, FilesTyped
  <1>2. \A p \in ps : JobOf(p, scan) \in [path : Paths, scan : BOOLEAN] /\ JobOf(p, scan).path = p
    BY DEF JobOf
  <1>3. cleanup' \subseteq [path : Paths, scan : BOOLEAN]
    BY <1>1, <1>2 DEF Others
  <1>4. QueuedPaths' = QueuedPaths \union ps
    BY <1>1, <1>2 DEF Others, QueuedPaths
  <1>5. ASSUME NEW c \in Cleaners
        PROVE  /\ cleaner'[c] \in CleanerStates
               /\ cleaner'[c].pc = cleaner[c].pc /\ cleaner'[c].path = cleaner[c].path
               /\ cleaner'[c].current => cleaner[c].current /\ cleaner[c].path \notin ps
    <2>1. cleaner[c] \in CleanerStates
      BY <1>1
    <2>2. CASE cleaner[c].path \in ps
      <3>1. cleaner'[c] = [cleaner[c] EXCEPT !.current = FALSE]
        BY <1>1, <2>2
      <3> QED
        BY <2>1, <3>1 DEF CleanerStates
    <2>3. CASE cleaner[c].path \notin ps
      BY <1>1, <2>1, <2>3
    <2> QED
      BY <2>2, <2>3
  <1>6. cleaner' \in [Cleaners -> CleanerStates]
    BY <1>1, <1>5
  <1>7. Doomed' = Doomed \union ps
    BY <1>4, <1>5 DEF Doomed
  <1> QED
    BY <1>3, <1>4, <1>5, <1>6, <1>7 DEF QueueGrows

(* No job is added. *)
LEMMA QueueStays ==
  ASSUME FilesTyped, UNCHANGED <<cleanup, cleaner>>
  PROVE  QueueGrows({})
  BY DEF QueueGrows, FilesTyped, QueuedPaths, Doomed

(* removeOrQueue: what it leaves of its paths is referred to, queued, or   *)
(* left to the scan.                                                       *)
LEMMA RemoveFacts ==
  ASSUME FilesTyped, NEW ps \in SUBSET Paths, NEW refs, RemoveOrQueue(ps, refs)
  PROVE  \E qs \in SUBSET (ps \cap files) :
           /\ QueueGrows(qs) /\ files' \subseteq files /\ files \ files' \subseteq ps \ refs
           /\ forsaken \subseteq forsaken' /\ forsaken' \subseteq Paths
           /\ \A x \in ps \cap files' : x \in refs \/ x \in forsaken' \/ x \in qs
  <1> DEFINE unwanted == (ps \cap files) \ refs
  <1>0. files \subseteq Paths /\ forsaken \subseteq Paths /\ ps \cap files \in SUBSET Paths
    BY DEF FilesTyped
  <1>1. CASE files' = files \ unwanted /\ KeepQueue /\ UNCHANGED <<forsaken, fileFaults>>
    <2>1. QueueGrows({})
      BY <1>1, QueueStays DEF KeepQueue
    <2> QED
      BY <1>0, <1>1, <2>1
  <1>2. CASE Enqueue(ps \cap files, FALSE) /\ UNCHANGED <<files, forsaken>>
    <2>1. QueueGrows(ps \cap files)
      BY <1>0, <1>2, EnqueueGrows
    <2> QED
      BY <1>0, <1>2, <2>1
  <1>3. CASE forsaken' = forsaken \union unwanted /\ KeepQueue /\ UNCHANGED files
    <2>1. QueueGrows({})
      BY <1>3, QueueStays DEF KeepQueue
    <2> QED
      BY <1>0, <1>3, <2>1
  <1> QED
    BY <1>1, <1>2, <1>3 DEF RemoveOrQueue

(* A file that is wanted no more has got a job in the same step. *)
LEMMA QueuedKept ==
  ASSUME StorageInv, NEW ps, QueueGrows(ps),
         \A x \in files' : x \in Wanted' \/ (x \in files /\ x \notin Wanted) \/ x \in ps
  PROVE  Queued'
  BY DEF StorageInv, Queued, QueueGrows

-----------------------------------------------------------------------------
(* What a step leaves alone.                                               *)

(* Packages, when no request of a release steps: a package goes only when  *)
(* nothing refers to it and nothing will.                                  *)
LEMMA PackagesSame ==
  ASSUME StorageInv, UNCHANGED <<artifact, admin, uploads>>,
         \A x \in Packages : x \in files' => x \in files,
         \A x \in Packages : x \in files /\ x \notin files' => x \notin ArtifactPaths /\ x \notin StoredUploads,
         \A x \in Packages : x \in Doomed' => x \in Doomed \/ (x \in files /\ x \notin StoredUploads),
         \A c \in Cleaners : cleaner'[c].pc = "unlink" =>
            \/ cleaner[c].pc = "unlink" /\ cleaner'[c].path = cleaner[c].path
            \/ cleaner'[c].path \notin ArtifactPaths
  PROVE  PackagesFit'
  <1>0. /\ ArtifactPaths' = ArtifactPaths /\ StoredUploads' = StoredUploads
        /\ \A p \in AdminProcs : Uploading(p)' <=> Uploading(p)
    BY DEF ArtifactPaths, StoredPaths, StoredUploads, At, Uploading
  <1>1. ArtifactPaths \subseteq Packages /\ StoredUploads \subseteq Packages
    BY PackagePaths DEF StorageInv
  <1>2. PackagesFit
    BY DEF StorageInv
  <1>3. ArtifactPaths' \subseteq files' /\ StoredUploads' \subseteq files' \ (Doomed' \union ArtifactPaths')
    BY <1>0, <1>1, <1>2 DEF PackagesFit
  <1>4. ASSUME NEW n \in 1..MaxUploads, n > uploads' PROVE PackageFresh(n)'
    <2>1. PackageFresh(n) /\ Package(n) \in Packages
      BY <1>2, <1>4 DEF PackagesFit, Packages
    <2> QED
      BY <1>0, <2>1 DEF PackageFresh
  <1>5. \A p \in AdminProcs : Uploading(p)' => \E n \in 1..uploads' : admin'[p].path = Package(n)
    BY <1>0, <1>2 DEF PackagesFit
  <1>6. \A p, q \in AdminProcs : Uploading(p)' /\ Uploading(q)' /\ admin'[p].path = admin'[q].path => p = q
    BY <1>0, <1>2 DEF PackagesFit
  <1>7. \A c \in Cleaners : cleaner'[c].pc = "unlink" => cleaner'[c].path \notin ArtifactPaths'
    BY <1>0, <1>2 DEF PackagesFit
  <1> QED
    BY <1>3, <1>4, <1>5, <1>6, <1>7 DEF PackagesFit

(* A version whose row and downloads the step leaves alone: its files go   *)
(* only when it is dead, and only then does the cleanup hear of them.      *)
LEMMA VersionSame ==
  ASSUME VersionsFit, NEW v \in VersionRows, VersionFits(v), version'[v].status = version[v].status,
         FetchersOf(v)' = FetchersOf(v), forsaken \subseteq forsaken',
         \A x \in {FinalPath(v), PartPath(v)} :
            /\ x \in files' => x \in files
            /\ x \in files /\ x \notin files' => Dead(v)
            /\ x \in Doomed' => x \in Doomed \/ Dead(v)
  PROVE  VersionFits(v)'
  <1>1. Dead(v)' <=> Dead(v)
    BY DEF Dead
  <1>2. version[v].status = "ready" => ~Dead(v)
    BY DEF Dead
  <1> QED
    BY <1>1, <1>2 DEF VersionFits

(* A download the step leaves alone. *)
LEMMA FetchSame ==
  ASSUME VersionsTyped, NEW w \in Fetchers, FetchFits(w), fetcher'[w] = fetcher[w],
         fetcher[w].v # 0 => version'[fetcher[w].v].status = version[fetcher[w].v].status,
         \A x \in Fetchers : fetcher'[x].v = fetcher[w].v => fetcher[x].v = fetcher[w].v,
         fetcher[w].v # 0 =>
            /\ PartPath(fetcher[w].v) \in files' => PartPath(fetcher[w].v) \in files
            /\ FinalPath(fetcher[w].v) \in files /\ FinalPath(fetcher[w].v) \notin files'
                  => version[fetcher[w].v].status = "gone"
  PROVE  FetchFits(w)'
  BY DEF FetchFits

(* All versions, when nothing of theirs steps. *)
LEMMA VersionsSame ==
  ASSUME StorageInv, UNCHANGED <<version, fetcher, policy>>, forsaken \subseteq forsaken',
         \A v \in VersionRows : \A x \in {FinalPath(v), PartPath(v)} :
            /\ x \in files' => x \in files
            /\ x \in files /\ x \notin files' => Dead(v)
            /\ x \in Doomed' => x \in Doomed \/ Dead(v)
  PROVE  VersionsTyped' /\ VersionsFit'
  <1>0. VersionsTyped /\ VersionsFit
    BY DEF StorageInv
  <1>1. VersionsTyped'
    BY <1>0 DEF VersionsTyped
  <1>2. \A v \in VersionRows : VersionFits(v)'
    BY <1>0, VersionSame DEF VersionsFit, FetchersOf
  <1>3. ASSUME NEW w \in Fetchers PROVE FetchFits(w)'
    <2>1. FetchFits(w) /\ fetcher[w].v \in VersionRows \union {0}
      BY <1>0 DEF VersionsFit, VersionsTyped
    <2>2. fetcher[w].v # 0 => w \in FetchersOf(fetcher[w].v)
      BY DEF FetchersOf
    <2>3. fetcher[w].v # 0 => (Dead(fetcher[w].v) => version[fetcher[w].v].status = "gone")
      BY <2>2 DEF Dead
    <2> QED
      BY <1>0, <2>1, <2>3, FetchSame
  <1>4. policy'.active # 0 => version'[policy'.active].status = "ready"
    BY <1>0 DEF VersionsFit
  <1> QED
    BY <1>1, <1>2, <1>3, <1>4 DEF VersionsFit

(* The release line, when no request of a release steps. *)
LEMMA LineSame ==
  ASSUME StorageInv, UNCHANGED releaseVars
  PROVE  ReleasesTyped' /\ LineHeld'
  <1>1. UNCHANGED <<release, artifact, admin, line, uploads>>
    BY DEF releaseVars
  <1> QED
    BY <1>1 DEF StorageInv, ReleasesTyped, LineHeld, Reading, StableLine

-----------------------------------------------------------------------------
(* Releases.                                                               *)

(* A step of releases: the versions are left alone, and a package that is  *)
(* wanted no more has got a job.                                           *)
LEMMA ReleaseKeeps ==
  ASSUME StorageInv, UNCHANGED versionVars, NEW ps \in SUBSET Packages, QueueGrows(ps),
         ReleasesTyped', LineHeld', PackagesFit', files' \subseteq Paths,
         forsaken \subseteq forsaken', forsaken' \subseteq Paths,
         \A v \in VersionRows : \A x \in {FinalPath(v), PartPath(v)} : x \in files' <=> x \in files,
         \A x \in Packages : x \in files' => x \in Wanted' \/ (x \in files /\ x \notin Wanted) \/ x \in ps
  PROVE  StorageInv'
  <1>0. UNCHANGED <<version, policy, fetcher>>
    BY DEF versionVars
  <1>1. FilesTyped'
    BY DEF FilesTyped, QueueGrows
  <1>2. \A v \in VersionRows : \A x \in {FinalPath(v), PartPath(v)} : x \in Doomed' => x \in Doomed
    BY PathKinds DEF QueueGrows
  <1>3. VersionsTyped' /\ VersionsFit'
    BY <1>0, <1>2, VersionsSame
  <1>4. ASSUME NEW v \in VersionRows, NEW x \in {FinalPath(v), PartPath(v)}
        PROVE  x \in Wanted => x \in Wanted'
    <2>1. Working(v)' <=> Working(v)
      BY <1>0 DEF Working
    <2> QED
      BY <1>0, <2>1, WantedFacts, WantedFactsNext DEF StorageInv
  <1>5. \A x \in files' : x \in Wanted' \/ (x \in files /\ x \notin Wanted) \/ x \in ps
    BY <1>4, PathKinds
  <1>6. Queued'
    BY <1>5, QueuedKept
  <1> QED
    BY <1>1, <1>3, <1>6 DEF StorageInv

(* A step that changes neither files nor packages: the requests it steps   *)
(* upload nothing.                                                         *)
LEMMA NoPackageKeeps ==
  ASSUME StorageInv, UNCHANGED versionVars, UNCHANGED fileVars, uploads' = uploads,
         ReleasesTyped', LineHeld', ArtifactPaths' = ArtifactPaths,
         \A q \in AdminProcs : admin'[q] = admin[q] \/ (admin'[q].op # "upload" /\ admin[q].op # "upload")
  PROVE  StorageInv'
  <1>0. UNCHANGED <<files, cleanup, cleaner, forsaken>>
    BY DEF fileVars
  <1>1. /\ StoredUploads' = StoredUploads /\ ReceivedPaths' = ReceivedPaths
        /\ \A p \in AdminProcs : Uploading(p)' <=> Uploading(p)
        /\ \A p \in AdminProcs : Uploading(p) => admin'[p] = admin[p]
    BY DEF StoredUploads, ReceivedPaths, At, Uploading
  <1>2. FilesTyped /\ PackagesFit
    BY DEF StorageInv
  <1>3. QueueGrows({})
    BY <1>0, <1>2, QueueStays
  <1>4. Doomed' = Doomed
    BY <1>3 DEF QueueGrows
  <1>5. PackagesFit'
    <2>1. /\ ArtifactPaths' \subseteq files' /\ StoredUploads' \subseteq files' \ (Doomed' \union ArtifactPaths')
          /\ \A c \in Cleaners : cleaner'[c].pc = "unlink" => cleaner'[c].path \notin ArtifactPaths'
      BY <1>0, <1>1, <1>2, <1>4 DEF PackagesFit
    <2>2. \A p \in AdminProcs : Uploading(p)' => \E n \in 1..uploads' : admin'[p].path = Package(n)
      BY <1>1, <1>2 DEF PackagesFit
    <2>3. \A p, q \in AdminProcs : Uploading(p)' /\ Uploading(q)' /\ admin'[p].path = admin'[q].path => p = q
      BY <1>1, <1>2 DEF PackagesFit
    <2>4. \A n \in 1..MaxUploads : n > uploads' => PackageFresh(n)'
      BY <1>0, <1>2, <1>4 DEF PackagesFit, PackageFresh
    <2> QED
      BY <2>1, <2>2, <2>3, <2>4 DEF PackagesFit
  <1>6. \A x \in Packages : x \in Wanted <=> x \in Wanted'
    BY <1>0, <1>1, WantedFacts, WantedFactsNext DEF StorageInv
  <1> QED
    BY <1>0, <1>2, <1>3, <1>5, <1>6, ReleaseKeeps DEF FilesTyped

(* A request moves to another step or kind of request. *)
LEMMA AdminMoves ==
  ASSUME ReleasesTyped, NEW p \in AdminProcs, NEW q \in Requests, admin' = [admin EXCEPT ![p] = q]
  PROVE  admin' \in [AdminProcs -> Requests] /\ admin'[p] = q /\ \A x \in AdminProcs \ {p} : admin'[x] = admin[x]
  BY DEF ReleasesTyped

(* A request is answered. *)
LEMMA AdminDone ==
  ASSUME ReleasesTyped, NEW p \in AdminProcs, Done(p)
  PROVE  admin' \in [AdminProcs -> Requests] /\ admin'[p].op = "idle" /\ \A x \in AdminProcs \ {p} : admin'[x] = admin[x]
  <1>1. NoRequest \in Requests /\ NoRequest.op = "idle"
    BY DEF Requests, NoRequest
  <1> QED
    BY <1>1, AdminMoves DEF Done

(* What is out or stable cannot become more without the lock. *)
LEMMA LineWeaker ==
  ASSUME ReleasesTyped, LineHeld, line' = line,
         \A r \in Releases : release'[r].status = "published" => release'[r] = release[r],
         \A p \in AdminProcs : admin'[p] = admin[p] \/ ~Reading(p)'
  PROVE  LineHeld'
  <1> SUFFICES ASSUME NEW p \in AdminProcs, Reading(p)'
               PROVE  /\ line' = p
                      /\ admin'[p].op = "edit" /\ release'[admin'[p].r].status = "published" =>
                           admin'[p].channel \in {"same", release'[admin'[p].r].channel}
                      /\ admin'[p].op = "promote" => \A s \in StableLine' : s < admin'[p].r
    BY DEF LineHeld
  <1>1. admin'[p] = admin[p] /\ Reading(p) /\ admin[p] \in Requests
    BY DEF Reading, ReleasesTyped
  <1>2. StableLine' \subseteq StableLine
    BY DEF StableLine
  <1>3. admin[p].r \in Releases
    BY <1>1, RequestKinds DEF Reading
  <1> QED
    BY <1>1, <1>2, <1>3 DEF LineHeld

(* A row that links to an external package refers to no file. *)
LEMMA LinkRow ==
  ASSUME ReleasesTyped, NEW r \in Releases,
         \/ artifact' = artifact
         \/ \E a \in FreeArtifacts : artifact' = [artifact EXCEPT ![a] = [release |-> r, path |-> Link]]
  PROVE  /\ ArtifactPaths' = ArtifactPaths
         /\ artifact' \in [Artifacts -> [release : Releases \union {0}, path : Packages \union {Link, NoPath}]]
  <1>1. CASE artifact' = artifact
    BY <1>1 DEF ArtifactPaths, StoredPaths, ReleasesTyped
  <1>2. CASE \E a \in FreeArtifacts : artifact' = [artifact EXCEPT ![a] = [release |-> r, path |-> Link]]
    <2>0. PICK a \in FreeArtifacts : artifact' = [artifact EXCEPT ![a] = [release |-> r, path |-> Link]]
      BY <1>2
    <2>1. a \in Artifacts /\ artifact[a].path = NoPath /\ artifact'[a].path = Link
      BY <2>0 DEF FreeArtifacts, NoArtifact, ReleasesTyped
    <2>2. \A x \in Artifacts \ {a} : artifact'[x] = artifact[x]
      BY <2>0 DEF ReleasesTyped
    <2>3. artifact' \in [Artifacts -> [release : Releases \union {0}, path : Packages \union {Link, NoPath}]]
      BY <2>0 DEF ReleasesTyped
    <2> QED
      BY <2>1, <2>2, <2>3 DEF ArtifactPaths, StoredPaths
  <1> QED
    BY <1>1, <1>2

(* createRelease makes a draft, with a link at most. *)
LEMMA CreateReleaseKeeps ==
  ASSUME StorageInv, UNCHANGED versionVars, NEW r \in Releases, NEW ch \in {"beta", "stable"}, NEW linked \in BOOLEAN,
         CreateRelease(r, ch, linked)
  PROVE  StorageInv'
  <1>0. ReleasesTyped /\ LineHeld
    BY DEF StorageInv
  <1>1. /\ release' = [release EXCEPT ![r] = [status |-> "draft", channel |-> ch]]
        /\ UNCHANGED <<admin, line, uploads>> /\ UNCHANGED fileVars
    BY DEF CreateRelease, noFileChange
  <1>2. \/ artifact' = artifact
        \/ \E a \in FreeArtifacts : artifact' = [artifact EXCEPT ![a] = [release |-> r, path |-> Link]]
    BY DEF CreateRelease
  <1>3. /\ ArtifactPaths' = ArtifactPaths
        /\ artifact' \in [Artifacts -> [release : Releases \union {0}, path : Packages \union {Link, NoPath}]]
    BY <1>0, <1>2, LinkRow
  <1>4. ReleasesTyped'
    BY <1>0, <1>1, <1>3 DEF ReleasesTyped
  <1>5. LineHeld'
    BY <1>0, <1>1, LineWeaker DEF ReleasesTyped
  <1> QED
    BY <1>1, <1>3, <1>4, <1>5, NoPackageKeeps

(* updateRelease and publishRelease begin. *)
LEMMA BeginEditKeeps ==
  ASSUME StorageInv, UNCHANGED versionVars, NEW p \in AdminProcs, NEW r \in Releases,
         NEW ch \in {"same", "beta", "stable"}, NEW st \in {"same", "published", "draft"}, BeginEdit(p, r, ch, st)
  PROVE  StorageInv'
  <1> DEFINE q == [op |-> "edit", pc |-> "begun", r |-> r, channel |-> ch, status |-> st]
  <1>0. ReleasesTyped /\ LineHeld
    BY DEF StorageInv
  <1>1. /\ admin[p] = NoRequest /\ admin' = [admin EXCEPT ![p] = q]
        /\ UNCHANGED <<release, artifact, line, uploads>> /\ UNCHANGED fileVars
    BY DEF BeginEdit, Begin, noFileChange
  <1>2. q \in Requests /\ q.op = "edit" /\ q.pc = "begun"
    BY DEF Requests
  <1> HIDE DEF q
  <1>3. admin' \in [AdminProcs -> Requests] /\ admin'[p] = q /\ \A x \in AdminProcs \ {p} : admin'[x] = admin[x]
    BY <1>0, <1>1, <1>2, AdminMoves
  <1>4. ReleasesTyped' /\ ArtifactPaths' = ArtifactPaths
    BY <1>0, <1>1, <1>3 DEF ReleasesTyped, ArtifactPaths, StoredPaths
  <1>5. LineHeld'
    BY <1>0, <1>1, <1>2, <1>3, LineWeaker DEF Reading
  <1> QED
    BY <1>1, <1>2, <1>3, <1>4, <1>5, NoPackageKeeps DEF NoRequest

(* promoteRelease begins. *)
LEMMA BeginPromoteKeeps ==
  ASSUME StorageInv, UNCHANGED versionVars, NEW p \in AdminProcs, NEW r \in Releases, BeginPromote(p, r)
  PROVE  StorageInv'
  <1> DEFINE q == [op |-> "promote", pc |-> "begun", r |-> r]
  <1>0. ReleasesTyped /\ LineHeld
    BY DEF StorageInv
  <1>1. /\ admin[p] = NoRequest /\ admin' = [admin EXCEPT ![p] = q]
        /\ UNCHANGED <<release, artifact, line, uploads>> /\ UNCHANGED fileVars
    BY DEF BeginPromote, Begin, noFileChange
  <1>2. q \in Requests /\ q.op = "promote" /\ q.pc = "begun"
    BY DEF Requests
  <1> HIDE DEF q
  <1>3. admin' \in [AdminProcs -> Requests] /\ admin'[p] = q /\ \A x \in AdminProcs \ {p} : admin'[x] = admin[x]
    BY <1>0, <1>1, <1>2, AdminMoves
  <1>4. ReleasesTyped' /\ ArtifactPaths' = ArtifactPaths
    BY <1>0, <1>1, <1>3 DEF ReleasesTyped, ArtifactPaths, StoredPaths
  <1>5. LineHeld'
    BY <1>0, <1>1, <1>2, <1>3, LineWeaker DEF Reading
  <1> QED
    BY <1>1, <1>2, <1>3, <1>4, <1>5, NoPackageKeeps DEF NoRequest

(* createReleaseArtifact begins. *)
LEMMA BeginLinkKeeps ==
  ASSUME StorageInv, UNCHANGED versionVars, NEW p \in AdminProcs, NEW r \in Releases, BeginLink(p, r)
  PROVE  StorageInv'
  <1> DEFINE q == [op |-> "link", pc |-> "begun", r |-> r]
  <1>0. ReleasesTyped /\ LineHeld
    BY DEF StorageInv
  <1>1. /\ admin[p] = NoRequest /\ admin' = [admin EXCEPT ![p] = q]
        /\ UNCHANGED <<release, artifact, line, uploads>> /\ UNCHANGED fileVars
    BY DEF BeginLink, Begin, noFileChange
  <1>2. q \in Requests /\ q.op = "link"
    BY DEF Requests
  <1> HIDE DEF q
  <1>3. admin' \in [AdminProcs -> Requests] /\ admin'[p] = q /\ \A x \in AdminProcs \ {p} : admin'[x] = admin[x]
    BY <1>0, <1>1, <1>2, AdminMoves
  <1>4. ReleasesTyped' /\ ArtifactPaths' = ArtifactPaths
    BY <1>0, <1>1, <1>3 DEF ReleasesTyped, ArtifactPaths, StoredPaths
  <1>5. LineHeld'
    BY <1>0, <1>1, <1>2, <1>3, LineWeaker DEF Reading
  <1> QED
    BY <1>1, <1>2, <1>3, <1>4, <1>5, NoPackageKeeps DEF NoRequest

(* A request takes the free lock with what it has read. *)
LEMMA LineTaken ==
  ASSUME ReleasesTyped, LineHeld, NEW p \in AdminProcs, NEW q \in Requests, line = NoAdmin, line' = p,
         admin' = [admin EXCEPT ![p] = q], release' = release,
         q.op = "edit" /\ release[q.r].status = "published" => q.channel \in {"same", release[q.r].channel},
         q.op = "promote" => \A s \in StableLine : s < q.r
  PROVE  LineHeld'
  <1>1. \A x \in AdminProcs : ~Reading(x)
    BY ReleaseAssumption DEF LineHeld
  <1>2. admin'[p] = q /\ \A x \in AdminProcs \ {p} : admin'[x] = admin[x]
    BY AdminMoves
  <1>3. \A x \in AdminProcs : Reading(x)' => x = p
    BY <1>1, <1>2 DEF Reading
  <1>4. StableLine' = StableLine
    BY DEF StableLine
  <1> QED
    BY <1>2, <1>3, <1>4 DEF LineHeld

(* The request that holds the lock is answered. *)
LEMMA LineReleased ==
  ASSUME ReleasesTyped, LineHeld, NEW p \in AdminProcs, Reading(p), Done(p)
  PROVE  LineHeld'
  <1>1. \A x \in AdminProcs : Reading(x) => x = p
    BY DEF LineHeld
  <1>2. admin'[p].op = "idle" /\ \A x \in AdminProcs \ {p} : admin'[x] = admin[x]
    BY AdminDone
  <1>3. \A x \in AdminProcs : ~Reading(x)'
    BY <1>1, <1>2 DEF Reading
  <1> QED
    BY <1>3 DEF LineHeld

(* writeReleaseEdit reads under the lock. *)
LEMMA EditReadKeeps ==
  ASSUME StorageInv, UNCHANGED versionVars, NEW p \in AdminProcs, EditRead(p)
  PROVE  StorageInv'
  <1>0. ReleasesTyped /\ LineHeld /\ admin[p] \in Requests
    BY DEF StorageInv, ReleasesTyped
  <1>1. /\ admin[p].op = "edit" /\ admin[p].pc = "begun" /\ line = NoAdmin
        /\ UNCHANGED <<release, artifact, uploads>> /\ UNCHANGED fileVars
    BY DEF EditRead, At, noFileChange
  <1>2. ArtifactPaths' = ArtifactPaths
    BY <1>1 DEF ArtifactPaths, StoredPaths
  <1>3. CASE /\ Exists(admin[p].r) /\ ChannelAllowed(admin[p].r, admin[p].channel)
             /\ line' = p /\ admin' = [admin EXCEPT ![p].pc = "read"]
    <2>1. PICK q : q = [admin[p] EXCEPT !.pc = "read"]
      OBVIOUS
    <2>2. admin[p] \in [op : {"edit"}, pc : {"begun", "read"}, r : Releases,
                        channel : {"same", "beta", "stable"}, status : {"same", "published", "draft"}]
      BY <1>0, <1>1, RequestKinds
    <2>3. /\ q \in [op : {"edit"}, pc : {"begun", "read"}, r : Releases,
                    channel : {"same", "beta", "stable"}, status : {"same", "published", "draft"}]
          /\ q.op = "edit" /\ q.r = admin[p].r /\ q.channel = admin[p].channel
      BY <2>1, <2>2
    <2>4. q \in Requests
      BY <2>3 DEF Requests
    <2>5. admin' = [admin EXCEPT ![p] = q]
      BY <1>3, <2>1
    <2>6. admin' \in [AdminProcs -> Requests] /\ admin'[p] = q /\ \A x \in AdminProcs \ {p} : admin'[x] = admin[x]
      BY <1>0, <2>4, <2>5, AdminMoves
    <2>7. release[q.r].status = "published" => q.channel \in {"same", release[q.r].channel}
      BY <1>3, <2>3 DEF ChannelAllowed, Draft
    <2>8. LineHeld'
      BY <1>0, <1>1, <1>3, <2>3, <2>4, <2>5, <2>7, LineTaken
    <2>9. ReleasesTyped'
      BY <1>0, <1>1, <1>3, <2>6 DEF ReleasesTyped
    <2> QED
      BY <1>1, <1>2, <2>3, <2>6, <2>8, <2>9, NoPackageKeeps
  <1>4. CASE line' = line /\ Done(p)
    <2>1. admin' \in [AdminProcs -> Requests] /\ admin'[p].op = "idle" /\ \A x \in AdminProcs \ {p} : admin'[x] = admin[x]
      BY <1>0, <1>4, AdminDone
    <2>2. LineHeld'
      BY <1>0, <1>1, <1>4, <2>1, LineWeaker DEF Reading
    <2>3. ReleasesTyped'
      BY <1>0, <1>1, <1>4, <2>1 DEF ReleasesTyped
    <2> QED
      BY <1>1, <1>2, <2>1, <2>2, <2>3, NoPackageKeeps
  <1> QED
    BY <1>3, <1>4 DEF EditRead

(* promoteRelease reads under the lock. *)
LEMMA PromoteReadKeeps ==
  ASSUME StorageInv, UNCHANGED versionVars, NEW p \in AdminProcs, PromoteRead(p)
  PROVE  StorageInv'
  <1>0. ReleasesTyped /\ LineHeld /\ admin[p] \in Requests
    BY DEF StorageInv, ReleasesTyped
  <1>1. /\ admin[p].op = "promote" /\ admin[p].pc = "begun" /\ line = NoAdmin
        /\ UNCHANGED <<release, artifact, uploads>> /\ UNCHANGED fileVars
    BY DEF PromoteRead, At, noFileChange
  <1>2. ArtifactPaths' = ArtifactPaths
    BY <1>1 DEF ArtifactPaths, StoredPaths
  <1>3. CASE /\ \A s \in StableLine : s < admin[p].r
             /\ line' = p /\ admin' = [admin EXCEPT ![p].pc = "read"]
    <2>1. PICK q : q = [admin[p] EXCEPT !.pc = "read"]
      OBVIOUS
    <2>2. admin[p] \in [op : {"promote"}, pc : {"begun", "read"}, r : Releases]
      BY <1>0, <1>1, RequestKinds
    <2>3. /\ q \in [op : {"promote"}, pc : {"begun", "read"}, r : Releases]
          /\ q.op = "promote" /\ q.r = admin[p].r
      BY <2>1, <2>2
    <2>4. q \in Requests
      BY <2>3 DEF Requests
    <2>5. admin' = [admin EXCEPT ![p] = q]
      BY <1>3, <2>1
    <2>6. admin' \in [AdminProcs -> Requests] /\ admin'[p] = q /\ \A x \in AdminProcs \ {p} : admin'[x] = admin[x]
      BY <1>0, <2>4, <2>5, AdminMoves
    <2>8. LineHeld'
      BY <1>0, <1>1, <1>3, <2>3, <2>4, <2>5, LineTaken
    <2>9. ReleasesTyped'
      BY <1>0, <1>1, <1>3, <2>6 DEF ReleasesTyped
    <2> QED
      BY <1>1, <1>2, <2>3, <2>6, <2>8, <2>9, NoPackageKeeps
  <1>4. CASE line' = line /\ Done(p)
    <2>1. admin' \in [AdminProcs -> Requests] /\ admin'[p].op = "idle" /\ \A x \in AdminProcs \ {p} : admin'[x] = admin[x]
      BY <1>0, <1>4, AdminDone
    <2>2. LineHeld'
      BY <1>0, <1>1, <1>4, <2>1, LineWeaker DEF Reading
    <2>3. ReleasesTyped'
      BY <1>0, <1>1, <1>4, <2>1 DEF ReleasesTyped
    <2> QED
      BY <1>1, <1>2, <2>1, <2>2, <2>3, NoPackageKeeps
  <1> QED
    BY <1>3, <1>4 DEF PromoteRead

(* writeReleaseEdit writes and lets the lock go. *)
LEMMA EditWriteKeeps ==
  ASSUME StorageInv, UNCHANGED versionVars, NEW p \in AdminProcs, EditWrite(p)
  PROVE  StorageInv'
  <1>0. ReleasesTyped /\ LineHeld /\ admin[p] \in Requests
    BY DEF StorageInv, ReleasesTyped
  <1> DEFINE r == admin[p].r
             new == [status  |-> IF admin[p].status = "same" THEN release[r].status ELSE admin[p].status,
                     channel |-> IF admin[p].channel = "same" THEN release[r].channel ELSE admin[p].channel]
  <1>1. /\ admin[p].op = "edit" /\ admin[p].pc = "read" /\ line' = NoAdmin /\ Done(p)
        /\ UNCHANGED <<artifact, uploads>> /\ UNCHANGED fileVars
        /\ release' = IF Exists(r) THEN [release EXCEPT ![r] = new] ELSE release
    BY DEF EditWrite, At, noFileChange
  <1>2. /\ r \in Releases /\ admin[p].status \in {"same", "published", "draft"}
        /\ admin[p].channel \in {"same", "beta", "stable"}
    BY <1>0, <1>1, RequestKinds
  <1>3. new \in [status : {"none", "draft", "published"}, channel : {"beta", "stable"}]
    BY <1>0, <1>2 DEF ReleasesTyped
  <1> HIDE DEF new
  <1>4. admin' \in [AdminProcs -> Requests] /\ admin'[p].op = "idle" /\ \A x \in AdminProcs \ {p} : admin'[x] = admin[x]
    BY <1>0, <1>1, AdminDone
  <1>5. ReleasesTyped' /\ ArtifactPaths' = ArtifactPaths
    BY <1>0, <1>1, <1>2, <1>3, <1>4 DEF ReleasesTyped, ArtifactPaths, StoredPaths
  <1>6. LineHeld'
    BY <1>0, <1>1, LineReleased DEF Reading
  <1> QED
    BY <1>1, <1>4, <1>5, <1>6, NoPackageKeeps

(* promoteRelease writes and lets the lock go. *)
LEMMA PromoteWriteKeeps ==
  ASSUME StorageInv, UNCHANGED versionVars, NEW p \in AdminProcs, PromoteWrite(p)
  PROVE  StorageInv'
  <1>0. ReleasesTyped /\ LineHeld /\ admin[p] \in Requests
    BY DEF StorageInv, ReleasesTyped
  <1>1. /\ admin[p].op = "promote" /\ admin[p].pc = "read" /\ line' = NoAdmin /\ Done(p)
        /\ UNCHANGED <<artifact, uploads>> /\ UNCHANGED fileVars
        /\ release' = IF InBeta(admin[p].r) THEN [release EXCEPT ![admin[p].r].channel = "stable"] ELSE release
    BY DEF PromoteWrite, At, noFileChange
  <1>2. admin[p].r \in Releases
    BY <1>0, <1>1, RequestKinds
  <1>4. admin' \in [AdminProcs -> Requests] /\ admin'[p].op = "idle" /\ \A x \in AdminProcs \ {p} : admin'[x] = admin[x]
    BY <1>0, <1>1, AdminDone
  <1>5. ReleasesTyped' /\ ArtifactPaths' = ArtifactPaths
    BY <1>0, <1>1, <1>2, <1>4 DEF ReleasesTyped, ArtifactPaths, StoredPaths
  <1>6. LineHeld'
    BY <1>0, <1>1, LineReleased DEF Reading
  <1> QED
    BY <1>1, <1>4, <1>5, <1>6, NoPackageKeeps

(* unpublishRelease takes no lock: it only takes a release off the line. *)
LEMMA UnpublishReleaseKeeps ==
  ASSUME StorageInv, UNCHANGED versionVars, NEW r \in Releases, UnpublishRelease(r)
  PROVE  StorageInv'
  <1>0. ReleasesTyped /\ LineHeld
    BY DEF StorageInv
  <1>1. /\ release' = [release EXCEPT ![r].status = "draft"]
        /\ UNCHANGED <<artifact, admin, line, uploads>> /\ UNCHANGED fileVars
    BY DEF UnpublishRelease, noFileChange
  <1>2. ReleasesTyped' /\ ArtifactPaths' = ArtifactPaths
    BY <1>0, <1>1 DEF ReleasesTyped, ArtifactPaths, StoredPaths
  <1>3. \A s \in Releases : release'[s].status = "published" => release'[s] = release[s]
    BY <1>0, <1>1 DEF ReleasesTyped
  <1>4. LineHeld'
    BY <1>0, <1>1, <1>3, LineWeaker
  <1> QED
    BY <1>1, <1>2, <1>4, NoPackageKeeps

(* The checked external package is written. *)
LEMMA CommitLinkKeeps ==
  ASSUME StorageInv, UNCHANGED versionVars, NEW p \in AdminProcs, CommitLink(p)
  PROVE  StorageInv'
  <1>0. ReleasesTyped /\ LineHeld /\ admin[p] \in Requests
    BY DEF StorageInv, ReleasesTyped
  <1>1. /\ admin[p].op = "link" /\ Done(p) /\ UNCHANGED <<release, line, uploads>> /\ UNCHANGED fileVars
        /\ \/ artifact' = artifact
           \/ \E a \in FreeArtifacts : artifact' = [artifact EXCEPT ![a] = [release |-> admin[p].r, path |-> Link]]
    BY DEF CommitLink, At, noFileChange
  <1>2. admin[p].r \in Releases
    BY <1>0, <1>1, RequestKinds
  <1>3. /\ ArtifactPaths' = ArtifactPaths
        /\ artifact' \in [Artifacts -> [release : Releases \union {0}, path : Packages \union {Link, NoPath}]]
    BY <1>0, <1>1, <1>2, LinkRow
  <1>4. admin' \in [AdminProcs -> Requests] /\ admin'[p].op = "idle" /\ \A x \in AdminProcs \ {p} : admin'[x] = admin[x]
    BY <1>0, <1>1, AdminDone
  <1>5. ReleasesTyped'
    BY <1>0, <1>1, <1>3, <1>4 DEF ReleasesTyped
  <1>6. LineHeld'
    BY <1>0, <1>1, <1>4, LineWeaker DEF Reading
  <1> QED
    BY <1>1, <1>3, <1>4, <1>5, <1>6, NoPackageKeeps

-----------------------------------------------------------------------------
(* Packages.                                                               *)

(* The rows lose packages, which are queued, and gain at most the one the  *)
(* stepping request p has stored; a request that ends has left its package *)
(* to a row.                                                               *)
LEMMA PackageKeeps ==
  ASSUME StorageInv, UNCHANGED versionVars, UNCHANGED <<files, forsaken, uploads>>,
         ReleasesTyped', LineHeld',
         NEW p, NEW ps \in SUBSET ArtifactPaths, QueueGrows(ps),
         ArtifactPaths \subseteq ArtifactPaths' \union ps,
         \A x \in ArtifactPaths' : \/ x \in ArtifactPaths
                                   \/ p \in AdminProcs /\ At(p, "upload", "stored") /\ x = admin[p].path,
         \A q \in AdminProcs : \/ admin'[q] = admin[q]
                               \/ /\ q = p /\ admin[p].op = "upload"
                                  /\ \/ admin'[p].op # "upload" /\ admin[p].path \in ArtifactPaths'
                                     \/ /\ admin'[p].op = "upload" /\ admin'[p].pc = "failed"
                                        /\ admin'[p].path = admin[p].path,
         ArtifactPaths' \subseteq ArtifactPaths \/ ~At(p, "upload", "stored")'
  PROVE  StorageInv'
  <1>0. FilesTyped /\ PackagesFit /\ ReleasesTyped
    BY DEF StorageInv
  <1>1. /\ ArtifactPaths \subseteq Packages /\ ReceivedPaths \subseteq Packages /\ StoredUploads \subseteq Packages
        /\ ArtifactPaths' \subseteq Packages /\ ReceivedPaths' \subseteq Packages
    BY <1>0, PackagePaths, PackagePathsNext
  <1>2. \A q \in AdminProcs : Uploading(q)' => Uploading(q) /\ admin'[q].path = admin[q].path
    BY DEF Uploading
  <1>3. \A q \in AdminProcs : At(q, "upload", "stored")' => At(q, "upload", "stored") /\ admin'[q] = admin[q]
    BY DEF At
  <1>4. StoredUploads' \subseteq StoredUploads
    BY <1>3 DEF StoredUploads
  <1>5. ArtifactPaths' \subseteq files /\ ps \subseteq files
    <2>1. p \in AdminProcs /\ At(p, "upload", "stored") => admin[p].path \in StoredUploads
      BY DEF StoredUploads
    <2> QED
      BY <1>0, <2>1 DEF PackagesFit
  <1>6. ASSUME NEW x \in StoredUploads' PROVE x \notin ArtifactPaths'
    <2>1. PICK q \in AdminProcs : At(q, "upload", "stored")' /\ x = admin'[q].path
      BY DEF StoredUploads
    <2>2. At(q, "upload", "stored") /\ admin'[q] = admin[q] /\ x \in StoredUploads
      BY <1>3, <1>4, <2>1
    <2>3. x \notin ArtifactPaths
      BY <1>0, <2>2 DEF PackagesFit
    <2> SUFFICES ASSUME x \in ArtifactPaths' PROVE FALSE
      OBVIOUS
    <2>4. p \in AdminProcs /\ At(p, "upload", "stored") /\ x = admin[p].path /\ ~At(p, "upload", "stored")'
      BY <2>3
    <2>5. q = p
      BY <1>0, <2>1, <2>2, <2>4 DEF PackagesFit, Uploading, At
    <2> QED
      BY <2>1, <2>4, <2>5
  <1>7. StoredUploads' \cap Doomed' = {}
    BY <1>0, <1>4 DEF QueueGrows, PackagesFit
  <1>8. ASSUME NEW x \in ArtifactPaths', x \notin ArtifactPaths PROVE x \in StoredUploads
    BY <1>8 DEF StoredUploads
  <1>9. ASSUME NEW n \in 1..MaxUploads, n > uploads' PROVE PackageFresh(n)'
    <2>1. PackageFresh(n)
      BY <1>0, <1>9 DEF PackagesFit
    <2>2. Package(n) \notin files' /\ Package(n) \notin Doomed' /\ Package(n) \notin ArtifactPaths'
      BY <1>5, <2>1 DEF PackageFresh, QueueGrows
    <2> QED
      BY <2>2 DEF PackageFresh
  <1>10. ASSUME NEW c \in Cleaners, cleaner'[c].pc = "unlink" PROVE cleaner'[c].path \notin ArtifactPaths'
    <2>1. cleaner[c].pc = "unlink" /\ cleaner'[c].path = cleaner[c].path
      BY <1>10 DEF QueueGrows
    <2>2. cleaner[c].path \in Doomed /\ cleaner[c].path \notin ArtifactPaths
      BY <1>0, <2>1 DEF Doomed, PackagesFit
    <2>3. cleaner[c].path \notin StoredUploads
      BY <1>0, <2>2 DEF PackagesFit
    <2> QED
      BY <1>8, <2>1, <2>2, <2>3
  <1>11. PackagesFit'
    <2>1. \A q \in AdminProcs : Uploading(q)' => \E n \in 1..uploads' : admin'[q].path = Package(n)
      BY <1>0, <1>2 DEF PackagesFit
    <2>2. \A q, y \in AdminProcs : Uploading(q)' /\ Uploading(y)' /\ admin'[q].path = admin'[y].path => q = y
      BY <1>0, <1>2 DEF PackagesFit
    <2>3. ArtifactPaths' \subseteq files'
      BY <1>5
    <2>4. StoredUploads' \subseteq files' \ (Doomed' \union ArtifactPaths')
      BY <1>0, <1>4, <1>6, <1>7 DEF PackagesFit
    <2> QED
      BY <1>9, <1>10, <2>1, <2>2, <2>3, <2>4 DEF PackagesFit
  <1>12. \A x \in ReceivedPaths : x \in ReceivedPaths' \/ x \in ArtifactPaths'
    BY DEF ReceivedPaths
  <1>13. \A x \in Packages : x \in Wanted => x \in Wanted' \/ x \in ps
    BY <1>0, <1>12, WantedFacts, WantedFactsNext
  <1> QED
    BY <1>0, <1>1, <1>11, <1>13, ReleaseKeeps DEF FilesTyped

(* The paths a row stands for. *)
LEMMA RowPaths ==
  ASSUME ReleasesTyped, NEW as \in SUBSET Artifacts,
         \A a \in Artifacts \ as : artifact'[a] = artifact[a], DOMAIN artifact' = Artifacts
  PROVE  /\ StoredPaths(as) \subseteq ArtifactPaths /\ ArtifactPaths \subseteq ArtifactPaths' \union StoredPaths(as)
         /\ \A x \in ArtifactPaths' : x \in ArtifactPaths \/ \E a \in as : x = artifact'[a].path /\ x \notin {Link, NoPath}
  BY DEF ArtifactPaths, StoredPaths

(* deleteRelease takes its packages along. *)
LEMMA DeleteReleaseKeeps ==
  ASSUME StorageInv, UNCHANGED versionVars, NEW r \in Releases, DeleteRelease(r)
  PROVE  StorageInv'
  <1> DEFINE ps == StoredPaths(ArtifactsOf(r))
  <1>0. FilesTyped /\ ReleasesTyped /\ LineHeld
    BY DEF StorageInv
  <1>1. /\ release' = [release EXCEPT ![r] = NoRelease]
        /\ artifact' = [a \in Artifacts |-> IF a \in ArtifactsOf(r) THEN NoArtifact ELSE artifact[a]]
        /\ Enqueue(ps, FALSE) /\ UNCHANGED <<admin, line, uploads, files, forsaken>>
    BY DEF DeleteRelease
  <1>2. ArtifactsOf(r) \in SUBSET Artifacts
    BY DEF ArtifactsOf
  <1>3. /\ ps \subseteq ArtifactPaths /\ ArtifactPaths \subseteq ArtifactPaths' \union ps
        /\ \A x \in ArtifactPaths' : x \in ArtifactPaths \/ \E a \in ArtifactsOf(r) :
                                                  x = artifact'[a].path /\ x \notin {Link, NoPath}
    BY <1>0, <1>1, <1>2, RowPaths
  <1>4. ArtifactPaths' \subseteq ArtifactPaths
    BY <1>1, <1>2, <1>3 DEF NoArtifact
  <1>5. ReleasesTyped'
    BY <1>0, <1>1 DEF ReleasesTyped, NoRelease, NoArtifact
  <1>6. LineHeld'
    BY <1>0, <1>1, LineWeaker DEF ReleasesTyped, NoRelease
  <1>7. ps \subseteq Paths
    BY <1>0, <1>3, PackagePaths, PathKinds
  <1> HIDE DEF ps
  <1>8. QueueGrows(ps)
    BY <1>0, <1>1, <1>7, EnqueueGrows
  <1> QED
    BY <1>1, <1>3, <1>4, <1>5, <1>6, <1>8, PackageKeeps

(* An artifact loses its package to a link, or is deleted. *)
LEMMA RetireFileKeeps ==
  ASSUME StorageInv, UNCHANGED versionVars, NEW a \in Artifacts,
         NEW row \in [release : Releases \union {0}, path : {Link, NoPath}], RetireFile(a, row)
  PROVE  StorageInv'
  <1> DEFINE ps == StoredPaths({a})
  <1>0. FilesTyped /\ ReleasesTyped /\ LineHeld
    BY DEF StorageInv
  <1>1. /\ artifact' = [artifact EXCEPT ![a] = row]
        /\ Enqueue(ps, FALSE) /\ UNCHANGED <<release, admin, line, uploads, files, forsaken>>
    BY DEF RetireFile
  <1>2. /\ artifact'[a] = row /\ DOMAIN artifact' = Artifacts
        /\ \A x \in Artifacts \ {a} : artifact'[x] = artifact[x]
        /\ artifact' \in [Artifacts -> [release : Releases \union {0}, path : Packages \union {Link, NoPath}]]
    BY <1>0, <1>1 DEF ReleasesTyped
  <1>3. /\ ps \subseteq ArtifactPaths /\ ArtifactPaths \subseteq ArtifactPaths' \union ps
        /\ \A x \in ArtifactPaths' : x \in ArtifactPaths \/ \E b \in {a} : x = artifact'[b].path /\ x \notin {Link, NoPath}
    BY <1>0, <1>1, <1>2, RowPaths
  <1>4. ArtifactPaths' \subseteq ArtifactPaths
    BY <1>2, <1>3
  <1>5. ReleasesTyped'
    BY <1>0, <1>1, <1>2 DEF ReleasesTyped
  <1>6. LineHeld'
    BY <1>0, <1>1, LineWeaker
  <1>7. ps \subseteq Paths
    BY <1>0, <1>3, PackagePaths, PathKinds
  <1> HIDE DEF ps
  <1>8. QueueGrows(ps)
    BY <1>0, <1>1, <1>7, EnqueueGrows
  <1> QED
    BY <1>1, <1>3, <1>4, <1>5, <1>6, <1>8, PackageKeeps

(* updateReleaseArtifact to an external source, and deleteReleaseArtifact. *)
LEMMA RetireKeeps ==
  ASSUME StorageInv, UNCHANGED versionVars, NEW a \in Artifacts, SwitchToLink(a) \/ DeleteReleaseArtifact(a)
  PROVE  StorageInv'
  <1>1. CASE SwitchToLink(a)
    <2>1. PICK row : row = [artifact[a] EXCEPT !.path = Link]
      OBVIOUS
    <2>2. row \in [release : Releases \union {0}, path : {Link, NoPath}]
      BY <2>1 DEF StorageInv, ReleasesTyped
    <2> QED
      BY <1>1, <2>1, <2>2, RetireFileKeeps DEF SwitchToLink
  <1>2. CASE DeleteReleaseArtifact(a)
    <2>1. NoArtifact \in [release : Releases \union {0}, path : {Link, NoPath}]
      BY DEF NoArtifact
    <2> QED
      BY <1>2, <2>1, RetireFileKeeps DEF DeleteReleaseArtifact
  <1> QED
    BY <1>1, <1>2

(* The row an upload writes takes its package over and queues the old one. *)
LEMMA WriteUploadFacts ==
  ASSUME StorageInv, NEW p \in AdminProcs, NEW a \in Artifacts, At(p, "upload", "stored"), WriteUpload(p, a)
  PROVE  /\ artifact' \in [Artifacts -> [release : Releases \union {0}, path : Packages \union {Link, NoPath}]]
         /\ StoredPaths({a}) \subseteq ArtifactPaths /\ ArtifactPaths \subseteq ArtifactPaths' \union StoredPaths({a})
         /\ \A x \in ArtifactPaths' : x \in ArtifactPaths \/ x = admin[p].path
         /\ admin[p].path \in ArtifactPaths' /\ QueueGrows(StoredPaths({a}))
  <1>0. FilesTyped /\ ReleasesTyped /\ admin[p] \in Requests
    BY DEF StorageInv, ReleasesTyped
  <1>1. /\ artifact' = [artifact EXCEPT ![a] = [release |-> admin[p].r, path |-> admin[p].path]]
        /\ Enqueue(StoredPaths({a}), FALSE) /\ admin[p].op = "upload"
    BY DEF WriteUpload, At
  <1>2. admin[p].r \in Releases /\ admin[p].path \in Packages
    BY <1>0, <1>1, RequestKinds
  <1>3. /\ artifact'[a].path = admin[p].path /\ DOMAIN artifact' = Artifacts
        /\ \A x \in Artifacts \ {a} : artifact'[x] = artifact[x]
        /\ artifact' \in [Artifacts -> [release : Releases \union {0}, path : Packages \union {Link, NoPath}]]
    BY <1>0, <1>1, <1>2 DEF ReleasesTyped
  <1>4. /\ StoredPaths({a}) \subseteq ArtifactPaths /\ ArtifactPaths \subseteq ArtifactPaths' \union StoredPaths({a})
        /\ \A x \in ArtifactPaths' : x \in ArtifactPaths \/ \E b \in {a} : x = artifact'[b].path /\ x \notin {Link, NoPath}
    BY <1>0, <1>3, RowPaths
  <1>5. StoredPaths({a}) \in SUBSET Paths
    BY <1>0, <1>4, PackagePaths, PathKinds
  <1>6. QueueGrows(StoredPaths({a}))
    BY <1>0, <1>1, <1>5, EnqueueGrows
  <1>7. admin[p].path \in ArtifactPaths'
    BY <1>2, <1>3, PathKinds DEF ArtifactPaths, StoredPaths
  <1> QED
    BY <1>3, <1>4, <1>6, <1>7

(* The upload is committed. *)
LEMMA CommitUploadKeeps ==
  ASSUME StorageInv, UNCHANGED versionVars, NEW p \in AdminProcs, NEW a \in Artifacts, CommitUpload(p, a)
  PROVE  StorageInv'
  <1>0. ReleasesTyped /\ LineHeld
    BY DEF StorageInv
  <1>1. /\ At(p, "upload", "stored") /\ WriteUpload(p, a) /\ Done(p)
        /\ UNCHANGED <<release, line, uploads, files, forsaken>>
    BY DEF CommitUpload
  <1>2. /\ artifact' \in [Artifacts -> [release : Releases \union {0}, path : Packages \union {Link, NoPath}]]
        /\ StoredPaths({a}) \subseteq ArtifactPaths /\ ArtifactPaths \subseteq ArtifactPaths' \union StoredPaths({a})
        /\ \A x \in ArtifactPaths' : x \in ArtifactPaths \/ x = admin[p].path
        /\ admin[p].path \in ArtifactPaths' /\ QueueGrows(StoredPaths({a}))
    BY <1>1, WriteUploadFacts
  <1>3. admin' \in [AdminProcs -> Requests] /\ admin'[p].op = "idle" /\ \A x \in AdminProcs \ {p} : admin'[x] = admin[x]
    BY <1>0, <1>1, AdminDone
  <1>4. ReleasesTyped'
    BY <1>0, <1>1, <1>2, <1>3 DEF ReleasesTyped
  <1>5. LineHeld'
    BY <1>0, <1>1, <1>3, LineWeaker DEF Reading
  <1>6. admin[p].op = "upload" /\ ~At(p, "upload", "stored")'
    BY <1>1, <1>3 DEF At
  <1>7. \A q \in AdminProcs : \/ admin'[q] = admin[q]
                              \/ /\ q = p /\ admin[p].op = "upload"
                                 /\ admin'[p].op # "upload" /\ admin[p].path \in ArtifactPaths'
    BY <1>2, <1>3, <1>6
  <1>8. UNCHANGED <<files, forsaken, uploads>>
    BY <1>1
  <1> QED
    BY <1>1, <1>2, <1>4, <1>5, <1>6, <1>7, <1>8, PackageKeeps

(* A stored upload has failed: its request goes on to clean it up. *)
LEMMA UploadFailed ==
  ASSUME StorageInv, NEW p \in AdminProcs, At(p, "upload", "stored"),
         admin' = [admin EXCEPT ![p].pc = "failed"]
  PROVE  /\ admin' \in [AdminProcs -> Requests] /\ \A x \in AdminProcs \ {p} : admin'[x] = admin[x]
         /\ admin[p].op = "upload" /\ admin'[p].op = "upload" /\ admin'[p].pc = "failed"
         /\ admin'[p].path = admin[p].path
  <1>0. ReleasesTyped /\ admin[p] \in Requests /\ admin[p].op = "upload"
    BY DEF StorageInv, ReleasesTyped, At
  <1>1. PICK q : q = [admin[p] EXCEPT !.pc = "failed"]
    OBVIOUS
  <1>2. admin[p] \in [op : {"upload"}, pc : {"stored", "failed"}, r : Releases,
                      a : Artifacts \union {0}, path : Packages]
    BY <1>0, RequestKinds
  <1>3. /\ q \in [op : {"upload"}, pc : {"stored", "failed"}, r : Releases,
                  a : Artifacts \union {0}, path : Packages]
        /\ q.op = "upload" /\ q.pc = "failed" /\ q.path = admin[p].path
    BY <1>1, <1>2
  <1>4. q \in Requests
    BY <1>3 DEF Requests
  <1>5. admin' = [admin EXCEPT ![p] = q]
    BY <1>1
  <1>6. admin' \in [AdminProcs -> Requests] /\ admin'[p] = q /\ \A x \in AdminProcs \ {p} : admin'[x] = admin[x]
    BY <1>0, <1>4, <1>5, AdminMoves
  <1> QED
    BY <1>0, <1>3, <1>6

(* The upload is committed and its answer is lost. *)
LEMMA CommitUnansweredKeeps ==
  ASSUME StorageInv, UNCHANGED versionVars, NEW p \in AdminProcs, NEW a \in Artifacts, CommitUnanswered(p, a)
  PROVE  StorageInv'
  <1>0. ReleasesTyped /\ LineHeld
    BY DEF StorageInv
  <1>1. /\ At(p, "upload", "stored") /\ WriteUpload(p, a) /\ admin' = [admin EXCEPT ![p].pc = "failed"]
        /\ UNCHANGED <<release, line, uploads, files, forsaken>>
    BY DEF CommitUnanswered
  <1>2. /\ artifact' \in [Artifacts -> [release : Releases \union {0}, path : Packages \union {Link, NoPath}]]
        /\ StoredPaths({a}) \subseteq ArtifactPaths /\ ArtifactPaths \subseteq ArtifactPaths' \union StoredPaths({a})
        /\ \A x \in ArtifactPaths' : x \in ArtifactPaths \/ x = admin[p].path
        /\ QueueGrows(StoredPaths({a}))
    BY <1>1, WriteUploadFacts
  <1>3. /\ admin' \in [AdminProcs -> Requests] /\ \A x \in AdminProcs \ {p} : admin'[x] = admin[x]
        /\ admin[p].op = "upload" /\ admin'[p].op = "upload" /\ admin'[p].pc = "failed"
        /\ admin'[p].path = admin[p].path
    BY <1>1, UploadFailed
  <1>4. ReleasesTyped'
    BY <1>0, <1>1, <1>2, <1>3 DEF ReleasesTyped
  <1>5. LineHeld'
    BY <1>0, <1>1, <1>3, LineWeaker DEF Reading
  <1>6. ~At(p, "upload", "stored")'
    BY <1>3 DEF At
  <1> QED
    BY <1>1, <1>2, <1>3, <1>4, <1>5, <1>6, PackageKeeps

(* The upload is refused. *)
LEMMA UploadFailsKeeps ==
  ASSUME StorageInv, UNCHANGED versionVars, NEW p \in AdminProcs, UploadFails(p)
  PROVE  StorageInv'
  <1>0. FilesTyped /\ ReleasesTyped /\ LineHeld
    BY DEF StorageInv
  <1>1. /\ At(p, "upload", "stored") /\ admin' = [admin EXCEPT ![p].pc = "failed"]
        /\ UNCHANGED <<release, artifact, line, uploads, files, forsaken, cleanup, cleaner>>
    BY DEF UploadFails, noFileChange, fileVars
  <1>2. QueueGrows({}) /\ ArtifactPaths' = ArtifactPaths
    BY <1>0, <1>1, QueueStays DEF ArtifactPaths, StoredPaths
  <1>3. /\ admin' \in [AdminProcs -> Requests] /\ \A x \in AdminProcs \ {p} : admin'[x] = admin[x]
        /\ admin[p].op = "upload" /\ admin'[p].op = "upload" /\ admin'[p].pc = "failed"
        /\ admin'[p].path = admin[p].path
    BY <1>1, UploadFailed
  <1>4. ReleasesTyped'
    BY <1>0, <1>1, <1>3 DEF ReleasesTyped
  <1>5. LineHeld'
    BY <1>0, <1>1, <1>3, LineWeaker DEF Reading
  <1> QED
    BY <1>1, <1>2, <1>3, <1>4, <1>5, PackageKeeps

(* A file is received, under a path of its own. *)
LEMMA BeginUploadKeeps ==
  ASSUME StorageInv, UNCHANGED versionVars, NEW p \in AdminProcs, NEW r \in Releases,
         NEW a \in Artifacts \union {0}, BeginUpload(p, r, a)
  PROVE  StorageInv'
  <1> DEFINE new == Package(uploads + 1)
             q == [op |-> "upload", pc |-> "stored", r |-> r, a |-> a, path |-> new]
  <1>0. FilesTyped /\ PackagesFit /\ ReleasesTyped /\ LineHeld
    BY DEF StorageInv
  <1>n. uploads \in 0..MaxUploads /\ MaxUploads \in Nat
    BY <1>0, ReleaseAssumption DEF ReleasesTyped
  <1>1. /\ admin[p] = NoRequest /\ admin' = [admin EXCEPT ![p] = q]
        /\ uploads < MaxUploads /\ uploads' = uploads + 1 /\ files' = files \union {new}
        /\ UNCHANGED <<release, artifact, line, cleanup, cleaner, forsaken>>
    BY DEF BeginUpload, Begin
  <1>2. new \in Packages /\ uploads' \in 0..MaxUploads /\ uploads' > uploads
    BY <1>n, <1>1 DEF Packages
  <1>3. q \in Requests /\ q.op = "upload" /\ q.pc = "stored" /\ q.path = new
    BY <1>2 DEF Requests
  <1>4. PackageFresh(uploads + 1)
    BY <1>0, <1>n, <1>1 DEF PackagesFit
  <1>5. new \notin files /\ new \notin Doomed /\ new \notin ArtifactPaths
    BY <1>4 DEF PackageFresh
  <1>6. \A m \in 1..MaxUploads : m # uploads + 1 => Package(m) # new
    BY PathsDiffer
  <1> HIDE DEF q
  <1>7. admin' \in [AdminProcs -> Requests] /\ admin'[p] = q /\ \A x \in AdminProcs \ {p} : admin'[x] = admin[x]
    BY <1>0, <1>1, <1>3, AdminMoves
  <1>8. /\ ReleasesTyped' /\ ArtifactPaths' = ArtifactPaths /\ QueueGrows({})
    BY <1>0, <1>1, <1>2, <1>7, QueueStays DEF ReleasesTyped, ArtifactPaths, StoredPaths
  <1>9. LineHeld'
    BY <1>0, <1>1, <1>3, <1>7, LineWeaker DEF Reading
  <1>10. Doomed' = Doomed
    BY <1>8 DEF QueueGrows
  <1>11. \A x \in AdminProcs : Uploading(x) => \E n \in 1..uploads : admin[x].path = Package(n) /\ Package(n) # new
    BY <1>0, <1>n, <1>6 DEF PackagesFit
  <1>12. ~Uploading(p) /\ (\A x \in AdminProcs \ {p} : Uploading(x)' <=> Uploading(x))
    BY <1>1, <1>7 DEF Uploading, NoRequest
  <1>13. \A x \in AdminProcs : Uploading(x)' => \E n \in 1..uploads' : admin'[x].path = Package(n)
    <2>1. admin'[p].path = Package(uploads') /\ uploads' \in 1..uploads'
      BY <1>n, <1>1, <1>3, <1>7
    <2>2. 1..uploads \subseteq 1..uploads'
      BY <1>n, <1>1
    <2> QED
      BY <1>7, <1>11, <1>12, <2>1, <2>2
  <1>14. \A x, y \in AdminProcs : Uploading(x)' /\ Uploading(y)' /\ admin'[x].path = admin'[y].path => x = y
    BY <1>0, <1>3, <1>7, <1>11, <1>12 DEF PackagesFit
  <1>15. StoredUploads' \subseteq StoredUploads \union {new}
    BY <1>3, <1>7 DEF StoredUploads, At
  <1>16. StoredUploads' \subseteq files' \ (Doomed' \union ArtifactPaths')
    BY <1>0, <1>1, <1>5, <1>8, <1>10, <1>15 DEF PackagesFit
  <1>17. \A n \in 1..MaxUploads : n > uploads' => PackageFresh(n)'
    <2> SUFFICES ASSUME NEW n \in 1..MaxUploads, n > uploads' PROVE PackageFresh(n)'
      OBVIOUS
    <2>1. PackageFresh(n) /\ n # uploads + 1
      BY <1>0, <1>n, <1>1 DEF PackagesFit
    <2> QED
      BY <1>1, <1>6, <1>8, <1>10, <2>1 DEF PackageFresh
  <1>18. PackagesFit'
    BY <1>0, <1>1, <1>8, <1>13, <1>14, <1>16, <1>17 DEF PackagesFit
  <1>19. ReceivedPaths' = ReceivedPaths \union {new}
    <2>1. \A x \in AdminProcs \ {p} : admin'[x] = admin[x]
      BY <1>7
    <2>2. admin[p].op # "upload" /\ admin'[p].op = "upload" /\ admin'[p].path = new
      BY <1>1, <1>3, <1>7 DEF NoRequest
    <2> QED
      BY <2>1, <2>2 DEF ReceivedPaths
  <1>20. \A x \in Packages : x \in files' => x \in Wanted' \/ (x \in files /\ x \notin Wanted)
    BY <1>0, <1>1, <1>8, <1>19, WantedFacts, WantedFactsNext
  <1>21. files' \subseteq Paths /\ forsaken' \subseteq Paths /\ forsaken \subseteq forsaken'
    BY <1>0, <1>1, <1>2, PathKinds DEF FilesTyped
  <1>22. \A v \in VersionRows : \A x \in {FinalPath(v), PartPath(v)} : x \in files' <=> x \in files
    BY <1>1, <1>2, PathKinds
  <1> QED
    BY <1>8, <1>9, <1>18, <1>20, <1>21, <1>22, ReleaseKeeps

(* cleanupFailedReleaseArtifactUpload asks who refers to the file first:   *)
(* the commit it takes for failed may have been made.                      *)
LEMMA CleanUploadKeeps ==
  ASSUME StorageInv, UNCHANGED versionVars, NEW p \in AdminProcs, CleanUpload(p, References)
  PROVE  StorageInv'
  <1>0. FilesTyped /\ PackagesFit /\ ReleasesTyped /\ LineHeld /\ admin[p] \in Requests
    BY DEF StorageInv, ReleasesTyped
  <1>1. /\ admin[p].op = "upload" /\ admin[p].pc = "failed" /\ Done(p) /\ RemoveOrQueue({admin[p].path}, References)
        /\ UNCHANGED <<release, artifact, line, uploads>>
    BY DEF CleanUpload, At
  <1> DEFINE old == admin[p].path
  <1>2. old \in Packages
    BY <1>0, <1>1, RequestKinds
  <1>3. {old} \in SUBSET Paths
    BY <1>2, PathKinds
  <1>4. PICK qs \in SUBSET ({old} \cap files) :
           /\ QueueGrows(qs) /\ files' \subseteq files /\ files \ files' \subseteq {old} \ References
           /\ forsaken \subseteq forsaken' /\ forsaken' \subseteq Paths
           /\ \A x \in {old} \cap files' : x \in References \/ x \in forsaken' \/ x \in qs
    BY <1>0, <1>1, <1>3, RemoveFacts
  <1>5. admin' \in [AdminProcs -> Requests] /\ admin'[p].op = "idle" /\ \A x \in AdminProcs \ {p} : admin'[x] = admin[x]
    BY <1>0, <1>1, AdminDone
  <1>6. ReleasesTyped' /\ ArtifactPaths' = ArtifactPaths /\ ArtifactPaths \subseteq References
    BY <1>0, <1>1, <1>5 DEF ReleasesTyped, ArtifactPaths, StoredPaths, References
  <1>7. LineHeld'
    BY <1>0, <1>1, <1>5, LineWeaker DEF Reading
  <1>8. \A x \in AdminProcs : Uploading(x)' => x # p /\ Uploading(x) /\ admin'[x] = admin[x] /\ admin[x].path # old
    BY <1>0, <1>1, <1>5 DEF PackagesFit, Uploading
  <1>9. StoredUploads' \subseteq StoredUploads \ {old}
    BY <1>8 DEF StoredUploads, At, Uploading
  <1> HIDE DEF old
  <1>10. PackagesFit'
    <2>1. ArtifactPaths' \subseteq files'
      BY <1>0, <1>4, <1>6 DEF PackagesFit
    <2>2. StoredUploads' \subseteq files' \ (Doomed' \union ArtifactPaths')
      BY <1>0, <1>4, <1>6, <1>9 DEF PackagesFit, QueueGrows
    <2>3. \A x \in AdminProcs : Uploading(x)' => \E n \in 1..uploads' : admin'[x].path = Package(n)
      BY <1>0, <1>1, <1>8 DEF PackagesFit
    <2>4. \A x, y \in AdminProcs : Uploading(x)' /\ Uploading(y)' /\ admin'[x].path = admin'[y].path => x = y
      BY <1>0, <1>8 DEF PackagesFit
    <2>5. \A n \in 1..MaxUploads : n > uploads' => PackageFresh(n)'
      BY <1>0, <1>1, <1>4, <1>6 DEF PackagesFit, PackageFresh, QueueGrows
    <2>6. \A c \in Cleaners : cleaner'[c].pc = "unlink" => cleaner'[c].path \notin ArtifactPaths'
      BY <1>0, <1>4, <1>6 DEF PackagesFit, QueueGrows
    <2> QED
      BY <2>1, <2>2, <2>3, <2>4, <2>5, <2>6 DEF PackagesFit
  <1>11. \A x \in ReceivedPaths : x \in ReceivedPaths' \/ x = old
    BY <1>5 DEF ReceivedPaths, old
  <1>12. old \in References => old \in ArtifactPaths
    BY <1>2, PathsDiffer DEF References, VersionPaths, Packages
  <1>13. \A x \in Packages : x \in files' => x \in Wanted' \/ (x \in files /\ x \notin Wanted) \/ x \in qs
    BY <1>0, <1>4, <1>6, <1>11, <1>12, WantedFacts, WantedFactsNext
  <1>14. files' \subseteq Paths /\ qs \subseteq Packages
    BY <1>0, <1>2, <1>4 DEF FilesTyped
  <1>15. \A v \in VersionRows : \A x \in {FinalPath(v), PartPath(v)} : x \in files' <=> x \in files
    BY <1>2, <1>4, PathKinds
  <1> QED
    BY <1>4, <1>6, <1>7, <1>10, <1>13, <1>14, <1>15, ReleaseKeeps

(* Every request of the release centre. *)
LEMMA ReleaseStepKeeps ==
  ASSUME StorageInv, ReleaseStep
  PROVE  StorageInv'
  <1>1. ReleaseNext(References) /\ UNCHANGED versionVars
    BY DEF ReleaseStep
  <1>2. CASE \E r \in Releases : \E ch \in {"beta", "stable"}, linked \in BOOLEAN : CreateRelease(r, ch, linked)
    BY <1>1, <1>2, CreateReleaseKeeps, Zenon
  <1>3. CASE \E r \in Releases : UnpublishRelease(r) \/ DeleteRelease(r)
    BY <1>1, <1>3, UnpublishReleaseKeeps, DeleteReleaseKeeps, Zenon
  <1>4. CASE \E r \in Releases, p \in AdminProcs :
               \E ch \in {"same", "beta", "stable"}, st \in {"same", "published", "draft"} : BeginEdit(p, r, ch, st)
    BY <1>1, <1>4, BeginEditKeeps, Zenon
  <1>5. CASE \E r \in Releases, p \in AdminProcs : BeginPromote(p, r) \/ BeginLink(p, r)
    BY <1>1, <1>5, BeginPromoteKeeps, BeginLinkKeeps, Zenon
  <1>6. CASE \E r \in Releases, p \in AdminProcs : \E a \in Artifacts \union {0} : BeginUpload(p, r, a)
    BY <1>1, <1>6, BeginUploadKeeps, Zenon
  <1>7. CASE \E p \in AdminProcs : EditRead(p) \/ EditWrite(p) \/ PromoteRead(p) \/ PromoteWrite(p)
    BY <1>1, <1>7, EditReadKeeps, EditWriteKeeps, PromoteReadKeeps, PromoteWriteKeeps, Zenon
  <1>8. CASE \E p \in AdminProcs : CommitLink(p) \/ UploadFails(p) \/ CleanUpload(p, References)
    BY <1>1, <1>8, CommitLinkKeeps, UploadFailsKeeps, CleanUploadKeeps, Zenon
  <1>9. CASE \E p \in AdminProcs, a \in Artifacts : CommitUpload(p, a) \/ CommitUnanswered(p, a)
    BY <1>1, <1>9, CommitUploadKeeps, CommitUnansweredKeeps, Zenon
  <1>10. CASE \E a \in Artifacts : SwitchToLink(a) \/ DeleteReleaseArtifact(a)
    BY <1>1, <1>10, RetireKeeps, Zenon
  <1> QED
    BY <1>1, <1>2, <1>3, <1>4, <1>5, <1>6, <1>7, <1>8, <1>9, <1>10, Zenon DEF ReleaseNext

-----------------------------------------------------------------------------
(* Runtime versions.                                                       *)

(* A step of the versions vs: the releases and the other versions are left *)
(* alone, and a file of vs that is wanted no more has got a job.           *)
LEMMA VersionKeeps ==
  ASSUME StorageInv, UNCHANGED releaseVars,
         NEW vs \in SUBSET VersionRows, NEW ps \in SUBSET PathsOf(vs), QueueGrows(ps),
         VersionsTyped', files' \subseteq Paths, forsaken \subseteq forsaken', forsaken' \subseteq Paths,
         \A x \in Packages : x \in files' <=> x \in files,
         \A u \in VersionRows \ vs : /\ version'[u].status = version[u].status
                                     /\ FinalPath(u) \in files' <=> FinalPath(u) \in files
                                     /\ PartPath(u) \in files' <=> PartPath(u) \in files,
         \A w \in Fetchers : \/ fetcher'[w] = fetcher[w]
                             \/ fetcher[w].v \in vs \union {0} /\ fetcher'[w].v \in vs \union {0},
         \A v \in vs : VersionFits(v)',
         \A w \in Fetchers : fetcher'[w].v \in vs \union {0} => FetchFits(w)',
         policy'.active # 0 => version'[policy'.active].status = "ready",
         \A v \in vs : \A x \in {FinalPath(v), PartPath(v)} :
            x \in files' => x \in Wanted' \/ (x \in files /\ x \notin Wanted) \/ x \in ps
  PROVE  StorageInv'
  <1>0. FilesTyped /\ ReleasesTyped /\ VersionsTyped /\ VersionsFit
    BY DEF StorageInv
  <1>1. FilesTyped'
    BY DEF FilesTyped, QueueGrows
  <1>2. ReleasesTyped' /\ LineHeld'
    BY LineSame
  <1>3. UNCHANGED <<artifact, admin, uploads>>
    BY DEF releaseVars
  <1>4. \A x \in Packages : x \notin ps
    BY PathsDiffer DEF PathsOf, Packages
  <1>5. PackagesFit'
    BY <1>3, <1>4, PackagesSame DEF QueueGrows
  <1>6. \A u \in VersionRows \ vs : FinalPath(u) \notin ps /\ PartPath(u) \notin ps
    BY PathsDiffer DEF PathsOf
  <1>7. \A u \in VersionRows \ vs : \A w \in Fetchers : fetcher'[w].v = u <=> fetcher[w].v = u
    BY <1>0, VersionAssumption DEF VersionRows
  <1>8. ASSUME NEW u \in VersionRows \ vs PROVE VersionFits(u)'
    <2>1. FetchersOf(u)' = FetchersOf(u)
      BY <1>7 DEF FetchersOf
    <2>2. VersionFits(u)
      BY <1>0 DEF VersionsFit
    <2>3. \A x \in {FinalPath(u), PartPath(u)} : (x \in files' <=> x \in files) /\ (x \in Doomed' => x \in Doomed)
      BY <1>6 DEF QueueGrows
    <2> QED
      BY <1>0, <2>1, <2>2, <2>3, VersionSame
  <1>9. ASSUME NEW w \in Fetchers PROVE FetchFits(w)'
    <2>1. CASE fetcher'[w].v \in vs \union {0}
      BY <2>1
    <2>2. CASE fetcher'[w].v \notin vs \union {0}
      <3>1. fetcher'[w] = fetcher[w] /\ FetchFits(w) /\ fetcher[w].v \in VersionRows \ vs
        BY <1>0, <2>2 DEF VersionsFit, VersionsTyped
      <3> QED
        BY <1>0, <1>7, <3>1, FetchSame
    <2> QED
      BY <2>1, <2>2
  <1>10. VersionsFit'
    BY <1>8, <1>9 DEF VersionsFit
  <1>11. \A x \in Packages : x \in Wanted => x \in Wanted'
    <2>1. ArtifactPaths' = ArtifactPaths /\ ReceivedPaths' = ReceivedPaths
      BY <1>3 DEF ArtifactPaths, StoredPaths, ReceivedPaths
    <2> QED
      BY <1>0, <1>2, <2>1, WantedFacts, WantedFactsNext
  <1>12. ASSUME NEW u \in VersionRows \ vs, NEW x \in {FinalPath(u), PartPath(u)} PROVE x \in Wanted => x \in Wanted'
    <2>1. Working(u)' <=> Working(u)
      <3>1. \A w \in Fetchers : fetcher[w].v = u => fetcher'[w] = fetcher[w]
        BY VersionAssumption DEF VersionRows
      <3> QED
        BY <1>7, <3>1 DEF Working
    <2> QED
      BY <1>0, <1>2, <2>1, WantedFacts, WantedFactsNext
  <1>13. \A x \in files' : x \in Wanted' \/ (x \in files /\ x \notin Wanted) \/ x \in ps
    BY <1>11, <1>12, PathKinds
  <1>14. Queued'
    BY <1>13, QueuedKept
  <1> QED
    BY <1>1, <1>2, <1>5, <1>10, <1>14 DEF StorageInv

(* The status of a row is written. *)
LEMMA StatusSet ==
  ASSUME VersionsTyped, NEW v \in VersionRows, NEW s \in Statuses, SetStatus(v, s)
  PROVE  /\ version' \in [VersionRows -> [status : Statuses, auto : BOOLEAN, source : Sources \union {0}]]
         /\ version'[v].status = s /\ \A u \in VersionRows \ {v} : version'[u] = version[u]
  BY DEF VersionsTyped, SetStatus

(* A running download is the only one of its version, which no cleanup     *)
(* knows as long as its row exists (processPending claims a queued row).   *)
LEMMA Running ==
  ASSUME StorageInv, NEW w \in Fetchers, fetcher[w].pc # "idle"
  PROVE  /\ fetcher[w].v \in VersionRows /\ fetcher[w].v # 0
         /\ FetchersOf(fetcher[w].v) = {w} /\ FetchFits(w) /\ VersionFits(fetcher[w].v)
         /\ version[fetcher[w].v].status # "gone" =>
              FinalPath(fetcher[w].v) \notin Doomed /\ PartPath(fetcher[w].v) \notin Doomed
         /\ version[fetcher[w].v].status # "ready" => policy.active # fetcher[w].v
  <1>1. FetchFits(w) /\ fetcher[w] \in [pc : FetchSteps, v : VersionRows \union {0}]
    BY DEF StorageInv, VersionsFit, VersionsTyped
  <1>2. fetcher[w].v \in VersionRows /\ fetcher[w].v # 0
    BY <1>1 DEF FetchFits
  <1>3. VersionFits(fetcher[w].v) /\ (policy.active # 0 => version[policy.active].status = "ready")
    BY <1>2 DEF StorageInv, VersionsFit
  <1>4. FetchersOf(fetcher[w].v) = {w}
    BY <1>1, <1>2 DEF FetchersOf, FetchFits
  <1>5. version[fetcher[w].v].status # "gone" => ~Dead(fetcher[w].v)
    BY <1>4 DEF Dead
  <1> QED
    BY <1>1, <1>2, <1>3, <1>4, <1>5 DEF VersionFits

(* The download of w moves on. *)
LEMMA FetchMoves ==
  ASSUME StorageInv, NEW w \in Fetchers, fetcher[w].pc # "idle", NEW pc \in FetchSteps \ {"idle"}, To(w, pc)
  PROVE  /\ fetcher' \in [Fetchers -> [pc : FetchSteps, v : VersionRows \union {0}]]
         /\ fetcher'[w].pc = pc /\ fetcher'[w].v = fetcher[w].v
         /\ \A x \in Fetchers \ {w} : fetcher'[x] = fetcher[x] /\ fetcher[x].v # fetcher[w].v
         /\ FetchersOf(fetcher[w].v)' = {w} /\ (Working(fetcher[w].v)' <=> pc # "ready")
  <1>1. /\ fetcher' \in [Fetchers -> [pc : FetchSteps, v : VersionRows \union {0}]]
        /\ fetcher'[w].pc = pc /\ fetcher'[w].v = fetcher[w].v
        /\ \A x \in Fetchers \ {w} : fetcher'[x] = fetcher[x]
    BY DEF StorageInv, VersionsTyped, To
  <1>2. \A x \in Fetchers \ {w} : fetcher[x].v # fetcher[w].v
    BY Running DEF FetchersOf
  <1>3. \A x \in Fetchers : fetcher'[x].v = fetcher[w].v <=> x = w
    BY <1>1, <1>2
  <1>4. PICK v : v = fetcher[w].v
    OBVIOUS
  <1>5. FetchersOf(v)' = {w} /\ (Working(v)' <=> pc # "ready")
    BY <1>1, <1>3, <1>4 DEF FetchersOf, Working
  <1> QED
    BY <1>1, <1>2, <1>4, <1>5

(* The download of w ends. *)
LEMMA FetchStops ==
  ASSUME StorageInv, NEW w \in Fetchers, fetcher[w].pc # "idle", Stop(w)
  PROVE  /\ fetcher' \in [Fetchers -> [pc : FetchSteps, v : VersionRows \union {0}]]
         /\ fetcher'[w].pc = "idle" /\ fetcher'[w].v = 0
         /\ \A x \in Fetchers \ {w} : fetcher'[x] = fetcher[x] /\ fetcher[x].v # fetcher[w].v
  <1>1. /\ fetcher' \in [Fetchers -> [pc : FetchSteps, v : VersionRows \union {0}]]
        /\ fetcher'[w].pc = "idle" /\ fetcher'[w].v = 0
        /\ \A x \in Fetchers \ {w} : fetcher'[x] = fetcher[x]
    BY DEF StorageInv, VersionsTyped, Stop, NoFetch, FetchSteps
  <1>2. \A x \in Fetchers \ {w} : fetcher[x].v # fetcher[w].v
    BY Running DEF FetchersOf
  <1> QED
    BY <1>1, <1>2

(* A step of one download w on its version v.                              *)
LEMMA DownloadKeeps ==
  ASSUME StorageInv, UNCHANGED releaseVars, NEW w \in Fetchers, NEW v \in VersionRows, fetcher[w].v \in {v, 0},
         NEW ps \in SUBSET {FinalPath(v), PartPath(v)}, QueueGrows(ps),
         VersionsTyped', forsaken \subseteq forsaken', forsaken' \subseteq Paths,
         \A x \in Paths \ {FinalPath(v), PartPath(v)} : x \in files' <=> x \in files, files' \subseteq Paths,
         \A u \in VersionRows \ {v} : version'[u].status = version[u].status,
         fetcher'[w].v \in {v, 0}, \A x \in Fetchers \ {w} : fetcher'[x] = fetcher[x],
         \A x \in Fetchers \ {w} : fetcher[x].v # v,
         VersionFits(v)',
         fetcher'[w].v = 0 <=> fetcher'[w].pc = "idle",
         fetcher'[w].v = v =>
            /\ CASE fetcher'[w].pc = "clean" -> version'[v].status \in {"failed", "gone"}
                 [] fetcher'[w].pc = "ready" -> version'[v].status \in {"ready", "gone"}
                 [] OTHER -> version'[v].status \in {"busy", "failed", "gone"}
            /\ fetcher'[w].pc \in {"prepared", "ready"} => PartPath(v) \notin files'
            /\ fetcher'[w].pc = "prepared" /\ version'[v].status # "gone" => FinalPath(v) \in files',
         policy'.active # 0 => version'[policy'.active].status = "ready",
         \A x \in {FinalPath(v), PartPath(v)} :
            x \in files' => x \in Wanted' \/ (x \in files /\ x \notin Wanted) \/ x \in ps
  PROVE  StorageInv'
  <1>0. v # 0
    BY VersionAssumption DEF VersionRows
  <1>1. ps \in SUBSET PathsOf({v})
    BY PathsOfOne
  <1>2. \A x \in Packages : x \in files' <=> x \in files
    BY PathKinds
  <1>3. \A u \in VersionRows \ {v} : /\ FinalPath(u) \in files' <=> FinalPath(u) \in files
                                     /\ PartPath(u) \in files' <=> PartPath(u) \in files
    BY PathKinds, PathsDiffer
  <1>4. ASSUME NEW x \in Fetchers, fetcher'[x].v \in {v} \union {0} PROVE FetchFits(x)'
    <2>1. CASE x = w
      <3>1. fetcher'[w].v = v => \A y \in Fetchers : fetcher'[y].v = v => y = w
        OBVIOUS
      <3> QED
        BY <1>0, <2>1, <3>1 DEF FetchFits
    <2>2. CASE x # w
      <3>1. fetcher'[x].v = 0 /\ fetcher[x].v = 0 /\ fetcher'[x].pc = fetcher[x].pc /\ FetchFits(x)
        BY <1>4, <2>2 DEF StorageInv, VersionsFit
      <3>2. fetcher'[x].pc = "idle"
        BY <3>1 DEF FetchFits
      <3> QED
        BY <3>1, <3>2 DEF FetchFits
    <2> QED
      BY <2>1, <2>2
  <1>5. \A x \in Fetchers : \/ fetcher'[x] = fetcher[x]
                            \/ fetcher[x].v \in {v} \union {0} /\ fetcher'[x].v \in {v} \union {0}
    OBVIOUS
  <1>6. {v} \in SUBSET VersionRows
    OBVIOUS
  <1> QED
    BY <1>1, <1>2, <1>3, <1>4, <1>5, <1>6, VersionKeeps

(* A step that changes no row, download or file: only the policy, which    *)
(* serves a version that is ready.                                         *)
LEMMA PolicyKeeps ==
  ASSUME StorageInv, UNCHANGED releaseVars, UNCHANGED fileVars, UNCHANGED <<version, fetcher>>, VersionsTyped',
         policy'.active # 0 => version'[policy'.active].status = "ready"
  PROVE  StorageInv'
  <1>1. UNCHANGED <<files, cleanup, cleaner, forsaken>>
    BY DEF fileVars
  <1>2. FilesTyped /\ VersionsFit
    BY DEF StorageInv
  <1>3. QueueGrows({})
    BY <1>1, <1>2, QueueStays
  <1>4. {} \in SUBSET VersionRows /\ {} \in SUBSET PathsOf({})
    OBVIOUS
  <1>5. \A w \in Fetchers : fetcher'[w].v \in {} \union {0} => FetchFits(w)'
    BY <1>2 DEF VersionsFit, FetchFits
  <1> QED
    BY <1>1, <1>2, <1>3, <1>4, <1>5, VersionKeeps DEF FilesTyped

(* acquire and scheduleLatest queue a new row. *)
LEMMA QueueRowKeeps ==
  ASSUME StorageInv, UNCHANGED releaseVars, UNCHANGED fileVars, fetcher' = fetcher,
         NEW v \in NextRow, NEW auto \in BOOLEAN, NEW source \in Sources \union {0},
         version' = [version EXCEPT ![v] = [status |-> "queued", auto |-> auto, source |-> source]],
         policy' \in [component : BOOLEAN, source : Sources \union {0}, auto : BOOLEAN, active : VersionRows \union {0}],
         policy'.active = policy.active
  PROVE  StorageInv'
  <1>1. UNCHANGED <<files, cleanup, cleaner, forsaken>>
    BY DEF fileVars
  <1>2. FilesTyped /\ VersionsTyped /\ VersionsFit
    BY DEF StorageInv
  <1>3. QueueGrows({}) /\ Doomed' = Doomed
    BY <1>1, <1>2, QueueStays DEF Doomed, QueuedPaths
  <1>4. v \in VersionRows /\ version[v].status = "none"
    BY DEF NextRow, StatusIs
  <1>5. /\ VersionsTyped' /\ version'[v].status = "queued"
        /\ \A u \in VersionRows \ {v} : version'[u] = version[u]
    BY <1>2, <1>4 DEF VersionsTyped, Statuses
  <1>6. VersionFits(v)
    BY <1>2, <1>4 DEF VersionsFit
  <1>7. /\ FetchersOf(v) = {} /\ FinalPath(v) \notin files /\ PartPath(v) \notin files
        /\ FinalPath(v) \notin Doomed /\ PartPath(v) \notin Doomed
    BY <1>4, <1>6 DEF VersionFits, Dead
  <1>8. FetchersOf(v)' = {}
    BY <1>7 DEF FetchersOf
  <1>9. VersionFits(v)'
    BY <1>1, <1>3, <1>5, <1>7, <1>8 DEF VersionFits
  <1>10. \A w \in Fetchers : fetcher'[w].v \in {v} \union {0} => FetchFits(w)'
    <2>1. \A w \in Fetchers : fetcher[w].v # v
      BY <1>7 DEF FetchersOf
    <2> QED
      BY <1>2, <2>1 DEF VersionsFit, FetchFits
  <1>11. policy'.active # 0 => version'[policy'.active].status = "ready"
    BY <1>2, <1>4, <1>5 DEF VersionsFit, VersionsTyped
  <1>12. {v} \in SUBSET VersionRows /\ {} \in SUBSET PathsOf({v})
    BY <1>4
  <1>13. \A u \in {v} : VersionFits(u)'
    BY <1>9
  <1>14. \A u \in {v} : \A x \in {FinalPath(u), PartPath(u)} :
            x \in files' => x \in Wanted' \/ (x \in files /\ x \notin Wanted) \/ x \in {}
    BY <1>1, <1>7
  <1>15. files' \subseteq Paths /\ forsaken \subseteq forsaken' /\ forsaken' \subseteq Paths
    BY <1>1, <1>2 DEF FilesTyped
  <1>16. \A w \in Fetchers : \/ fetcher'[w] = fetcher[w]
                             \/ fetcher[w].v \in {v} \union {0} /\ fetcher'[w].v \in {v} \union {0}
    OBVIOUS
  <1>17. \A x \in Packages : x \in files' <=> x \in files
    BY <1>1
  <1>18. \A u \in VersionRows \ {v} : /\ version'[u].status = version[u].status
                                      /\ FinalPath(u) \in files' <=> FinalPath(u) \in files
                                      /\ PartPath(u) \in files' <=> PartPath(u) \in files
    BY <1>1, <1>5
  <1> QED
    BY <1>3, <1>5, <1>10, <1>11, <1>12, <1>13, <1>14, <1>15, <1>16, <1>17, <1>18, VersionKeeps, Zenon

(* The policy of a component. *)
LEMMA PolicySet ==
  ASSUME VersionsTyped
  PROVE  policy \in [component : BOOLEAN, source : Sources \union {0}, auto : BOOLEAN, active : VersionRows \union {0}]
  BY DEF VersionsTyped

(* acquire. *)
LEMMA AcquireKeeps ==
  ASSUME StorageInv, UNCHANGED releaseVars, NEW s \in Sources, NEW auto \in BOOLEAN, Acquire(s, auto)
  PROVE  StorageInv'
  <1>0. VersionsTyped /\ VersionsFit
    BY DEF StorageInv
  <1>1. /\ policy' = [policy EXCEPT !.source = s, !.auto = auto] /\ fetcher' = fetcher /\ UNCHANGED fileVars
        /\ \/ UNCHANGED version
           \/ \E v \in NextRow : version' = [version EXCEPT ![v] = [status |-> "queued", auto |-> auto, source |-> s]]
    BY DEF Acquire
  <1>2. PICK q : q = [policy EXCEPT !.source = s]
    OBVIOUS
  <1>3. /\ q \in [component : BOOLEAN, source : Sources \union {0}, auto : BOOLEAN, active : VersionRows \union {0}]
        /\ q.active = policy.active
    BY <1>0, <1>2, PolicySet
  <1>4. policy' = [q EXCEPT !.auto = auto]
    BY <1>1, <1>2
  <1>5. /\ policy' \in [component : BOOLEAN, source : Sources \union {0}, auto : BOOLEAN, active : VersionRows \union {0}]
        /\ policy'.active = policy.active
    BY <1>3, <1>4
  <1>6. CASE UNCHANGED version
    BY <1>0, <1>1, <1>5, <1>6, PolicyKeeps DEF VersionsTyped, VersionsFit
  <1>7. CASE \E v \in NextRow : version' = [version EXCEPT ![v] = [status |-> "queued", auto |-> auto, source |-> s]]
    <2>1. PICK v \in NextRow : version' = [version EXCEPT ![v] = [status |-> "queued", auto |-> auto, source |-> s]]
      BY <1>7
    <2> QED
      BY <1>1, <1>5, <2>1, QueueRowKeeps
  <1> QED
    BY <1>1, <1>6, <1>7

(* setAutoLatest. *)
LEMMA SetAutoLatestKeeps ==
  ASSUME StorageInv, UNCHANGED releaseVars, NEW on \in BOOLEAN, SetAutoLatest(on)
  PROVE  StorageInv'
  <1>0. VersionsTyped /\ VersionsFit
    BY DEF StorageInv
  <1>1. policy' = [policy EXCEPT !.auto = on] /\ UNCHANGED <<version, fetcher>> /\ UNCHANGED fileVars
    BY DEF SetAutoLatest
  <1>2. /\ policy' \in [component : BOOLEAN, source : Sources \union {0}, auto : BOOLEAN, active : VersionRows \union {0}]
        /\ policy'.active = policy.active
    BY <1>0, <1>1, PolicySet
  <1> QED
    BY <1>0, <1>1, <1>2, PolicyKeeps DEF VersionsTyped, VersionsFit

(* scheduleLatest. *)
LEMMA ScheduleLatestKeeps ==
  ASSUME StorageInv, UNCHANGED releaseVars, ScheduleLatest
  PROVE  StorageInv'
  <1>0. VersionsTyped
    BY DEF StorageInv
  <1>1. PICK v \in NextRow : version' = [version EXCEPT
            ![v] = [status |-> "queued", auto |-> TRUE, source |-> policy.source]]
    BY DEF ScheduleLatest
  <1>2. /\ policy \in [component : BOOLEAN, source : Sources \union {0}, auto : BOOLEAN, active : VersionRows \union {0}]
        /\ policy.source \in Sources \union {0}
    BY <1>0, PolicySet
  <1>3. UNCHANGED <<policy, fetcher>> /\ UNCHANGED fileVars /\ TRUE \in BOOLEAN
    BY DEF ScheduleLatest
  <1> QED
    BY <1>1, <1>2, <1>3, QueueRowKeeps

(* A silent download is recorded as failed: if it still runs it keeps its  *)
(* files, else they are left to the scan since the crash.                  *)
LEMMA FailStaleKeeps ==
  ASSUME StorageInv, UNCHANGED releaseVars, NEW v \in VersionRows, FailStale(v)
  PROVE  StorageInv'
  <1>0. FilesTyped /\ ReleasesTyped /\ VersionsTyped /\ VersionsFit /\ VersionFits(v)
    BY DEF StorageInv, VersionsFit
  <1>1. /\ version[v].status = "busy" /\ SetStatus(v, "failed") /\ UNCHANGED <<policy, fetcher>>
        /\ UNCHANGED <<files, cleanup, cleaner, forsaken>>
    BY DEF FailStale, fileVars
  <1>2. QueueGrows({}) /\ Doomed' = Doomed
    BY <1>0, <1>1, QueueStays DEF Doomed, QueuedPaths
  <1>3. /\ VersionsTyped' /\ version'[v].status = "failed" /\ \A u \in VersionRows \ {v} : version'[u] = version[u]
    BY <1>0, <1>1, StatusSet DEF VersionsTyped, Statuses
  <1>4. FinalPath(v) \notin Doomed /\ PartPath(v) \notin Doomed
    BY <1>0, <1>1 DEF VersionFits, Dead
  <1>5. VersionFits(v)'
    BY <1>1, <1>2, <1>3, <1>4 DEF VersionFits
  <1>6. \A w \in Fetchers : fetcher'[w].v \in {v} \union {0} => FetchFits(w)'
    <2> SUFFICES ASSUME NEW w \in Fetchers, fetcher[w].v \in {v, 0} PROVE FetchFits(w)'
      BY <1>1
    <2>1. FetchFits(w)
      BY <1>0 DEF VersionsFit
    <2> QED
      BY <1>1, <1>3, <2>1 DEF FetchFits
  <1>7. policy'.active # 0 => version'[policy'.active].status = "ready"
    BY <1>0, <1>1, <1>3 DEF VersionsFit, VersionsTyped
  <1>8. FetchersOf(v) # {} => Working(v)'
    <2> SUFFICES ASSUME NEW w \in Fetchers, fetcher[w].v = v PROVE fetcher[w].pc # "ready"
      BY <1>1 DEF FetchersOf, Working
    <2>1. FetchFits(w) /\ v # 0
      BY <1>0, VersionAssumption DEF VersionsFit, VersionRows
    <2> QED
      BY <1>1, <2>1 DEF FetchFits
  <1>9. ReleasesTyped'
    BY LineSame
  <1>10. \A x \in {FinalPath(v), PartPath(v)} : x \in files' => x \in Wanted'
    BY <1>0, <1>1, <1>8, <1>9, WantedFactsNext DEF VersionFits
  <1>11. {v} \in SUBSET VersionRows /\ {} \in SUBSET PathsOf({v})
    OBVIOUS
  <1> QED
    BY <1>0, <1>1, <1>2, <1>3, <1>5, <1>6, <1>7, <1>10, <1>11, VersionKeeps DEF FilesTyped

(* processPending claims the oldest queued row. *)
LEMMA ClaimKeeps ==
  ASSUME StorageInv, UNCHANGED releaseVars, NEW w \in Fetchers, Claim(w)
  PROVE  StorageInv'
  <1>0. FilesTyped /\ VersionsTyped /\ VersionsFit
    BY DEF StorageInv
  <1>1. PICK v \in StatusIs({"queued"}) :
           SetStatus(v, "busy") /\ fetcher' = [fetcher EXCEPT ![w] = [pc |-> "claimed", v |-> v]]
    BY DEF Claim
  <1>2. fetcher[w] = NoFetch /\ policy' = policy /\ UNCHANGED <<files, cleanup, cleaner, forsaken>>
    BY DEF Claim, fileVars
  <1>3. v \in VersionRows /\ version[v].status = "queued" /\ fetcher[w].v = 0
    BY <1>2 DEF StatusIs, NoFetch
  <1>4. VersionFits(v)
    BY <1>0, <1>3 DEF VersionsFit
  <1>5. /\ FetchersOf(v) = {} /\ FinalPath(v) \notin files /\ PartPath(v) \notin files
        /\ FinalPath(v) \notin Doomed /\ PartPath(v) \notin Doomed
    BY <1>3, <1>4 DEF VersionFits, Dead
  <1>6. /\ version' \in [VersionRows -> [status : Statuses, auto : BOOLEAN, source : Sources \union {0}]]
        /\ version'[v].status = "busy" /\ \A u \in VersionRows \ {v} : version'[u] = version[u]
    BY <1>0, <1>1, <1>3, StatusSet DEF Statuses
  <1>7. /\ fetcher' \in [Fetchers -> [pc : FetchSteps, v : VersionRows \union {0}]]
        /\ fetcher'[w].pc = "claimed" /\ fetcher'[w].v = v /\ \A x \in Fetchers \ {w} : fetcher'[x] = fetcher[x]
    BY <1>0, <1>1, <1>3 DEF VersionsTyped, FetchSteps
  <1>8. QueueGrows({}) /\ Doomed' = Doomed
    BY <1>0, <1>2, QueueStays DEF Doomed, QueuedPaths
  <1>9. VersionsTyped'
    BY <1>0, <1>2, <1>6, <1>7 DEF VersionsTyped
  <1>10. VersionFits(v)'
    BY <1>2, <1>5, <1>6, <1>8 DEF VersionFits
  <1>11. policy'.active # 0 => version'[policy'.active].status = "ready"
    BY <1>0, <1>2, <1>3, <1>6 DEF VersionsFit, VersionsTyped
  <1>12. (\A x \in Fetchers \ {w} : fetcher[x].v # v) /\ v # 0
    BY <1>3, <1>5, VersionAssumption DEF FetchersOf, VersionRows
  <1> QED
    BY <1>0, <1>2, <1>3, <1>5, <1>6, <1>7, <1>8, <1>9, <1>10, <1>11, <1>12, DownloadKeeps DEF FilesTyped

(* A step of a running download that touches neither its row nor the       *)
(* queue, only its own files.                                              *)
LEMMA FileStepKeeps ==
  ASSUME StorageInv, UNCHANGED releaseVars, NEW w \in Fetchers, fetcher[w].pc \notin {"idle", "clean", "ready"},
         NEW pc \in {"fetching", "prepared", "failed"}, To(w, pc),
         UNCHANGED <<version, policy, cleanup, cleaner, forsaken>>,
         NEW fs \in SUBSET Paths, files' = fs,
         \A x \in Paths \ {FinalPath(fetcher[w].v), PartPath(fetcher[w].v)} : x \in fs <=> x \in files,
         pc = "prepared" => FinalPath(fetcher[w].v) \in fs /\ PartPath(fetcher[w].v) \notin fs
  PROVE  StorageInv'
  <1>1. PICK v : v = fetcher[w].v
    OBVIOUS
  <1>2. FilesTyped /\ ReleasesTyped /\ VersionsTyped /\ VersionsFit
    BY DEF StorageInv
  <1>3. v \in VersionRows /\ v # 0 /\ FetchersOf(v) = {w} /\ FetchFits(w) /\ VersionFits(v)
    BY <1>1, Running
  <1>4. /\ fetcher' \in [Fetchers -> [pc : FetchSteps, v : VersionRows \union {0}]]
        /\ fetcher'[w].pc = pc /\ fetcher'[w].v = v
        /\ \A x \in Fetchers \ {w} : fetcher'[x] = fetcher[x] /\ fetcher[x].v # v
        /\ FetchersOf(v)' = {w} /\ Working(v)'
    BY <1>1, FetchMoves DEF FetchSteps
  <1>5. version[v].status \in {"busy", "failed", "gone"}
    BY <1>1, <1>2, <1>3 DEF FetchFits, VersionsTyped, FetchSteps
  <1>6. QueueGrows({}) /\ Doomed' = Doomed
    BY <1>2, QueueStays DEF Doomed, QueuedPaths
  <1>7. VersionFits(v)'
    BY <1>3, <1>4, <1>5, <1>6 DEF VersionFits, Dead
  <1>8. VersionsTyped' /\ (policy'.active # 0 => version'[policy'.active].status = "ready")
    BY <1>2, <1>4 DEF VersionsTyped, VersionsFit
  <1>9. ReleasesTyped'
    BY LineSame
  <1>10. \A x \in {FinalPath(v), PartPath(v)} : x \in Wanted'
    BY <1>3, <1>4, <1>9, WantedFactsNext
  <1>11. forsaken' \subseteq Paths /\ forsaken \subseteq forsaken' /\ files' \subseteq Paths
    BY <1>2 DEF FilesTyped
  <1>12. /\ fetcher[w].v \in {v, 0} /\ fetcher'[w].v \in {v, 0} /\ (fetcher'[w].v = 0 <=> fetcher'[w].pc = "idle")
    BY <1>1, <1>3, <1>4
  <1>13. /\ CASE fetcher'[w].pc = "clean" -> version'[v].status \in {"failed", "gone"}
              [] fetcher'[w].pc = "ready" -> version'[v].status \in {"ready", "gone"}
              [] OTHER -> version'[v].status \in {"busy", "failed", "gone"}
         /\ fetcher'[w].pc \in {"prepared", "ready"} => PartPath(v) \notin files'
         /\ fetcher'[w].pc = "prepared" /\ version'[v].status # "gone" => FinalPath(v) \in files'
    BY <1>1, <1>4, <1>5
  <1> QED
    BY <1>1, <1>3, <1>4, <1>6, <1>7, <1>8, <1>10, <1>11, <1>12, <1>13, DownloadKeeps

(* The download is opened, gets its name, or fails. *)
LEMMA PartKeeps ==
  ASSUME StorageInv, UNCHANGED releaseVars, NEW w \in Fetchers, OpenPart(w) \/ RenamePart(w) \/ FetchFails(w)
  PROVE  StorageInv'
  <1>1. PICK v : v = fetcher[w].v
    OBVIOUS
  <1>2. fetcher[w].pc \in {"claimed", "fetching", "fetched", "prepared"}
    BY DEF OpenPart, RenamePart, FetchFails
  <1>3. /\ v \in VersionRows /\ files \subseteq Paths
        /\ FinalPath(v) \in Paths /\ PartPath(v) \in Paths /\ FinalPath(v) # PartPath(v)
    BY <1>1, <1>2, Running, PathKinds, PathsDiffer DEF StorageInv, FilesTyped
  <1>4. CASE OpenPart(w)
    <2>1. /\ To(w, "fetching") /\ files' = files \union {PartPath(v)}
          /\ UNCHANGED <<version, policy, cleanup, cleaner, forsaken>>
      BY <1>1, <1>4 DEF OpenPart
    <2>2. files \union {PartPath(v)} \in SUBSET Paths
      BY <1>3
    <2> QED
      BY <1>1, <1>2, <2>1, <2>2, FileStepKeeps
  <1>5. CASE RenamePart(w)
    <2>1. /\ To(w, "prepared") /\ files' = (files \ {PartPath(v)}) \union {FinalPath(v)}
          /\ UNCHANGED <<version, policy, cleanup, cleaner, forsaken>>
      BY <1>1, <1>5 DEF RenamePart
    <2>2. (files \ {PartPath(v)}) \union {FinalPath(v)} \in SUBSET Paths
      BY <1>3
    <2> QED
      BY <1>1, <1>2, <1>3, <2>1, <2>2, FileStepKeeps
  <1>6. CASE FetchFails(w)
    <2>1. /\ To(w, "failed") /\ files' = files \ {PartPath(v)}
          /\ UNCHANGED <<version, policy, cleanup, cleaner, forsaken>>
      BY <1>1, <1>6 DEF FetchFails
    <2>2. files \ {PartPath(v)} \in SUBSET Paths
      BY <1>3
    <2> QED
      BY <1>1, <1>2, <2>1, <2>2, FileStepKeeps
  <1> QED
    BY <1>4, <1>5, <1>6

(* A running download writes its row, whatever it says by then, unless it  *)
(* is gone.                                                                *)
LEMMA RowStepKeeps ==
  ASSUME StorageInv, UNCHANGED releaseVars, NEW w \in Fetchers, fetcher[w].pc \notin {"idle", "clean", "ready"},
         Row(fetcher[w].v), NEW s \in {"busy", "failed"}, SetStatus(fetcher[w].v, s),
         NEW pc \in {"fetched", "clean"}, To(w, pc), pc = "clean" => s = "failed",
         UNCHANGED policy, UNCHANGED fileVars
  PROVE  StorageInv'
  <1>1. PICK v : v = fetcher[w].v
    OBVIOUS
  <1>2. FilesTyped /\ ReleasesTyped /\ VersionsTyped /\ VersionsFit
    BY DEF StorageInv
  <1>f. UNCHANGED <<files, cleanup, cleaner, forsaken>>
    BY DEF fileVars
  <1>g. version[v].status # "gone"
    BY <1>1 DEF Row
  <1>3. v \in VersionRows /\ v # 0 /\ FetchersOf(v) = {w} /\ FetchFits(w) /\ VersionFits(v)
    BY <1>1, Running
  <1>4. /\ fetcher' \in [Fetchers -> [pc : FetchSteps, v : VersionRows \union {0}]]
        /\ fetcher'[w].pc = pc /\ fetcher'[w].v = v
        /\ \A x \in Fetchers \ {w} : fetcher'[x] = fetcher[x] /\ fetcher[x].v # v
        /\ FetchersOf(v)' = {w} /\ Working(v)'
    BY <1>1, FetchMoves DEF FetchSteps
  <1>5. version[v].status \in {"busy", "failed"}
    BY <1>1, <1>2, <1>3, <1>g DEF FetchFits, VersionsTyped, FetchSteps
  <1>d. FinalPath(v) \notin Doomed /\ PartPath(v) \notin Doomed /\ policy.active # v
    BY <1>1, <1>5, <1>g, Running
  <1>6. QueueGrows({}) /\ Doomed' = Doomed
    BY <1>f, <1>2, QueueStays DEF Doomed, QueuedPaths
  <1>s. /\ version' \in [VersionRows -> [status : Statuses, auto : BOOLEAN, source : Sources \union {0}]]
        /\ version'[v].status = s /\ \A u \in VersionRows \ {v} : version'[u] = version[u]
    BY <1>1, <1>2, <1>3, StatusSet DEF Statuses
  <1>7. VersionFits(v)'
    BY <1>4, <1>6, <1>d, <1>s DEF VersionFits
  <1>8. VersionsTyped' /\ (policy'.active # 0 => version'[policy'.active].status = "ready")
    BY <1>2, <1>4, <1>d, <1>s DEF VersionsTyped, VersionsFit
  <1>9. ReleasesTyped'
    BY LineSame
  <1>10. \A x \in {FinalPath(v), PartPath(v)} : x \in Wanted'
    BY <1>3, <1>4, <1>9, WantedFactsNext
  <1>11. forsaken' \subseteq Paths /\ forsaken \subseteq forsaken' /\ files' \subseteq Paths
    BY <1>2, <1>f DEF FilesTyped
  <1>12. fetcher[w].v \in {v, 0} /\ fetcher'[w].v \in {v, 0} /\ (fetcher'[w].v = 0 <=> fetcher'[w].pc = "idle")
    BY <1>1, <1>3, <1>4
  <1>13. /\ CASE fetcher'[w].pc = "clean" -> version'[v].status \in {"failed", "gone"}
              [] fetcher'[w].pc = "ready" -> version'[v].status \in {"ready", "gone"}
              [] OTHER -> version'[v].status \in {"busy", "failed", "gone"}
         /\ fetcher'[w].pc \notin {"prepared", "ready"}
    BY <1>4, <1>s
  <1> QED
    BY <1>f, <1>3, <1>4, <1>6, <1>7, <1>8, <1>10, <1>11, <1>12, <1>13, <1>s, DownloadKeeps

(* The download reports its progress, or its failure. *)
LEMMA ReportKeeps ==
  ASSUME StorageInv, UNCHANGED releaseVars, NEW w \in Fetchers, Progress(w) \/ RecordFailure(w)
  PROVE  StorageInv'
  <1>1. CASE Progress(w)
    <2>1. /\ fetcher[w].pc = "fetching" /\ Row(fetcher[w].v) /\ SetStatus(fetcher[w].v, "busy") /\ To(w, "fetched")
          /\ UNCHANGED policy /\ UNCHANGED fileVars
      BY <1>1 DEF Progress
    <2> QED
      BY <2>1, RowStepKeeps
  <1>2. CASE RecordFailure(w)
    <2>1. /\ fetcher[w].pc = "failed" /\ Row(fetcher[w].v) /\ SetStatus(fetcher[w].v, "failed") /\ To(w, "clean")
          /\ UNCHANGED policy /\ UNCHANGED fileVars
      BY <1>2 DEF RecordFailure
    <2> QED
      BY <2>1, RowStepKeeps
  <1> QED
    BY <1>1, <1>2

(* The content is what clients have already: the file is queued. *)
LEMMA FoundUnchangedKeeps ==
  ASSUME StorageInv, UNCHANGED releaseVars, NEW w \in Fetchers, FoundUnchanged(w)
  PROVE  StorageInv'
  <1>1. PICK v : v = fetcher[w].v
    OBVIOUS
  <1>2. FilesTyped /\ ReleasesTyped /\ VersionsTyped /\ VersionsFit
    BY DEF StorageInv
  <1>f. /\ fetcher[w].pc = "prepared" /\ Row(v) /\ SetStatus(v, "unchanged") /\ Enqueue({FinalPath(v)}, FALSE)
        /\ Stop(w) /\ UNCHANGED <<policy, files, forsaken>>
    BY <1>1 DEF FoundUnchanged
  <1>3. v \in VersionRows /\ v # 0 /\ FetchFits(w)
    BY <1>1, <1>f, Running
  <1>4. /\ fetcher' \in [Fetchers -> [pc : FetchSteps, v : VersionRows \union {0}]]
        /\ fetcher'[w].pc = "idle" /\ fetcher'[w].v = 0
        /\ \A x \in Fetchers \ {w} : fetcher'[x] = fetcher[x] /\ fetcher[x].v # v
    BY <1>1, <1>f, FetchStops
  <1>o. FetchersOf(v)' = {}
    BY <1>3, <1>4 DEF FetchersOf
  <1>5. version[v].status \in {"busy", "failed", "gone"} /\ PartPath(v) \notin files
    BY <1>1, <1>3, <1>f DEF FetchFits
  <1>d. policy.active # v
    BY <1>1, <1>5, <1>f, Running
  <1>q. {FinalPath(v)} \in SUBSET Paths
    BY <1>3, PathKinds
  <1>6. QueueGrows({FinalPath(v)})
    BY <1>2, <1>f, <1>q, EnqueueGrows
  <1>s. /\ version' \in [VersionRows -> [status : Statuses, auto : BOOLEAN, source : Sources \union {0}]]
        /\ version'[v].status = "unchanged" /\ \A u \in VersionRows \ {v} : version'[u] = version[u]
    BY <1>f, <1>2, <1>3, StatusSet DEF Statuses
  <1>7. VersionFits(v)'
    BY <1>o, <1>s DEF VersionFits, Dead
  <1>8. VersionsTyped' /\ (policy'.active # 0 => version'[policy'.active].status = "ready")
    BY <1>2, <1>4, <1>d, <1>f, <1>s DEF VersionsTyped, VersionsFit
  <1>10. \A x \in {FinalPath(v), PartPath(v)} : x \in files' => x \in {FinalPath(v)}
    BY <1>5, <1>f
  <1>11. forsaken' \subseteq Paths /\ forsaken \subseteq forsaken' /\ files' \subseteq Paths
    BY <1>2, <1>f DEF FilesTyped
  <1>12. fetcher[w].v \in {v, 0} /\ fetcher'[w].v \in {v, 0} /\ (fetcher'[w].v = 0 <=> fetcher'[w].pc = "idle")
    BY <1>1, <1>4
  <1> QED
    BY <1>f, <1>3, <1>4, <1>6, <1>7, <1>8, <1>10, <1>11, <1>12, <1>s, DownloadKeeps

(* The version is ready, and its file is there. *)
LEMMA FoundReadyKeeps ==
  ASSUME StorageInv, UNCHANGED releaseVars, NEW w \in Fetchers, FoundReady(w)
  PROVE  StorageInv'
  <1>1. PICK v : v = fetcher[w].v
    OBVIOUS
  <1>2. FilesTyped /\ ReleasesTyped /\ VersionsTyped /\ VersionsFit
    BY DEF StorageInv
  <1>f. /\ fetcher[w].pc = "prepared" /\ Row(v) /\ SetStatus(v, "ready") /\ (To(w, "ready") \/ Stop(w))
        /\ UNCHANGED <<policy, files, forsaken, cleanup, cleaner>>
    BY <1>1 DEF FoundReady, fileVars
  <1>3. v \in VersionRows /\ v # 0 /\ FetchFits(w) /\ VersionFits(v)
    BY <1>1, <1>f, Running
  <1>4. /\ fetcher' \in [Fetchers -> [pc : FetchSteps, v : VersionRows \union {0}]]
        /\ \A x \in Fetchers \ {w} : fetcher'[x] = fetcher[x] /\ fetcher[x].v # v
        /\ \/ fetcher'[w].pc = "idle" /\ fetcher'[w].v = 0
           \/ fetcher'[w].pc = "ready" /\ fetcher'[w].v = v
    BY <1>1, <1>f, FetchStops, FetchMoves DEF FetchSteps
  <1>5. /\ version[v].status \in {"busy", "failed"} /\ PartPath(v) \notin files /\ FinalPath(v) \in files
    BY <1>1, <1>3, <1>f DEF FetchFits, Row
  <1>d. policy.active # v /\ FinalPath(v) \notin Doomed /\ PartPath(v) \notin Doomed
    BY <1>1, <1>5, <1>f, Running
  <1>6. QueueGrows({}) /\ Doomed' = Doomed
    BY <1>f, <1>2, QueueStays DEF Doomed, QueuedPaths
  <1>s. /\ version' \in [VersionRows -> [status : Statuses, auto : BOOLEAN, source : Sources \union {0}]]
        /\ version'[v].status = "ready" /\ \A u \in VersionRows \ {v} : version'[u] = version[u]
    BY <1>f, <1>2, <1>3, StatusSet DEF Statuses
  <1>7. VersionFits(v)'
    BY <1>5, <1>6, <1>d, <1>f, <1>s DEF VersionFits
  <1>8. VersionsTyped' /\ (policy'.active # 0 => version'[policy'.active].status = "ready")
    BY <1>2, <1>4, <1>d, <1>f, <1>s DEF VersionsTyped, VersionsFit
  <1>9. ReleasesTyped'
    BY LineSame
  <1>10. \A x \in {FinalPath(v), PartPath(v)} : x \in files' => x \in Wanted'
    BY <1>3, <1>5, <1>9, <1>f, <1>s, WantedFactsNext
  <1>11. forsaken' \subseteq Paths /\ forsaken \subseteq forsaken' /\ files' \subseteq Paths
    BY <1>2, <1>f DEF FilesTyped
  <1>12. fetcher[w].v \in {v, 0} /\ fetcher'[w].v \in {v, 0} /\ (fetcher'[w].v = 0 <=> fetcher'[w].pc = "idle")
    BY <1>1, <1>3, <1>4
  <1>13. fetcher'[w].v = v =>
            /\ CASE fetcher'[w].pc = "clean" -> version'[v].status \in {"failed", "gone"}
                 [] fetcher'[w].pc = "ready" -> version'[v].status \in {"ready", "gone"}
                 [] OTHER -> version'[v].status \in {"busy", "failed", "gone"}
            /\ fetcher'[w].pc \in {"prepared", "ready"} => PartPath(v) \notin files'
            /\ fetcher'[w].pc = "prepared" /\ version'[v].status # "gone" => FinalPath(v) \in files'
    BY <1>3, <1>4, <1>5, <1>f, <1>s
  <1> QED
    BY <1>f, <1>3, <1>4, <1>6, <1>7, <1>8, <1>10, <1>11, <1>12, <1>13, <1>s, DownloadKeeps

(* A download ends and leaves its row as it is: ready, failed or gone.     *)
LEMMA EndKeeps ==
  ASSUME StorageInv, UNCHANGED releaseVars, NEW w \in Fetchers, fetcher[w].pc # "idle", Stop(w), UNCHANGED version,
         NEW v, v = fetcher[w].v, version[v].status \in {"ready", "failed", "gone"},
         NEW ps \in SUBSET {FinalPath(v), PartPath(v)}, QueueGrows(ps),
         files' \subseteq files, files \ files' \subseteq {FinalPath(v), PartPath(v)},
         version[v].status = "ready" => files' = files /\ ps = {},
         forsaken \subseteq forsaken', forsaken' \subseteq Paths,
         policy' \in [component : BOOLEAN, source : Sources \union {0}, auto : BOOLEAN, active : VersionRows \union {0}],
         policy'.active # 0 => version[policy'.active].status = "ready",
         version[v].status # "ready" => \A x \in {FinalPath(v), PartPath(v)} \cap files' :
            x \in forsaken' \/ x \in ps \/ x \notin Wanted
  PROVE  StorageInv'
  <1>2. FilesTyped /\ ReleasesTyped /\ VersionsTyped /\ VersionsFit
    BY DEF StorageInv
  <1>3. v \in VersionRows /\ v # 0 /\ FetchFits(w) /\ VersionFits(v) /\ FetchersOf(v) = {w}
    BY Running
  <1>4. /\ fetcher' \in [Fetchers -> [pc : FetchSteps, v : VersionRows \union {0}]]
        /\ fetcher'[w].pc = "idle" /\ fetcher'[w].v = 0
        /\ \A x \in Fetchers \ {w} : fetcher'[x] = fetcher[x] /\ fetcher[x].v # v
    BY FetchStops
  <1>o. FetchersOf(v)' = {}
    BY <1>3, <1>4 DEF FetchersOf
  <1>7. VersionFits(v)'
    <2>1. CASE version[v].status = "ready"
      BY <1>3, <2>1 DEF VersionFits, Dead, QueueGrows
    <2>2. CASE version[v].status \in {"failed", "gone"}
      BY <1>o, <2>2 DEF VersionFits, Dead
    <2> QED
      BY <2>1, <2>2
  <1>8. VersionsTyped' /\ (policy'.active # 0 => version'[policy'.active].status = "ready")
    BY <1>2, <1>4 DEF VersionsTyped
  <1>9. ReleasesTyped'
    BY LineSame
  <1>10. \A x \in {FinalPath(v), PartPath(v)} : x \in files' => x \in Wanted' \/ (x \in files /\ x \notin Wanted) \/ x \in ps
    <2>1. CASE version[v].status = "ready"
      BY <1>3, <1>9, <2>1, WantedFactsNext DEF VersionFits
    <2>2. CASE version[v].status # "ready"
      BY <1>3, <1>9, <2>2, WantedFactsNext
    <2> QED
      BY <2>1, <2>2
  <1>11. files' \subseteq Paths
    BY <1>2 DEF FilesTyped
  <1>12. /\ fetcher[w].v \in {v, 0} /\ fetcher'[w].v \in {v, 0} /\ (fetcher'[w].v = 0 <=> fetcher'[w].pc = "idle")
         /\ \A x \in Paths \ {FinalPath(v), PartPath(v)} : x \in files' <=> x \in files
    BY <1>4
  <1> QED
    BY <1>3, <1>4, <1>7, <1>8, <1>10, <1>11, <1>12, DownloadKeeps

(* The row was deleted under the download. *)
LEMMA RowGoneKeeps ==
  ASSUME StorageInv, UNCHANGED releaseVars, NEW w \in Fetchers, RowGone(w)
  PROVE  StorageInv'
  <1>1. PICK v : v = fetcher[w].v
    OBVIOUS
  <1>2. FilesTyped /\ VersionsTyped /\ VersionsFit
    BY DEF StorageInv
  <1>f. /\ fetcher[w].pc \in {"prepared", "failed"} /\ ~Row(v) /\ Stop(w)
        /\ forsaken' = forsaken \union ({FinalPath(v), PartPath(v)} \cap files)
        /\ UNCHANGED <<version, policy, files, cleanup, cleaner>>
    BY <1>1, PathsOfOne DEF RowGone
  <1>3. v \in VersionRows /\ v # 0 /\ FetchFits(w)
    BY <1>1, <1>f, Running
  <1>4. version[v].status = "gone"
    BY <1>1, <1>3, <1>f DEF FetchFits, Row
  <1>5. QueueGrows({})
    BY <1>2, <1>f, QueueStays
  <1>6. forsaken \subseteq forsaken' /\ forsaken' \subseteq Paths
    BY <1>2, <1>f DEF FilesTyped
  <1>7. policy' \in [component : BOOLEAN, source : Sources \union {0}, auto : BOOLEAN, active : VersionRows \union {0}]
    BY <1>2, <1>f, PolicySet
  <1>8. policy'.active # 0 => version[policy'.active].status = "ready"
    BY <1>2, <1>f DEF VersionsFit
  <1>9. {} \in SUBSET {FinalPath(v), PartPath(v)}
    OBVIOUS
  <1> QED
    BY <1>1, <1>4, <1>5, <1>6, <1>7, <1>8, <1>9, <1>f, EndKeeps

(* Only a row in progress or ready refers to a version's path. *)
LEMMA VersionReferences ==
  ASSUME ReleasesTyped, NEW v \in VersionRows, NEW x \in {FinalPath(v), PartPath(v)}, x \in References
  PROVE  version[v].status \in {"queued", "busy", "ready"}
  <1>1. x \notin ArtifactPaths
    BY PackagePaths, PathKinds
  <1> QED
    BY <1>1, PathsDiffer DEF References, VersionPaths, StatusIs, InProgress

(* A failed download removes what it left, asking who refers to it.        *)
LEMMA CleanFailedKeeps ==
  ASSUME StorageInv, UNCHANGED releaseVars, NEW w \in Fetchers, CleanFailed(w, References)
  PROVE  StorageInv'
  <1>1. PICK v : v = fetcher[w].v
    OBVIOUS
  <1>2. FilesTyped /\ ReleasesTyped /\ VersionsTyped /\ VersionsFit
    BY DEF StorageInv
  <1>f. /\ fetcher[w].pc = "clean" /\ Stop(w) /\ RemoveOrQueue({FinalPath(v), PartPath(v)}, References)
        /\ UNCHANGED <<version, policy>>
    BY <1>1, PathsOfOne DEF CleanFailed
  <1>3. v \in VersionRows /\ v # 0 /\ FetchFits(w)
    BY <1>1, <1>f, Running
  <1>4. version[v].status \in {"failed", "gone"}
    BY <1>1, <1>3, <1>f DEF FetchFits
  <1>q. {FinalPath(v), PartPath(v)} \in SUBSET Paths
    BY <1>3, PathKinds
  <1>5. PICK qs \in SUBSET ({FinalPath(v), PartPath(v)} \cap files) :
           /\ QueueGrows(qs) /\ files' \subseteq files /\ files \ files' \subseteq {FinalPath(v), PartPath(v)} \ References
           /\ forsaken \subseteq forsaken' /\ forsaken' \subseteq Paths
           /\ \A x \in {FinalPath(v), PartPath(v)} \cap files' : x \in References \/ x \in forsaken' \/ x \in qs
    <2>1. PICK both : both = {FinalPath(v), PartPath(v)}
      OBVIOUS
    <2>2. PICK refs : refs = References
      OBVIOUS
    <2>3. both \in SUBSET Paths /\ RemoveOrQueue(both, refs)
      BY <1>f, <1>q, <2>1, <2>2 DEF RemoveOrQueue
    <2>4. \E qs \in SUBSET (both \cap files) :
             /\ QueueGrows(qs) /\ files' \subseteq files /\ files \ files' \subseteq both \ refs
             /\ forsaken \subseteq forsaken' /\ forsaken' \subseteq Paths
             /\ \A x \in both \cap files' : x \in refs \/ x \in forsaken' \/ x \in qs
      BY <1>2, <2>3, RemoveFacts
    <2> QED
      BY <2>1, <2>2, <2>4
  <1>6. \A x \in {FinalPath(v), PartPath(v)} : x \notin References
    BY <1>2, <1>3, <1>4, VersionReferences
  <1>7. policy' \in [component : BOOLEAN, source : Sources \union {0}, auto : BOOLEAN, active : VersionRows \union {0}]
    BY <1>2, <1>f, PolicySet
  <1>8. policy'.active # 0 => version[policy'.active].status = "ready"
    BY <1>2, <1>f DEF VersionsFit
  <1>9. /\ qs \in SUBSET {FinalPath(v), PartPath(v)} /\ files \ files' \subseteq {FinalPath(v), PartPath(v)}
        /\ \A x \in {FinalPath(v), PartPath(v)} \cap files' : x \in forsaken' \/ x \in qs
    BY <1>5, <1>6
  <1> QED
    BY <1>1, <1>4, <1>5, <1>7, <1>8, <1>9, <1>f, EndKeeps

(* A version that is ready is served. *)
LEMMA ServeFacts ==
  ASSUME VersionsTyped, NEW v \in VersionRows, Serve(v)
  PROVE  /\ policy' \in [component : BOOLEAN, source : Sources \union {0}, auto : BOOLEAN, active : VersionRows \union {0}]
         /\ policy'.active = v
  BY PolicySet DEF Serve

(* activate, by an administrator. *)
LEMMA ActivateKeeps ==
  ASSUME StorageInv, UNCHANGED releaseVars, NEW v \in VersionRows, Activate(v)
  PROVE  StorageInv'
  <1>0. VersionsTyped
    BY DEF StorageInv
  <1>1. version[v].status = "ready" /\ Serve(v) /\ UNCHANGED <<version, fetcher>> /\ UNCHANGED fileVars
    BY DEF Activate, Ready
  <1>2. /\ policy' \in [component : BOOLEAN, source : Sources \union {0}, auto : BOOLEAN, active : VersionRows \union {0}]
        /\ policy'.active = v
    BY <1>0, <1>1, ServeFacts
  <1> QED
    BY <1>0, <1>1, <1>2, PolicyKeeps DEF VersionsTyped

(* activate, at the end of a download. *)
LEMMA AutoActivateKeeps ==
  ASSUME StorageInv, UNCHANGED releaseVars, NEW w \in Fetchers, AutoActivate(w)
  PROVE  StorageInv'
  <1>1. PICK v : v = fetcher[w].v
    OBVIOUS
  <1>2. FilesTyped /\ ReleasesTyped /\ VersionsTyped /\ VersionsFit
    BY DEF StorageInv
  <1>f. /\ fetcher[w].pc = "ready" /\ Stop(w) /\ UNCHANGED <<version, files, cleanup, cleaner, forsaken>>
        /\ \/ version[v].status = "ready" /\ Serve(v)
           \/ policy' = policy
    BY <1>1 DEF AutoActivate, Ready, fileVars
  <1>3. v \in VersionRows /\ v # 0 /\ FetchFits(w) /\ FetchersOf(v) = {w}
    BY <1>1, <1>f, Running
  <1>4. version[v].status \in {"ready", "gone"}
    BY <1>1, <1>3, <1>f DEF FetchFits
  <1>5. QueueGrows({}) /\ forsaken \subseteq forsaken' /\ forsaken' \subseteq Paths
    BY <1>2, <1>f, QueueStays DEF FilesTyped
  <1>6. /\ policy' \in [component : BOOLEAN, source : Sources \union {0}, auto : BOOLEAN, active : VersionRows \union {0}]
        /\ policy'.active # 0 => version[policy'.active].status = "ready"
    BY <1>2, <1>3, <1>f, PolicySet, ServeFacts DEF VersionsFit
  <1>7. ~Working(v)
    BY <1>3, <1>f DEF Working, FetchersOf
  <1>8. version[v].status # "ready" => \A x \in {FinalPath(v), PartPath(v)} \cap files' :
            x \in forsaken' \/ x \notin Wanted
    BY <1>2, <1>3, <1>4, <1>7, <1>f, WantedFacts
  <1>9. {} \in SUBSET {FinalPath(v), PartPath(v)}
    OBVIOUS
  <1> QED
    BY <1>1, <1>4, <1>5, <1>6, <1>8, <1>9, <1>f, EndKeeps

(* Rows are deleted, a running download's too: their paths are queued. *)
LEMMA DropRowsKeeps ==
  ASSUME StorageInv, UNCHANGED releaseVars, NEW vs \in SUBSET VersionRows, DropRows(vs),
         policy' \in [component : BOOLEAN, source : Sources \union {0}, auto : BOOLEAN, active : VersionRows \union {0}],
         policy'.active # 0 => policy'.active = policy.active /\ policy.active \notin vs
  PROVE  StorageInv'
  <1>2. FilesTyped /\ VersionsTyped /\ VersionsFit
    BY DEF StorageInv
  <1>f. /\ version' = [v \in VersionRows |-> IF v \in vs THEN [version[v] EXCEPT !.status = "gone"] ELSE version[v]]
        /\ Enqueue(PathsOf(vs), FALSE) /\ UNCHANGED <<fetcher, files, forsaken>>
    BY DEF DropRows
  <1>q. PathsOf(vs) \in SUBSET Paths
    BY PathKinds DEF PathsOf
  <1>3. QueueGrows(PathsOf(vs))
    BY <1>2, <1>f, <1>q, EnqueueGrows
  <1>4. /\ \A v \in vs : version'[v].status = "gone"
        /\ \A u \in VersionRows \ vs : version'[u] = version[u]
        /\ version' \in [VersionRows -> [status : Statuses, auto : BOOLEAN, source : Sources \union {0}]]
    BY <1>2, <1>f DEF VersionsTyped, Statuses
  <1>5. VersionsTyped'
    BY <1>2, <1>4, <1>f DEF VersionsTyped
  <1>6. \A v \in vs : VersionFits(v)'
    BY <1>4 DEF VersionFits, Dead
  <1>7. \A w \in Fetchers : fetcher'[w].v \in vs \union {0} => FetchFits(w)'
    <2> SUFFICES ASSUME NEW w \in Fetchers, fetcher[w].v \in vs \union {0} PROVE FetchFits(w)'
      BY <1>f
    <2>1. FetchFits(w)
      BY <1>2 DEF VersionsFit
    <2>2. CASE fetcher[w].v = 0
      BY <1>f, <2>1, <2>2 DEF FetchFits
    <2>3. CASE fetcher[w].v # 0
      <3>1. version'[fetcher[w].v].status = "gone"
        BY <1>4, <2>3
      <3> QED
        BY <1>f, <2>1, <3>1 DEF FetchFits
    <2> QED
      BY <2>2, <2>3
  <1>8. policy'.active # 0 => version'[policy'.active].status = "ready"
    BY <1>2, <1>4 DEF VersionsFit, VersionsTyped
  <1>9. \A v \in vs : \A x \in {FinalPath(v), PartPath(v)} : x \in PathsOf(vs)
    BY DEF PathsOf
  <1>10. PathsOf(vs) \in SUBSET PathsOf(vs)
    OBVIOUS
  <1> QED
    BY <1>2, <1>3, <1>4, <1>5, <1>6, <1>7, <1>8, <1>9, <1>10, <1>f, VersionKeeps DEF FilesTyped

(* deleteVersion, pruneVersions and deleteAdminRuntimeComponent. *)
LEMMA DeleteKeeps ==
  ASSUME StorageInv, UNCHANGED releaseVars,
         (\E v \in VersionRows : DeleteVersion(v)) \/ PruneVersions \/ DeleteComponent
  PROVE  StorageInv'
  <1>0. policy \in [component : BOOLEAN, source : Sources \union {0}, auto : BOOLEAN, active : VersionRows \union {0}]
    BY PolicySet DEF StorageInv
  <1>1. CASE \E v \in VersionRows : DeleteVersion(v)
    <2>1. PICK v \in VersionRows : DeleteVersion(v)
      BY <1>1
    <2>2. v # policy.active /\ DropRows({v}) /\ policy' = policy
      BY <2>1 DEF DeleteVersion
    <2>3. {v} \in SUBSET VersionRows
      OBVIOUS
    <2> QED
      BY <1>0, <2>2, <2>3, DropRowsKeeps
  <1>2. CASE PruneVersions
    <2> DEFINE kept == {policy.active} \union (IF policy.auto THEN PreviousServed ELSE NewestRows)
    <2>1. PICK vs \in SUBSET (StatusIs({"ready", "failed", "unchanged"}) \ kept) : DropRows(vs)
      BY <1>2 DEF PruneVersions
    <2>2. policy' = policy
      BY <1>2 DEF PruneVersions
    <2>3. vs \in SUBSET VersionRows /\ policy.active \notin vs
      BY DEF StatusIs
    <2> QED
      BY <1>0, <2>1, <2>2, <2>3, DropRowsKeeps
  <1>3. CASE DeleteComponent
    <2>1. /\ DropRows({v \in VersionRows : Row(v)})
          /\ policy' = [policy EXCEPT !.component = FALSE, !.source = 0, !.active = 0]
      BY <1>3 DEF DeleteComponent
    <2>2. PICK q : q = [policy EXCEPT !.component = FALSE]
      OBVIOUS
    <2>3. PICK s : s = [q EXCEPT !.source = 0]
      OBVIOUS
    <2>4. q \in [component : BOOLEAN, source : Sources \union {0}, auto : BOOLEAN, active : VersionRows \union {0}]
      BY <1>0, <2>2
    <2>5. s \in [component : BOOLEAN, source : Sources \union {0}, auto : BOOLEAN, active : VersionRows \union {0}]
      BY <2>3, <2>4
    <2>6. policy' = [s EXCEPT !.active = 0]
      BY <2>1, <2>2, <2>3
    <2>7. /\ policy' \in [component : BOOLEAN, source : Sources \union {0}, auto : BOOLEAN, active : VersionRows \union {0}]
          /\ policy'.active = 0
      BY <2>5, <2>6
    <2>8. {v \in VersionRows : Row(v)} \in SUBSET VersionRows
      OBVIOUS
    <2> QED
      BY <2>1, <2>7, <2>8, DropRowsKeeps
  <1> QED
    BY <1>1, <1>2, <1>3

(* Every operation on the versions. *)
LEMMA VersionStepKeeps ==
  ASSUME StorageInv, VersionStep
  PROVE  StorageInv'
  <1>1. VersionNext(References) /\ UNCHANGED releaseVars
    BY DEF VersionStep
  <1>2. CASE \E s \in Sources, auto \in BOOLEAN : Acquire(s, auto)
    BY <1>1, <1>2, AcquireKeeps, Zenon
  <1>3. CASE \E on \in BOOLEAN : SetAutoLatest(on)
    BY <1>1, <1>3, SetAutoLatestKeeps, Zenon
  <1>4. CASE ScheduleLatest
    BY <1>1, <1>4, ScheduleLatestKeeps, Zenon
  <1>5. CASE (\E v \in VersionRows : DeleteVersion(v)) \/ PruneVersions \/ DeleteComponent
    BY <1>1, <1>5, DeleteKeeps, Zenon
  <1>6. CASE \E v \in VersionRows : FailStale(v) \/ Activate(v)
    BY <1>1, <1>6, FailStaleKeeps, ActivateKeeps, Zenon
  <1>7. CASE \E w \in Fetchers : Claim(w) \/ OpenPart(w) \/ RenamePart(w) \/ FetchFails(w)
    BY <1>1, <1>7, ClaimKeeps, PartKeeps, Zenon
  <1>8. CASE \E w \in Fetchers : Progress(w) \/ RecordFailure(w) \/ FoundUnchanged(w) \/ FoundReady(w)
    BY <1>1, <1>8, ReportKeeps, FoundUnchangedKeeps, FoundReadyKeeps, Zenon
  <1>9. CASE \E w \in Fetchers : RowGone(w) \/ CleanFailed(w, References) \/ AutoActivate(w)
    BY <1>1, <1>9, RowGoneKeeps, CleanFailedKeeps, AutoActivateKeeps, Zenon
  <1> QED
    BY <1>1, <1>2, <1>3, <1>4, <1>5, <1>6, <1>7, <1>8, <1>9, Zenon DEF VersionNext

-----------------------------------------------------------------------------
(* Cleanup, crashes, and the theorems.                                     *)

(* A step of the cleanup: rows and downloads are left alone, no path but   *)
(* the ones in ps becomes known to it, and it removes a file only when it  *)
(* has seen it unreferenced.                                               *)
LEMMA CleanupKeeps ==
  ASSUME StorageInv, UNCHANGED <<releaseVars, versionVars, forsaken>>,
         cleanup' \subseteq [path : Paths, scan : BOOLEAN], cleaner' \in [Cleaners -> CleanerStates],
         files' \subseteq files,
         \A x \in files \ files' : \E c \in Cleaners : cleaner[c].pc = "unlink" /\ cleaner[c].path = x,
         \A x \in Doomed' : x \in Doomed \/ (x \in files /\ x \notin References \union Young) \/ x = NoPath,
         \A c \in Cleaners : cleaner'[c].pc = "unlink" =>
            \/ cleaner[c].pc = "unlink" /\ cleaner'[c].path = cleaner[c].path
            \/ cleaner'[c].path \notin References,
         Queued'
  PROVE  StorageInv'
  <1>0. FilesTyped /\ ReleasesTyped /\ VersionsTyped /\ VersionsFit /\ PackagesFit
    BY DEF StorageInv
  <1>1. UNCHANGED <<artifact, admin, uploads, version, fetcher, policy>> /\ UNCHANGED releaseVars
    BY DEF releaseVars, versionVars
  <1>2. FilesTyped'
    BY <1>0 DEF FilesTyped
  <1>3. ReleasesTyped' /\ LineHeld'
    BY <1>1, LineSame
  <1>4. \A c \in Cleaners : cleaner[c].path \in Doomed
    BY DEF Doomed
  <1>5. PackagesFit'
    <2>1. StoredUploads \subseteq ReceivedPaths /\ ArtifactPaths \subseteq References
      BY <1>0, PackagePaths DEF References
    <2>2. \A x \in Packages : x # NoPath
      BY PathKinds
    <2>3. \A x \in Packages : x \in files /\ x \notin files' => x \notin ArtifactPaths /\ x \notin StoredUploads
      BY <1>0, <1>4 DEF PackagesFit
    <2>4. \A x \in Packages : x \in Doomed' => x \in Doomed \/ (x \in files /\ x \notin StoredUploads)
      BY <2>1, <2>2 DEF Young
    <2>5. \A c \in Cleaners : cleaner'[c].pc = "unlink" =>
            \/ cleaner[c].pc = "unlink" /\ cleaner'[c].path = cleaner[c].path
            \/ cleaner'[c].path \notin ArtifactPaths
      BY <2>1
    <2>6. \A x \in Packages : x \in files' => x \in files
      OBVIOUS
    <2> QED
      BY <1>1, <2>3, <2>4, <2>5, <2>6, PackagesSame
  <1>6. ASSUME NEW v \in VersionRows, NEW x \in {FinalPath(v), PartPath(v)}
        PROVE  /\ x \in files /\ x \notin files' => Dead(v)
               /\ x \in Doomed' => x \in Doomed \/ Dead(v)
    <2>0. VersionFits(v) /\ x # NoPath
      BY <1>0, PathKinds DEF VersionsFit
    <2>1. x \in Doomed => Dead(v)
      BY <2>0 DEF VersionFits
    <2>2. ASSUME x \in files, x \notin References \union Young PROVE Dead(v)
      <3>1. \A w \in Fetchers : fetcher[w].v # v
        BY <2>2 DEF Young, FetchedPaths, PathsOf
      <3>2. FetchersOf(v) = {}
        BY <3>1 DEF FetchersOf
      <3>3. CASE version[v].status \in {"failed", "unchanged", "gone"}
        BY <3>2, <3>3 DEF Dead
      <3>4. CASE version[v].status \in {"none", "queued"}
        BY <2>0, <2>2, <3>4 DEF VersionFits
      <3>5. CASE version[v].status \in {"busy", "ready"}
        <4>1. /\ FinalPath(v) \in VersionPaths
              /\ version[v].status = "busy" => PartPath(v) \in VersionPaths
          BY <3>5 DEF VersionPaths, StatusIs, InProgress
        <4>2. version[v].status = "ready" => PartPath(v) \notin files
          BY <2>0 DEF VersionFits
        <4> QED
          BY <2>2, <3>5, <4>1, <4>2 DEF References
      <3>6. version[v].status \in Statuses
        BY <1>0 DEF VersionsTyped
      <3> QED
        BY <3>3, <3>4, <3>5, <3>6 DEF Statuses
    <2> QED
      BY <1>4, <2>0, <2>1, <2>2
  <1>7. VersionsTyped' /\ VersionsFit'
    BY <1>1, <1>6, VersionsSame
  <1> QED
    BY <1>2, <1>3, <1>5, <1>7 DEF StorageInv

(* Rows and downloads answer for the same files. *)
LEMMA WantedSame ==
  ASSUME UNCHANGED <<releaseVars, versionVars, forsaken>>
  PROVE  Wanted' = Wanted
  <1>1. UNCHANGED <<artifact, admin, version, fetcher>>
    BY DEF releaseVars, versionVars
  <1> QED
    BY <1>1 DEF Wanted, References, Growing, ArtifactPaths, StoredPaths, VersionPaths, StatusIs, InProgress,
       ReceivedPaths

(* recoverOrphans. *)
LEMMA RecoverOrphansKeeps ==
  ASSUME StorageInv, UNCHANGED <<releaseVars, versionVars>>, RecoverOrphans(References, Young)
  PROVE  StorageInv'
  <1> DEFINE stray == files \ (References \union Young)
  <1>0. FilesTyped
    BY DEF StorageInv
  <1>1. Enqueue(stray, TRUE) /\ UNCHANGED <<files, forsaken>>
    BY DEF RecoverOrphans
  <1>2. stray \in SUBSET Paths /\ \A x \in stray : x \in files /\ x \notin References \union Young
    BY <1>0 DEF FilesTyped
  <1> HIDE DEF stray
  <1>3. QueueGrows(stray)
    BY <1>0, <1>1, <1>2, EnqueueGrows
  <1>4. Wanted' = Wanted
    BY <1>1, WantedSame
  <1>5. Queued'
    BY <1>1, <1>3, <1>4, QueuedKept
  <1> QED
    BY <1>1, <1>2, <1>3, <1>5, CleanupKeeps DEF QueueGrows

(* A cleaner moves. *)
LEMMA CleanerMoves ==
  ASSUME FilesTyped, NEW c \in Cleaners, NEW s \in CleanerStates, cleaner' = [cleaner EXCEPT ![c] = s]
  PROVE  cleaner' \in [Cleaners -> CleanerStates] /\ cleaner'[c] = s /\ \A d \in Cleaners \ {c} : cleaner'[d] = cleaner[d]
  BY DEF FilesTyped

(* A step of one cleaner, to a path it knew or one that is queued. *)
LEMMA CleanerKeeps ==
  ASSUME StorageInv, UNCHANGED <<releaseVars, versionVars, forsaken>>, NEW c \in Cleaners, NEW s \in CleanerStates,
         cleaner' = [cleaner EXCEPT ![c] = s], cleanup' \subseteq cleanup,
         s.path \in Doomed \/ s.path = NoPath, files' \subseteq files,
         \A x \in files \ files' : cleaner[c].pc = "unlink" /\ cleaner[c].path = x,
         s.pc = "unlink" => s.path \notin References,
         s.pc = "done" /\ s.current => s.path \notin files' \/ s.path \in Wanted,
         \A x \in QueuedPaths \ QueuedPaths' : x \notin files' \ Wanted
  PROVE  StorageInv'
  <1>0. FilesTyped /\ Queued
    BY DEF StorageInv
  <1>1. cleaner' \in [Cleaners -> CleanerStates] /\ cleaner'[c] = s /\ \A d \in Cleaners \ {c} : cleaner'[d] = cleaner[d]
    BY <1>0, CleanerMoves
  <1>2. cleanup' \subseteq [path : Paths, scan : BOOLEAN] /\ QueuedPaths' \subseteq QueuedPaths
    BY <1>0 DEF FilesTyped, QueuedPaths
  <1>3. \A x \in Doomed' : x \in Doomed \/ x = NoPath
    BY <1>1, <1>2 DEF Doomed
  <1>4. Wanted' = Wanted
    BY WantedSame
  <1>5. \A d \in Cleaners : cleaner'[d].pc = "unlink" =>
            \/ cleaner[d].pc = "unlink" /\ cleaner'[d].path = cleaner[d].path
            \/ cleaner'[d].path \notin References
    BY <1>1
  <1>6. Queued'
    <2>1. files' \ Wanted' \subseteq QueuedPaths'
      BY <1>0, <1>4 DEF Queued
    <2>2. ASSUME NEW d \in Cleaners, cleaner'[d].pc = "done", cleaner'[d].current
          PROVE  cleaner'[d].path \notin files' \ Wanted'
      BY <1>0, <1>1, <1>4, <2>2 DEF Queued
    <2> QED
      BY <2>1, <2>2 DEF Queued
  <1> QED
    BY <1>1, <1>2, <1>3, <1>5, <1>6, CleanupKeeps

(* processJob, step by step. *)
LEMMA ProcessJobKeeps ==
  ASSUME StorageInv, UNCHANGED <<releaseVars, versionVars>>, NEW c \in Cleaners,
         TakeJob(c) \/ CheckReferences(c, References, Young) \/ Unlink(c) \/ UnlinkFails(c) \/ DropJob(c)
  PROVE  StorageInv'
  <1>0. FilesTyped /\ Queued /\ cleaner[c] \in CleanerStates /\ cleaner[c].path \in Doomed
    BY DEF StorageInv, FilesTyped, Doomed
  <1>i. NoClean \in CleanerStates /\ NoClean.pc = "idle" /\ NoClean.path = NoPath
    BY DEF NoClean, CleanerStates
  <1>1. CASE TakeJob(c)
    <2>1. PICK j \in cleanup : cleaner' = [cleaner EXCEPT ![c] = [pc |-> "taken", path |-> j.path,
                                                               scan |-> j.scan, current |-> TRUE]]
      BY <1>1 DEF TakeJob
    <2>2. PICK s : s = [pc |-> "taken", path |-> j.path, scan |-> j.scan, current |-> TRUE]
      OBVIOUS
    <2>3. s \in CleanerStates /\ s.pc = "taken" /\ s.path = j.path
      BY <1>0, <2>2 DEF FilesTyped, CleanerStates
    <2>4. s.path \in Doomed
      BY <2>3 DEF Doomed, QueuedPaths
    <2>5. UNCHANGED <<files, cleanup, forsaken>> /\ QueuedPaths' = QueuedPaths
      BY <1>1 DEF TakeJob, QueuedPaths
    <2> QED
      BY <2>1, <2>2, <2>3, <2>4, <2>5, CleanerKeeps
  <1>2. ASSUME cleaner' = [cleaner EXCEPT ![c] = NoClean], UNCHANGED <<files, cleanup, forsaken>>
        PROVE  StorageInv'
    <2>1. QueuedPaths' = QueuedPaths
      BY <1>2 DEF QueuedPaths
    <2> QED
      BY <1>2, <1>i, <2>1, CleanerKeeps
  <1>3. ASSUME NEW pc \in {"done", "unlink"}, cleaner' = [cleaner EXCEPT ![c].pc = pc], cleanup' = cleanup,
               forsaken' = forsaken, files' \subseteq files,
               \A x \in files \ files' : cleaner[c].pc = "unlink" /\ cleaner[c].path = x,
               pc = "unlink" => cleaner[c].path \notin References,
               pc = "done" => cleaner[c].path \notin files' \/ cleaner[c].path \in References
        PROVE  StorageInv'
    <2>1. PICK s : s = [cleaner[c] EXCEPT !.pc = pc]
      OBVIOUS
    <2>2. s \in CleanerStates /\ s.pc = pc /\ s.path = cleaner[c].path
      BY <1>0, <1>3, <2>1 DEF CleanerStates
    <2>3. cleaner' = [cleaner EXCEPT ![c] = s]
      BY <1>3, <2>1
    <2>4. QueuedPaths' = QueuedPaths /\ References \subseteq Wanted
      BY <1>3 DEF QueuedPaths, Wanted
    <2> QED
      BY <1>0, <1>3, <2>2, <2>3, <2>4, CleanerKeeps
  <1>4. CASE CheckReferences(c, References, Young)
    <2>1. CASE Postpone(c)
      BY <1>2, <2>1 DEF Postpone
    <2>2. CASE /\ cleaner' = [cleaner EXCEPT ![c].pc = IF cleaner[c].path \in References THEN "done" ELSE "unlink"]
               /\ UNCHANGED <<files, cleanup, forsaken>>
      <3>1. PICK pc : pc = IF cleaner[c].path \in References THEN "done" ELSE "unlink"
        OBVIOUS
      <3>2. pc \in {"done", "unlink"} /\ (pc = "done" <=> cleaner[c].path \in References)
        BY <3>1
      <3> QED
        BY <1>3, <2>2, <3>1, <3>2
    <2> QED
      BY <1>4, <2>1, <2>2 DEF CheckReferences
  <1>5. CASE Unlink(c)
    BY <1>3, <1>5 DEF Unlink
  <1>6. CASE UnlinkFails(c)
    BY <1>2, <1>6 DEF UnlinkFails, Postpone
  <1>7. CASE DropJob(c)
    <2>1. /\ cleaner[c].pc = "done" /\ cleaner' = [cleaner EXCEPT ![c] = NoClean] /\ UNCHANGED <<files, forsaken>>
          /\ cleanup' = IF cleaner[c].current THEN Others({cleaner[c].path}) ELSE cleanup
      BY <1>7 DEF DropJob
    <2>2. cleanup' \subseteq cleanup
      BY <2>1 DEF Others
    <2>3. \A x \in QueuedPaths \ QueuedPaths' : cleaner[c].current /\ x = cleaner[c].path
      BY <2>1 DEF QueuedPaths, Others
    <2>4. \A x \in QueuedPaths \ QueuedPaths' : x \notin files' \ Wanted
      BY <1>0, <2>1, <2>3 DEF Queued
    <2> QED
      BY <1>i, <2>1, <2>2, <2>4, CleanerKeeps
  <1> QED
    BY <1>1, <1>4, <1>5, <1>6, <1>7

(* Every step of the cleanup. *)
LEMMA CleanupStepKeeps ==
  ASSUME StorageInv, CleanupStep
  PROVE  StorageInv'
  <1>1. CleanupNext(References, Young) /\ UNCHANGED <<releaseVars, versionVars>>
    BY DEF CleanupStep
  <1>2. CASE RecoverOrphans(References, Young)
    BY <1>1, <1>2, RecoverOrphansKeeps, Zenon
  <1>3. CASE \E c \in Cleaners : TakeJob(c) \/ CheckReferences(c, References, Young) \/ Unlink(c)
                                 \/ UnlinkFails(c) \/ DropJob(c)
    BY <1>1, <1>3, ProcessJobKeeps, Zenon
  <1> QED
    BY <1>1, <1>2, <1>3, Zenon DEF CleanupNext

(* A file that grows has been changed by a running request or download.    *)
LEMMA GrowingIsYoung == Growing \subseteq Young
  BY DEF Growing, Young, FetchedPaths, PathsOf

(* The process dies: what it was writing is left to the scan. *)
LEMMA StorageCrashKeeps ==
  ASSUME StorageInv, StorageCrash
  PROVE  StorageInv'
  <1>0. FilesTyped /\ ReleasesTyped /\ VersionsTyped /\ PackagesFit /\ VersionsFit /\ Queued
    BY DEF StorageInv
  <1>1. /\ admin' = [p \in AdminProcs |-> NoRequest] /\ line' = NoAdmin /\ UNCHANGED <<release, artifact, uploads>>
        /\ fetcher' = [w \in Fetchers |-> NoFetch] /\ UNCHANGED <<version, policy>>
        /\ cleaner' = [c \in Cleaners |-> NoClean] /\ UNCHANGED <<files, cleanup>>
        /\ forsaken' = forsaken \union (Young \cap files)
    BY DEF StorageCrash, AbandonRequests, AbandonFetches
  <1>2. FilesTyped'
    <2>1. NoClean \in CleanerStates
      BY DEF NoClean, CleanerStates
    <2> QED
      BY <1>0, <1>1, <2>1 DEF FilesTyped
  <1>3. ReleasesTyped' /\ LineHeld'
    <2>1. NoRequest \in Requests /\ NoRequest.op = "idle"
      BY DEF Requests, NoRequest
    <2> QED
      BY <1>0, <1>1, <2>1 DEF ReleasesTyped, LineHeld, Reading
  <1>4. VersionsTyped'
    BY <1>0, <1>1 DEF VersionsTyped, NoFetch, FetchSteps
  <1>5. \A x \in Doomed' : x \in Doomed \/ x = NoPath
    BY <1>1 DEF Doomed, QueuedPaths, NoClean
  <1>6. PackagesFit'
    <2>1. \A p \in AdminProcs : ~Uploading(p)' /\ ~At(p, "upload", "stored")'
      BY <1>1 DEF Uploading, At, NoRequest
    <2>2. StoredUploads' = {} /\ ArtifactPaths' = ArtifactPaths
      BY <1>1, <2>1 DEF StoredUploads, ArtifactPaths, StoredPaths
    <2>3. \A c \in Cleaners : cleaner'[c].pc # "unlink"
      BY <1>1 DEF NoClean
    <2>4. \A n \in 1..MaxUploads : n > uploads' => PackageFresh(n)'
      BY <1>0, <1>1, <1>5, <2>2, PathsDiffer DEF PackagesFit, PackageFresh
    <2> QED
      BY <1>0, <1>1, <2>1, <2>2, <2>3, <2>4 DEF PackagesFit
  <1>7. VersionsFit'
    <2>1. \A w \in Fetchers : fetcher'[w].v = 0 /\ fetcher'[w].pc = "idle"
      BY <1>1 DEF NoFetch
    <2>2. \A w \in Fetchers : FetchFits(w)'
      BY <2>1 DEF FetchFits
    <2>3. ASSUME NEW v \in VersionRows PROVE VersionFits(v)'
      <3>1. VersionFits(v) /\ v # 0
        BY <1>0, VersionAssumption DEF VersionsFit, VersionRows
      <3>2. FetchersOf(v)' = {}
        BY <2>1, <3>1 DEF FetchersOf
      <3>3. \A x \in {FinalPath(v), PartPath(v)} : x \in Doomed' => x \in Doomed
        BY <1>5, PathsDiffer
      <3>4. Dead(v) => Dead(v)'
        BY <1>1, <3>2 DEF Dead
      <3>5. FetchersOf(v) # {} => FinalPath(v) \in Young /\ PartPath(v) \in Young
        BY DEF FetchersOf, Young, FetchedPaths, PathsOf
      <3> QED
        BY <1>1, <3>1, <3>2, <3>3, <3>4, <3>5 DEF VersionFits
    <2>4. policy'.active # 0 => version'[policy'.active].status = "ready"
      BY <1>0, <1>1 DEF VersionsFit
    <2> QED
      BY <2>2, <2>3, <2>4 DEF VersionsFit
  <1>8. Queued'
    <2>1. References' = References /\ QueuedPaths' = QueuedPaths
      BY <1>1 DEF References, ArtifactPaths, StoredPaths, VersionPaths, StatusIs, InProgress, QueuedPaths
    <2>2. \A x \in files : x \in Wanted => x \in Wanted'
      BY <1>1, <2>1, GrowingIsYoung DEF Wanted
    <2>3. \A c \in Cleaners : cleaner'[c].pc # "done"
      BY <1>1 DEF NoClean
    <2> QED
      BY <1>0, <1>1, <2>1, <2>2, <2>3 DEF Queued
  <1> QED
    BY <1>2, <1>3, <1>4, <1>6, <1>7, <1>8 DEF StorageInv

(* Nothing is stored yet. *)
LEMMA StorageInitInv ==
  ASSUME StorageInit
  PROVE  StorageInv
  <1>1. /\ files = {} /\ cleanup = {} /\ forsaken = {} /\ cleaner = [c \in Cleaners |-> NoClean]
        /\ release = [r \in Releases |-> NoRelease] /\ artifact = [a \in Artifacts |-> NoArtifact]
        /\ admin = [p \in AdminProcs |-> NoRequest] /\ line = NoAdmin /\ uploads = 0
        /\ version = [v \in VersionRows |-> Unused] /\ fetcher = [w \in Fetchers |-> NoFetch]
        /\ policy = [component |-> TRUE, source |-> 0, auto |-> FALSE, active |-> 0]
    BY DEF StorageInit, FilesInit, ReleaseInit, VersionInit
  <1>2. FilesTyped
    BY <1>1 DEF FilesTyped, NoClean, CleanerStates
  <1>3. ReleasesTyped
    BY <1>1, ReleaseAssumption DEF ReleasesTyped, NoRelease, NoArtifact, NoRequest, Requests
  <1>4. VersionsTyped
    BY <1>1 DEF VersionsTyped, Unused, NoFetch, FetchSteps, Statuses
  <1>5. LineHeld
    BY <1>1 DEF LineHeld, Reading, NoRequest
  <1>6. \A x \in Doomed : x = NoPath
    BY <1>1 DEF Doomed, QueuedPaths, NoClean
  <1>7. PackagesFit
    <2>1. ArtifactPaths = {} /\ StoredUploads = {}
      BY <1>1 DEF ArtifactPaths, StoredPaths, NoArtifact, StoredUploads, At, NoRequest
    <2>2. \A p \in AdminProcs : ~Uploading(p)
      BY <1>1 DEF Uploading, NoRequest
    <2>3. \A n \in 1..MaxUploads : PackageFresh(n)
      BY <1>1, <1>6, <2>1, PathsDiffer DEF PackageFresh
    <2>4. \A c \in Cleaners : cleaner[c].pc # "unlink"
      BY <1>1 DEF NoClean
    <2> QED
      BY <2>1, <2>2, <2>3, <2>4 DEF PackagesFit
  <1>8. VersionsFit
    <2>1. ASSUME NEW v \in VersionRows PROVE VersionFits(v)
      <3>1. FetchersOf(v) = {} /\ version[v].status = "none"
        BY <1>1, VersionAssumption DEF FetchersOf, NoFetch, VersionRows, Unused
      <3> QED
        BY <1>1, <1>6, <3>1, PathsDiffer DEF VersionFits
    <2>2. \A w \in Fetchers : FetchFits(w)
      BY <1>1 DEF FetchFits, NoFetch
    <2> QED
      BY <1>1, <2>1, <2>2 DEF VersionsFit
  <1>9. Queued
    BY <1>1 DEF Queued, NoClean
  <1> QED
    BY <1>2, <1>3, <1>4, <1>5, <1>7, <1>8, <1>9 DEF StorageInv

(* StorageInv is inductive: every handler of the release centre, of the    *)
(* runtime versions and of the file maintenance preserves it.              *)
LEMMA StorageStep == StorageInv /\ [StorageNext]_storageVars => StorageInv'
  <1> SUFFICES ASSUME StorageInv, [StorageNext]_storageVars PROVE StorageInv'
    OBVIOUS
  <1>1. CASE StorageNext
    BY <1>1, ReleaseStepKeeps, VersionStepKeeps, CleanupStepKeeps, StorageCrashKeeps, Zenon DEF StorageNext
  <1>2. CASE UNCHANGED storageVars
    <2>1. UNCHANGED releaseVars /\ UNCHANGED fileVars /\ UNCHANGED <<version, fetcher, policy>>
      BY <1>2 DEF storageVars, versionVars
    <2>2. VersionsTyped /\ VersionsFit
      BY DEF StorageInv
    <2> QED
      BY <2>1, <2>2, PolicyKeeps DEF VersionsTyped, VersionsFit
  <1> QED
    BY <1>1, <1>2

(* Packages, versions, jobs and the release line fit at every moment       *)
(* (release-center.service.ts, runtime-version.service.ts,                 *)
(* file-maintenance.service.ts).                                           *)
THEOREM StorageInvHolds == StorageSpec => []StorageInv
  <1>1. StorageInit => StorageInv
    BY StorageInitInv
  <1> QED
    BY <1>1, StorageStep, PTL DEF StorageSpec

(* What a row hands out is on disk: a stored package, a version that is    *)
(* ready, and the one clients are told to fetch.  The reference check of   *)
(* processJob and removeOrQueue, and the unlink long after it, race every  *)
(* request and download.                                                   *)
THEOREM ReferencedExistsHolds == StorageSpec => []ReferencedExists
  <1>1. StorageInv => ReferencedExists
    <2> SUFFICES ASSUME StorageInv PROVE ReferencedExists
      OBVIOUS
    <2>1. ArtifactPaths \subseteq files
      BY DEF StorageInv, PackagesFit
    <2>2. \A v \in StatusIs({"ready"}) : v \in VersionRows /\ version[v].status = "ready" /\ FinalPath(v) \in files
      BY DEF StorageInv, VersionsFit, VersionFits, StatusIs
    <2>3. policy.active # 0 => policy.active \in StatusIs({"ready"})
      BY DEF StorageInv, VersionsFit, VersionsTyped, StatusIs
    <2> QED
      BY <2>1, <2>2, <2>3 DEF ReferencedExists, Ready
  <1> QED
    BY <1>1, StorageInvHolds, PTL

(* The cleanup forgets nothing: a file no row refers to, which nobody is   *)
(* writing and no crash has left behind, has a job (enqueue, removeOrQueue *)
(* and the revision processJob deletes its row at).                        *)
THEOREM StorageInvariantHolds == StorageSpec => []StorageInvariant
  <1>1. StorageInv => StorageInvariant
    <2> SUFFICES ASSUME StorageInv PROVE StorageInvariant
      OBVIOUS
    <2>1. files \subseteq Paths /\ QueuedPaths \subseteq Paths /\ forsaken \subseteq Paths
      BY DEF StorageInv, FilesTyped, QueuedPaths
    <2>2. \A c \in Cleaners : cleaner[c].pc \in {"idle", "taken", "unlink", "done"}
      BY DEF StorageInv, FilesTyped, CleanerStates
    <2>3. /\ line \in AdminProcs \union {NoAdmin} /\ uploads \in 0..MaxUploads
          /\ \A a \in Artifacts : artifact[a].path \in Paths \union {Link, NoPath}
      BY PathKinds DEF StorageInv, ReleasesTyped
    <2>4. policy.active \in VersionRows \union {0}
      BY DEF StorageInv, VersionsTyped
    <2>5. StorageTypeOK
      BY <2>1, <2>2, <2>3, <2>4 DEF StorageTypeOK
    <2>6. UnwantedIsQueued
      BY GrowingIsYoung DEF StorageInv, Queued, Wanted, UnwantedIsQueued
    <2> QED
      BY <2>5, <2>6 DEF StorageInvariant
  <1> QED
    BY <1>1, StorageInvHolds, PTL

(* What LineOnlyRises says of one step. *)
LineRises ==
    \A r \in Releases :
        release[r].status = "published" /\ release'[r].status = "published"
            /\ release'[r].channel # release[r].channel
        => release[r].channel = "beta" /\ \A s \in StableLine : s < r

(* A request that writes the channel holds the lock since it has read.     *)
LEMMA WriteRises ==
  ASSUME StorageInv, NEW p \in AdminProcs, EditWrite(p) \/ PromoteWrite(p)
  PROVE  LineRises
  <1>0. /\ LineHeld /\ admin[p] \in Requests
        /\ release \in [Releases -> [status : {"none", "draft", "published"}, channel : {"beta", "stable"}]]
    BY DEF StorageInv, ReleasesTyped
  <1>1. CASE EditWrite(p)
    <2> DEFINE r == admin[p].r
               new == [status  |-> IF admin[p].status = "same" THEN release[r].status ELSE admin[p].status,
                       channel |-> IF admin[p].channel = "same" THEN release[r].channel ELSE admin[p].channel]
    <2>1. /\ admin[p].op = "edit" /\ admin[p].pc = "read"
          /\ release' = IF Exists(r) THEN [release EXCEPT ![r] = new] ELSE release
      BY <1>1 DEF EditWrite, At
    <2>2. r \in Releases
      BY <1>0, <2>1, RequestKinds
    <2>3. release[r].status = "published" => admin[p].channel \in {"same", release[r].channel}
      BY <1>0, <2>1 DEF LineHeld, Reading
    <2>4. release[r].status = "published" => new.channel = release[r].channel
      BY <2>3
    <2> HIDE DEF new
    <2>5. \A s \in Releases : release[s].status = "published" => release'[s].channel = release[s].channel
      BY <1>0, <2>1, <2>2, <2>4
    <2> QED
      BY <2>5 DEF LineRises
  <1>2. CASE PromoteWrite(p)
    <2>1. /\ admin[p].op = "promote" /\ admin[p].pc = "read"
          /\ release' = IF InBeta(admin[p].r) THEN [release EXCEPT ![admin[p].r].channel = "stable"] ELSE release
      BY <1>2 DEF PromoteWrite, At
    <2>2. admin[p].r \in Releases /\ \A s \in StableLine : s < admin[p].r
      BY <1>0, <2>1, RequestKinds DEF LineHeld, Reading
    <2>3. \A s \in Releases : s # admin[p].r => release'[s] = release[s]
      BY <1>0, <2>1
    <2>4. release'[admin[p].r].channel # release[admin[p].r].channel => release[admin[p].r].channel = "beta"
      BY <2>1 DEF InBeta
    <2> QED
      BY <2>2, <2>3, <2>4 DEF LineRises
  <1> QED
    BY <1>1, <1>2

(* The handlers without the lock leave the channel of what is out alone.   *)
LEMMA OtherRises ==
  ASSUME StorageInv, NEW r \in Releases,
         \/ \E ch \in {"beta", "stable"}, linked \in BOOLEAN : CreateRelease(r, ch, linked)
         \/ UnpublishRelease(r) \/ DeleteRelease(r)
  PROVE  LineRises
  <1>0. release \in [Releases -> [status : {"none", "draft", "published"}, channel : {"beta", "stable"}]]
    BY DEF StorageInv, ReleasesTyped
  <1>1. \/ \E ch \in {"beta", "stable"} : release' = [release EXCEPT ![r] = [status |-> "draft", channel |-> ch]]
        \/ release' = [release EXCEPT ![r].status = "draft"]
        \/ release' = [release EXCEPT ![r] = NoRelease]
    BY DEF CreateRelease, UnpublishRelease, DeleteRelease
  <1>2. release'[r].status # "published" /\ \A s \in Releases \ {r} : release'[s] = release[s]
    BY <1>0, <1>1 DEF NoRelease
  <1> QED
    BY <1>2 DEF LineRises

(* Every step. *)
LEMMA StepRises == StorageInv /\ [StorageNext]_storageVars => LineRises
  <1> SUFFICES ASSUME StorageInv, [StorageNext]_storageVars PROVE LineRises
    OBVIOUS
  <1>0. release' = release => LineRises
    BY DEF LineRises
  <1>1. CASE ReleaseStep
    <2>1. ReleaseNext(References)
      BY <1>1 DEF ReleaseStep
    <2>2. CASE \E r \in Releases : \/ \E ch \in {"beta", "stable"}, linked \in BOOLEAN : CreateRelease(r, ch, linked)
                                   \/ UnpublishRelease(r) \/ DeleteRelease(r)
      BY <2>2, OtherRises, Zenon
    <2>3. CASE \E p \in AdminProcs : EditWrite(p) \/ PromoteWrite(p)
      BY <2>3, WriteRises, Zenon
    <2>4. CASE \E r \in Releases, p \in AdminProcs :
                 \/ \E ch \in {"same", "beta", "stable"}, st \in {"same", "published", "draft"} : BeginEdit(p, r, ch, st)
                 \/ BeginPromote(p, r) \/ BeginLink(p, r)
                 \/ \E a \in Artifacts \union {0} : BeginUpload(p, r, a)
      <3>1. release' = release
        BY <2>4 DEF BeginEdit, BeginPromote, BeginLink, BeginUpload
      <3> QED
        BY <1>0, <3>1
    <2>5. CASE \E p \in AdminProcs :
                 \/ EditRead(p) \/ PromoteRead(p) \/ CommitLink(p) \/ UploadFails(p) \/ CleanUpload(p, References)
                 \/ \E a \in Artifacts : CommitUpload(p, a) \/ CommitUnanswered(p, a)
      <3>1. release' = release
        BY <2>5 DEF EditRead, PromoteRead, CommitLink, UploadFails, CleanUpload, CommitUpload, CommitUnanswered
      <3> QED
        BY <1>0, <3>1
    <2>6. CASE \E a \in Artifacts : SwitchToLink(a) \/ DeleteReleaseArtifact(a)
      <3>1. release' = release
        BY <2>6 DEF SwitchToLink, DeleteReleaseArtifact, RetireFile
      <3> QED
        BY <1>0, <3>1
    <2> QED
      BY <2>1, <2>2, <2>3, <2>4, <2>5, <2>6, Zenon DEF ReleaseNext
  <1>2. CASE VersionStep \/ CleanupStep \/ StorageCrash \/ UNCHANGED storageVars
    <2>1. release' = release
      BY <1>2 DEF VersionStep, CleanupStep, StorageCrash, AbandonRequests, storageVars, releaseVars
    <2> QED
      BY <1>0, <2>1
  <1> QED
    BY <1>1, <1>2 DEF StorageNext

(* A release that is out changes its channel only by promotion, from beta  *)
(* to stable and above everything that is stable then: writeReleaseEdit    *)
(* and promoteRelease check under the line's lock and write later, and     *)
(* unpublishing, deleting and recreating take no lock.                     *)
THEOREM LineOnlyRisesHolds == StorageSpec => LineOnlyRises
  <1>1. StorageInv /\ [StorageNext]_storageVars => [LineRises]_releaseVars
    BY StepRises
  <1> QED
    BY <1>1, StorageInvHolds, PTL DEF StorageSpec, LineOnlyRises, LineRises

==============================================================================
