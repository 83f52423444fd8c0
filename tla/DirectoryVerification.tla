------------------------- MODULE DirectoryVerification -------------------------
(***************************************************************************)
(* verify_artifact (src/artifact_proof/engine.py) over a DirectorySource   *)
(* (source.py), while other processes write to the directory.  A step of   *)
(* the verifier is one file-system call with the code that follows it, up  *)
(* to the next one.  A file's contents stand for themselves: SHA-256 is    *)
(* taken to be injective.                                                  *)
(***************************************************************************)
EXTENDS Naturals, SequencesExt

CONSTANTS
    None,
    PathOrder,         \* every path the directory may hold, as sorted() orders them
    Folder,            \* Folder[p]: the folders that lead to p, from the root down
    ManifestPath,
    Data,              \* file contents
    Size,              \* Size[d]: the bytes of d
    Parse,             \* Parse[d]: the manifest d holds, None if it holds none
    Initial,           \* directories verification may start from: path -> contents
    Anchors,           \* detached manifest digests a caller may supply, or None
    MaxEntries, MaxFileBytes, MaxTotalBytes, MaxManifestBytes,
    Stealthy,          \* whether writers may keep a timestamp, or put a file back
    MaxMutations       \* bound: the writers stop here

Paths == ToSet(PathOrder)

ASSUME PathsAssumption == PathOrder \in Seq(Paths) /\ ManifestPath \in Paths

ASSUME FoldersAssumption ==
    /\ DOMAIN Folder = Paths
    /\ \A p \in Paths : Folder[p] \in Seq(ToSet(Folder[p]))

ASSUME DataAssumption ==
    /\ None \notin Data /\ None \notin Seq(Data)
    /\ \A d \in Data : Size[d] \in Nat
    /\ \A start \in Initial : DOMAIN start \subseteq Paths /\ start \in [DOMAIN start -> Data]

ASSUME LimitsAssumption == MaxFileBytes \in Nat /\ MaxManifestBytes \in Nat

\* The parser: a contract does not declare its own manifest, and has a sequence
\* of checks, each with a sequence of reads of files it declares.
ASSUME ContractsAssumption ==
    \A d \in Data : LET m == Parse[d] IN
        m # None =>
            /\ DOMAIN m.files \subseteq Paths \ {ManifestPath}
            /\ m.checks \in Seq(ToSet(m.checks))
            /\ \A n \in DOMAIN m.checks : m.checks[n].reads \in Seq(DOMAIN m.files)

\* sorted(): the sequence in which each set of paths is read.
SortIn(sorted, p) ==
    [s \in SUBSET Paths |-> IF p \in s THEN Append(sorted[s], p) ELSE sorted[s]]

Unsorted == [s \in SUBSET Paths |-> <<>>]

Sorting == FoldLeft(SortIn, Unsorted, PathOrder)

Sorted(paths) == Sorting[paths]

\* dict.setdefault
SetDefault(f, p, v) == [q \in DOMAIN f \cup {p} |-> IF q \in DOMAIN f THEN f[q] ELSE v]

\* Two functions joined, the first where both are defined.
Joined(f, g) == [p \in DOMAIN f \cup DOMAIN g |-> IF p \in DOMAIN f THEN f[p] ELSE g[p]]

VARIABLES
    inodes,            \* every file that ever existed: data, stamp, kind
    dir,               \* path -> index in inodes, 0 if there is no such file
    mutations,         \* writes so far
    profile,           \* "sealed" or "live"
    anchor,            \* manifest_sha256 and require_trust_anchor
    stage,             \* where verify_artifact is: see Stages
    scan,              \* the inventory under way: see NoScan
    snapshots,         \* the first inventory: path -> metadata
    todo,              \* paths the current stage has yet to read
    fd,                \* the open descriptor: inode, data read
    observed,          \* _observed_digests: path -> contents first read
    manifest, check,   \* the parsed manifest; the index of the current check
    readings,          \* what the current check has read
    failed,            \* a finding is FAIL
    report,            \* "none" while it runs, "pass", "fail", or "raised"
    atStart,           \* history: the directory when the last inventory began
    atScan,            \* history: each folder when the last inventory listed it
    judged             \* history: what findings were made of, <<path, contents>>

history == <<atStart, atScan>>
arguments == <<profile, anchor>>
directory == <<inodes, dir, mutations>>
contract == <<manifest, check, readings>>
vars == <<directory, arguments, stage, scan, snapshots, todo, fd, observed, contract,
          failed, report, history, judged>>

\* Three inventories: "open", "drift" and "final"; reads in the other stages.
Stages == {"open", "manifest", "hashes", "checks", "drift", "reread", "final", "end"}

Kinds == {"regular", "symlink", "fifo"}

Present == {p \in Paths : dir[p] # 0}

Contents == [p \in {q \in Present : inodes[dir[q]].kind = "regular"} |-> inodes[dir[p]].data]

\* (st_dev, st_ino, st_size, st_mtime_ns)
Metadata(i) == [ino |-> i, size |-> Size[inodes[i].data], mtime |-> inodes[i].stamp]

Total(sizes) == MapThenSumSet(LAMBDA p : sizes[p], DOMAIN sizes)

\* The root; the folders that p is in, at any depth; those right below one.
Root == <<>>
Above(p) == {SubSeq(Folder[p], 1, n) : n \in 0 .. Len(Folder[p])}
Folders == UNION {Above(p) : p \in Paths}
Subfolders(f) == {g \in Folders : Len(g) = Len(f) + 1 /\ SubSeq(g, 1, Len(f)) = f}

\* An inventory: folders os.walk has yet to list, names of the folder it is in,
\* the member between its lstat and its stat, members seen.
NoScan == [folders |-> {Root}, left |-> {}, member |-> {}, files |-> <<>>]

Listed == Root \notin scan.folders

Init ==
    /\ \E start \in Initial :
        LET names == Sorted(DOMAIN start) IN
        /\ inodes = [i \in DOMAIN names |->
                        [data |-> start[names[i]], stamp |-> 0, kind |-> "regular"]]
        /\ dir = [p \in Paths |-> IF p \in DOMAIN start
                                  THEN CHOOSE i \in DOMAIN names : names[i] = p ELSE 0]
    /\ atStart = <<>>
    /\ atScan = <<>>
    /\ mutations = 0
    /\ profile \in {"sealed", "live"}
    /\ anchor \in [digest : Anchors, required : BOOLEAN]
    /\ stage = "open"
    /\ scan = NoScan
    /\ snapshots = <<>>
    /\ todo = <<>>
    /\ fd = None
    /\ observed = <<>>
    /\ manifest = None
    /\ check = 0
    /\ readings = <<>>
    /\ failed = FALSE
    /\ report = "none"
    /\ judged = {}

-----------------------------------------------------------------------------
(* The writers *)

\* A write stamps the file with a time of its own, unless it is stealthy.
Stamps(old) == {mutations + 1} \cup IF Stealthy THEN {old} ELSE {}

Mutate ==
    /\ report = "none"
    /\ mutations < MaxMutations
    /\ mutations' = mutations + 1
    /\ UNCHANGED <<arguments, stage, scan, snapshots, todo, fd, observed, contract, failed,
                   report, history, judged>>

\* A file is rewritten in place, also one that has lost its name.
Write ==
    /\ Mutate
    /\ \E i \in DOMAIN inodes : \E d \in Data \ {inodes[i].data} :
        /\ inodes[i].kind = "regular"
        /\ \E t \in Stamps(inodes[i].stamp) :
            inodes' = [inodes EXCEPT ![i] = [data |-> d, stamp |-> t, kind |-> "regular"]]
    /\ UNCHANGED dir

\* A new file is created, or renamed over a name.
Put ==
    /\ Mutate
    /\ \E p \in Paths, d \in Data, k \in Kinds :
        /\ inodes' = Append(inodes, [data |-> d, stamp |-> mutations + 1, kind |-> k])
        /\ dir' = [dir EXCEPT ![p] = Len(inodes) + 1]

Unlink ==
    /\ Mutate
    /\ \E p \in Present : dir' = [dir EXCEPT ![p] = 0]
    /\ UNCHANGED inodes

\* A file that was moved aside is moved back.
PutBack ==
    /\ Stealthy
    /\ Mutate
    /\ \E p \in Paths : \E i \in DOMAIN inodes \ {dir[q] : q \in Paths} :
        dir' = [dir EXCEPT ![p] = i]
    /\ UNCHANGED inodes

-----------------------------------------------------------------------------
(* Leaving verify_artifact *)

\* An ArtifactProofError becomes a FAIL finding, and the report is returned.
Reject ==
    /\ stage' = "end"
    /\ failed' = TRUE
    /\ report' = "fail"

-----------------------------------------------------------------------------
(* DirectorySource._inventory *)

\* What a folder holds itself, not in a folder below it.
In(f) == {p \in Present : Folder[p] = f}
ContentsIn(f) == [p \in {q \in DOMAIN Contents : Folder[q] = f} |-> Contents[p]]

\* os.walk lists a folder when it has gone through the one before, and the
\* deepest first; it finds the folders in it, also empty ones, and will list each
\* at a time of its own.  A folder that has gone by then is passed over.
ListNames(f) ==
    /\ stage \in {"open", "drift", "final"}
    /\ scan.left = {} /\ scan.member = {}
    /\ f \in scan.folders
    /\ \A g \in scan.folders : Len(g) <= Len(f)
    /\ \E found \in SUBSET Subfolders(f) :
        /\ \A p \in Present : Above(p) \cap Subfolders(f) \subseteq found
        /\ scan' = [scan EXCEPT !.folders = (@ \ {f}) \cup found, !.left = In(f)]
    /\ atStart' = IF f = Root THEN Contents ELSE atStart
    /\ atScan' = IF f = Root THEN ContentsIn(f) ELSE Joined(atScan, ContentsIn(f))
    /\ UNCHANGED <<directory, arguments, stage, snapshots, todo, fd, observed, contract,
                   failed, report, judged>>

\* FileNotFoundError, which nothing catches.
Raise ==
    /\ stage' = "end"
    /\ report' = "raised"
    /\ UNCHANGED <<scan, failed>>

\* lstat of one member, in the order the folder lists them.
LstatMember(p) ==
    /\ report = "none"
    /\ p \in scan.left /\ scan.member = {}
    /\ \/ /\ dir[p] = 0
          /\ Raise
       \/ /\ dir[p] # 0
          /\ inodes[dir[p]].kind # "regular"
          /\ Reject
          /\ UNCHANGED scan
       \/ /\ dir[p] # 0
          /\ inodes[dir[p]].kind = "regular"
          /\ scan' = [scan EXCEPT !.left = @ \ {p}, !.member = {p}]
          /\ UNCHANGED <<stage, failed, report>>
    /\ UNCHANGED <<directory, arguments, snapshots, todo, fd, observed, contract, history, judged>>

\* stat follows a symlink put in the member's place since: to no file, to one of
\* its own or, if its writer is stealthy, to any.
Reaches(p) ==
    IF Stealthy /\ inodes[dir[p]].kind = "symlink" THEN DOMAIN inodes ELSE {dir[p]}

StatMember(p) ==
    /\ report = "none"
    /\ p \in scan.member
    /\ \/ /\ dir[p] # 0 => inodes[dir[p]].kind = "symlink"
          /\ Raise
       \/ /\ dir[p] # 0
          /\ \E i \in Reaches(p) : Size[inodes[i].data] > MaxFileBytes
          /\ Reject
          /\ UNCHANGED scan
       \/ /\ dir[p] # 0
          /\ \E i \in Reaches(p) :
                /\ Size[inodes[i].data] <= MaxFileBytes
                /\ scan' = [scan EXCEPT !.member = @ \ {p}, !.files = SetDefault(@, p, Metadata(i))]
          /\ UNCHANGED <<stage, failed, report>>
    /\ UNCHANGED <<directory, arguments, snapshots, todo, fd, observed, contract, history, judged>>

\* Faulty: only the names are compared.
NamesDrifted(files) == stage # "open" /\ DOMAIN files # DOMAIN snapshots

Drifted(files) == stage # "open" /\ files # snapshots

WithinLimits(files) ==
    /\ Cardinality(DOMAIN files) <= MaxEntries
    /\ Total([p \in DOMAIN files |-> files[p].size]) <= MaxTotalBytes

\* The inventory is complete: the first is kept, the others are compared with it.
EndInventory ==
    /\ report = "none"
    /\ scan.folders = {} /\ scan.left = {} /\ scan.member = {}
    /\ scan' = NoScan
    /\ \/ /\ ~WithinLimits(scan.files) \/ Drifted(scan.files)
          /\ Reject
          /\ UNCHANGED <<snapshots, todo>>
       \/ /\ WithinLimits(scan.files)
          /\ stage = "open"
          /\ snapshots' = scan.files
          /\ stage' = "manifest"
          /\ todo' = <<ManifestPath>>
          /\ UNCHANGED <<failed, report>>
       \/ /\ WithinLimits(scan.files)
          /\ stage = "drift"
          /\ ~Drifted(scan.files)
          /\ stage' = "reread"
          /\ todo' = Sorted(DOMAIN snapshots)
          /\ UNCHANGED <<snapshots, failed, report>>
       \/ /\ WithinLimits(scan.files)
          /\ stage = "final"
          /\ ~Drifted(scan.files)
          /\ stage' = "end"
          /\ report' = IF failed THEN "fail" ELSE "pass"
          /\ UNCHANGED <<snapshots, todo, failed>>
    /\ UNCHANGED <<directory, arguments, fd, observed, contract, history, judged>>

-----------------------------------------------------------------------------
(* DirectorySource.read_bytes *)

Reading == report = "none" /\ todo # <<>>

\* Faulty: the manifest has no limit of its own.
FileLimit == MaxFileBytes

Limit == IF stage = "manifest" /\ MaxManifestBytes < MaxFileBytes
         THEN MaxManifestBytes ELSE MaxFileBytes

\* Faulty: the file is read again until it is as it was.
ReadAgain ==
    /\ fd' = None
    /\ UNCHANGED <<stage, todo, observed, contract, failed, report, judged>>

\* A SourceError: a declared check turns it into its own FAIL finding, any
\* other reader lets it reject the artifact.
ReadFails ==
    /\ fd' = None
    /\ \/ /\ stage = "checks"
          /\ failed' = TRUE
          /\ todo' = <<>>
          /\ readings' = None
          /\ UNCHANGED <<stage, report>>
       \/ /\ stage # "checks"
          /\ Reject
          /\ UNCHANGED <<todo, readings>>
    /\ UNCHANGED <<observed, manifest, check, judged>>

\* lstat and open: only a symlink is refused, so that opening a FIFO put in
\* the file's place waits for a writer of it.
Blocks(p) == p \in DOMAIN snapshots /\ dir[p] # 0 /\ inodes[dir[p]].kind = "fifo"

\* The file is as it was in the inventory: lstat, open and the first fstat.
Unchanged(p) ==
    /\ p \in DOMAIN snapshots
    /\ dir[p] # 0
    /\ inodes[dir[p]].kind = "regular"
    /\ Metadata(dir[p]) = snapshots[p]

OpenFile ==
    /\ Reading
    /\ fd = None
    /\ \/ /\ Unchanged(Head(todo))
          /\ fd' = [ino |-> dir[Head(todo)], data |-> None]
          /\ UNCHANGED <<stage, todo, observed, contract, failed, report, judged>>
       \/ /\ Blocks(Head(todo))
          /\ fd' = [ino |-> dir[Head(todo)], data |-> None]
          /\ UNCHANGED <<stage, todo, observed, contract, failed, report, judged>>
       \/ /\ ~Unchanged(Head(todo)) /\ ~Blocks(Head(todo))
          /\ ReadFails
    /\ UNCHANGED <<directory, arguments, scan, snapshots, history>>

ReadData ==
    /\ fd # None
    /\ fd.data = None
    /\ inodes[fd.ino].kind = "regular"
    /\ fd' = [fd EXCEPT !.data = inodes[fd.ino].data]
    /\ UNCHANGED <<directory, arguments, stage, scan, snapshots, todo, observed, contract,
                   failed, report, history, judged>>

\* Faulty: the digest is not compared with the one observed before.
ReadUncompared(p, data) == Metadata(fd.ino) = snapshots[p] /\ Size[data] <= Limit

\* The second fstat and the comparison with the digest observed before.
ReadAccepted(p, data) ==
    /\ Metadata(fd.ino) = snapshots[p]
    /\ Size[data] <= Limit
    /\ p \in DOMAIN observed => observed[p] = data

-----------------------------------------------------------------------------
(* What the engine makes of what it reads *)

Anchored(data) == IF anchor.digest = None THEN ~anchor.required ELSE anchor.digest = data

Covered(m, names) ==
    /\ DOMAIN m.files \subseteq names
    /\ m.complete_coverage =>
          names \subseteq DOMAIN m.files \cup {ManifestPath} \cup m.allow_unlisted

HashAccepted(spec, data) == spec.sha256 = data \/ (profile = "live" /\ spec.mutable)

\* Paths the n-th check reads in this profile.
CheckReads(m, n) ==
    IF n <= Len(m.checks) /\ profile \in m.checks[n].profiles THEN m.checks[n].reads ELSE <<>>

\* Faulty: a check holds once it has read its files.
CheckReadable(m, n, data) == Len(data) = Len(CheckReads(m, n))

CheckAccepted(m, n, data) == profile \in m.checks[n].profiles => data \in m.checks[n].holds

TakeManifest(p, data) ==
    \/ /\ Parse[data] = None
       /\ Reject
       /\ UNCHANGED <<todo, contract, judged>>
    \/ /\ Parse[data] # None
       /\ manifest' = Parse[data]
       /\ failed' = ~(Anchored(data) /\ Covered(Parse[data], DOMAIN snapshots))
       /\ stage' = "hashes"
       /\ todo' = Sorted(DOMAIN Parse[data].files \cap DOMAIN snapshots)
       /\ judged' = judged \cup {<<p, data>>}
       /\ UNCHANGED <<check, readings, report>>

TakeHash(p, data) ==
    /\ failed' = (failed \/ ~HashAccepted(manifest.files[p], data))
    /\ todo' = Tail(todo)
    /\ judged' = judged \cup {<<p, data>>}
    /\ UNCHANGED <<stage, contract, report>>

TakeReading(p, data) ==
    /\ readings' = Append(readings, data)
    /\ todo' = Tail(todo)
    /\ judged' = judged \cup {<<p, data>>}
    /\ UNCHANGED <<stage, manifest, check, failed, report>>

TakeFinal ==
    /\ todo' = Tail(todo)
    /\ stage' = IF Len(todo) = 1 THEN "final" ELSE "reread"
    /\ UNCHANGED <<contract, failed, report, judged>>

FinishRead ==
    /\ fd # None
    /\ fd.data # None
    /\ LET p == Head(todo) IN
       \/ /\ ~ReadAccepted(p, fd.data)
          /\ ReadFails
       \/ /\ ReadAccepted(p, fd.data)
          /\ fd' = None
          /\ observed' = SetDefault(observed, p, fd.data)
          /\ \/ stage = "manifest" /\ TakeManifest(p, fd.data)
             \/ stage = "hashes" /\ TakeHash(p, fd.data)
             \/ stage = "checks" /\ TakeReading(p, fd.data)
             \/ stage = "reread" /\ TakeFinal
    /\ UNCHANGED <<directory, arguments, scan, snapshots, history>>

\* The hashes, or a check, are done: its finding is made and the next check
\* begins; after the last, finalize_snapshot.
NextCheck ==
    /\ stage \in {"hashes", "checks"}
    /\ ~Reading
    /\ fd = None
    /\ check' = check + 1
    /\ failed' = (failed \/ (check > 0 /\ readings # None
                                /\ ~CheckAccepted(manifest, check, readings)))
    /\ stage' = IF check' > Len(manifest.checks) THEN "drift" ELSE "checks"
    /\ todo' = CheckReads(manifest, check')
    /\ readings' = <<>>
    /\ UNCHANGED <<directory, arguments, scan, snapshots, fd, observed, manifest, report,
                   history, judged>>

Verify ==
    \/ \E f \in Folders : ListNames(f)
    \/ \E p \in Paths : LstatMember(p) \/ StatMember(p)
    \/ EndInventory
    \/ OpenFile
    \/ ReadData
    \/ FinishRead
    \/ NextCheck

Next == Verify \/ Write \/ Put \/ Unlink \/ PutBack

Spec == Init /\ [][Next]_vars

\* The verifier is one thread that waits for nobody; the writers owe nothing.
FairSpec == Spec /\ WF_vars(Verify)
-----------------------------------------------------------------------------
(* Properties *)

\* The contract, stated without stages, of a directory that holds `contents` ...
Satisfied(contents) ==
    /\ \A p \in DOMAIN contents : Size[contents[p]] <= MaxFileBytes
    /\ Cardinality(DOMAIN contents) <= MaxEntries
    /\ ManifestPath \in DOMAIN contents
    /\ Size[contents[ManifestPath]] <= MaxManifestBytes
    /\ Parse[contents[ManifestPath]] # None
    /\ Anchored(contents[ManifestPath])
    /\ LET m == Parse[contents[ManifestPath]] IN
       /\ Covered(m, DOMAIN contents)
       /\ \A p \in DOMAIN m.files : HashAccepted(m.files[p], contents[p])
       /\ \A n \in DOMAIN m.checks :
            profile \in m.checks[n].profiles =>
                [k \in DOMAIN m.checks[n].reads |-> contents[m.checks[n].reads[k]]]
                    \in m.checks[n].holds

\* ... and the limit on all its files together.
Acceptable(contents) ==
    /\ Satisfied(contents)
    /\ Total([p \in DOMAIN contents |-> Size[contents[p]]]) <= MaxTotalBytes

(* os.walk lists one folder after another, so that a PASS need not be true *)
(* of the whole directory at any instant.  It is true of the files it      *)
(* attests, all at once: together they satisfy the whole contract, and     *)
(* they held what was observed when the last inventory began; the root     *)
(* then held no other.  Below the root there may have been others, but     *)
(* not any more when their own folder was listed.  So no early check hides *)
(* a later drift, whatever the writers do in between.                      *)
PassHoldsInLastInventory ==
    report = "pass" =>
        /\ Acceptable(observed)
        /\ \A p \in DOMAIN observed : p \in DOMAIN atStart /\ observed[p] = atStart[p]
        /\ \A p \in DOMAIN atStart : Folder[p] = Root => p \in DOMAIN observed
        /\ observed = atScan

(* A directory nobody writes to gets the verdict its contents deserve.     *)
QuietVerdictIsExact ==
    mutations = 0 /\ report # "none" => report = IF Acceptable(Contents) THEN "pass" ELSE "fail"

(* Even against writers that keep timestamps and put files back, a finding *)
(* is about what the snapshot identity attests: no check judges contents   *)
(* of a path other than those first observed.                              *)
FindingsMatchSnapshot == \A j \in judged : j[1] \in DOMAIN observed /\ observed[j[1]] = j[2]

(* Even then, a report that passes is coherent: the whole contract holds   *)
(* of the contents its snapshot identity attests, taken together.  Not so  *)
(* the limit on their total size, which the inventories measure by stat: a *)
(* file may be larger while it is read than when it is measured.           *)
PassHoldsOfIdentity == report = "pass" => Satisfied(observed)

(* Verification ends, however the writers behave, for it never retries;    *)
(* only a FIFO put in place of a file between the inventory and its read   *)
(* keeps it waiting in open.                                               *)
WaitsForFifo == fd # None /\ inodes[fd.ino].kind = "fifo"

VerificationEnds == <>(report # "none" \/ WaitsForFifo)

(* source.py:157 says of the last inventory that it detects a mutation up  *)
(* to the completion of the finalization pass: a report that passes is     *)
(* then of the directory as it is when the report is made.                 *)
LateMutationDetected ==
    [][report = "none" /\ report' = "pass" => Contents = observed]_vars

-----------------------------------------------------------------------------
(* The inductive invariant behind a PASS *)

Inodes == [data : Data, stamp : Nat, kind : Kinds]

ShapeInv ==
    /\ inodes \in Seq(Inodes)
    /\ dir \in [Paths -> {0} \cup DOMAIN inodes]
    /\ mutations \in Nat /\ check \in Nat
    /\ DOMAIN snapshots \subseteq Paths
    /\ scan = [folders |-> scan.folders, left |-> scan.left, member |-> scan.member,
               files |-> scan.files]
    /\ scan.left \cup scan.member \cup DOMAIN scan.files \subseteq Paths
    /\ todo \in Seq(Paths)
    /\ observed \in [DOMAIN observed -> Data]
    /\ readings = None \/ readings \in Seq(Data)
    /\ stage \in Stages
    /\ fd # None => fd \in [ino : DOMAIN inodes, data : Data \cup {None}]

\* What is listed, open or yet to be read at each stage.
ControlInv ==
    /\ report = "none" <=> stage # "end"
    /\ stage \notin {"open", "drift", "final", "end"} => scan = NoScan
    /\ stage \in {"open", "drift", "final"} => todo = <<>>
    /\ fd # None => todo # <<>> /\ stage # "end" /\ Head(todo) \in DOMAIN snapshots
    /\ stage = "manifest" => todo = <<ManifestPath>>
    /\ readings = None => stage = "checks" /\ todo = <<>>
    /\ stage = "open" => DOMAIN observed = {}
    /\ DOMAIN observed \subseteq DOMAIN snapshots
    /\ stage \notin {"open", "end"} \/ report = "pass" => Cardinality(DOMAIN snapshots) <= MaxEntries
    /\ \A p \in DOMAIN observed : Size[observed[p]] <= MaxFileBytes

\* The manifest has been taken, and nothing has failed since.
Clean == report # "fail" /\ report # "raised" /\ stage \notin {"open", "manifest"} /\ ~failed

ManifestInv ==
    /\ stage \notin {"open", "manifest", "end"} \/ report = "pass" =>
          /\ ManifestPath \in DOMAIN observed
          /\ manifest = Parse[observed[ManifestPath]] /\ manifest # None
          /\ Size[observed[ManifestPath]] <= MaxManifestBytes
    /\ report = "pass" => ~failed
    /\ Clean => Anchored(observed[ManifestPath]) /\ Covered(manifest, DOMAIN snapshots)

HashesInv ==
    Clean => \A p \in DOMAIN manifest.files :
        \/ stage = "hashes" /\ p \in ToSet(todo)
        \/ p \in DOMAIN observed /\ HashAccepted(manifest.files[p], observed[p])

\* The n-th check holds of the observed contents.
CheckHolds(n) ==
    profile \in manifest.checks[n].profiles =>
        LET reads == manifest.checks[n].reads IN
        /\ ToSet(reads) \subseteq DOMAIN observed
        /\ [k \in DOMAIN reads |-> observed[reads[k]]] \in manifest.checks[n].holds

ChecksInv ==
    /\ stage \in {"open", "manifest", "hashes"} => check = 0
    /\ stage = "checks" => check \in DOMAIN manifest.checks
    /\ stage \in {"drift", "reread", "final"} \/ report = "pass" => check = Len(manifest.checks) + 1
    /\ Clean => \A n \in DOMAIN manifest.checks : n < check => CheckHolds(n)

\* What the current check has read, and what it has yet to read.
ReadingsInv ==
    stage = "checks" /\ ~failed =>
        LET reads == CheckReads(manifest, check) IN
        /\ readings # None
        /\ Len(readings) + Len(todo) = Len(reads)
        /\ \A k \in DOMAIN todo : reads[Len(readings) + k] = todo[k]
        /\ \A k \in DOMAIN readings :
              reads[k] \in DOMAIN observed /\ readings[k] = observed[reads[k]]

RereadInv ==
    /\ stage = "reread" => DOMAIN snapshots \subseteq ToSet(todo) \cup DOMAIN observed
    /\ stage = "final" \/ report = "pass" => DOMAIN observed = DOMAIN snapshots

IdentityInv ==
    ShapeInv /\ ControlInv /\ ManifestInv /\ HashesInv /\ ChecksInv /\ ReadingsInv /\ RereadInv

\* The file found in the first inventory has not been written to.
Still(p) == inodes[snapshots[p].ino].stamp = snapshots[p].mtime

\* Metadata of a file that existed.
Past(m) == m.ino \in DOMAIN inodes /\ m.mtime \in 0 .. mutations

StampsInv ==
    /\ \A i \in DOMAIN inodes : inodes[i].stamp <= mutations
    /\ \A p \in DOMAIN snapshots : Past(snapshots[p])
    /\ \A p \in DOMAIN scan.files : Past(scan.files[p])

\* What was read is what the file holds for as long as nobody writes to it.
ObservedInv ==
    /\ \A p \in DOMAIN observed :
          /\ inodes[snapshots[p].ino].kind = "regular"
          /\ Still(p) => observed[p] = inodes[snapshots[p].ino].data
          /\ Size[observed[p]] = snapshots[p].size
    /\ fd # None /\ fd.data # None =>
          /\ inodes[fd.ino].kind = "regular"
          /\ fd.ino = snapshots[Head(todo)].ino /\ Still(Head(todo)) => fd.data = inodes[fd.ino].data

\* A file was there, as observed, when the last inventory began ...
WasThere(p) == p \in DOMAIN atStart /\ atStart[p] = observed[p]

\* ... and when it listed the file's folder.
WasListed(p) == p \in DOMAIN atScan /\ atScan[p] = observed[p]

\* The last inventory: files yet to be measured, and files found as before.
ListedInv ==
    /\ atStart \in [DOMAIN atStart -> Data] /\ DOMAIN atStart \subseteq Paths
    /\ atScan \in [DOMAIN atScan -> Data]
    /\ Listed \/ scan = NoScan
    /\ stage = "final" /\ Listed =>
        /\ DOMAIN atScan \subseteq scan.left \cup scan.member \cup DOMAIN scan.files
        /\ \A p \in DOMAIN atStart : Folder[p] = Root => p \in DOMAIN atScan
        /\ \A p \in DOMAIN snapshots :
              /\ Unchanged(p) => WasThere(p)
              /\ Unchanged(p) /\ p \in scan.left \cup scan.member \cup DOMAIN atScan => WasListed(p)
              /\ p \in DOMAIN scan.files /\ scan.files[p] = snapshots[p] =>
                    WasThere(p) /\ WasListed(p)
    /\ report = "pass" =>
          /\ \A p \in DOMAIN snapshots : WasThere(p)
          /\ \A p \in DOMAIN atStart : Folder[p] = Root => p \in DOMAIN observed
          /\ observed = atScan
          /\ Total([p \in DOMAIN snapshots |-> snapshots[p].size]) <= MaxTotalBytes

InstantInv == StampsInv /\ ObservedInv /\ ListedInv

\* What the directory deserves.
Deserved == Acceptable(Contents)

\* As long as nobody writes, whatever is known is so, and fails for a reason.
QuietInv ==
    mutations = 0 =>
        /\ \A i \in DOMAIN inodes : inodes[i].kind = "regular"
        /\ report \in {"none", "pass", "fail"}
        /\ scan.left \cup scan.member \cup DOMAIN scan.files \subseteq Present
        /\ scan.files = [p \in DOMAIN scan.files |-> Metadata(dir[p])]
        /\ report = "none" => \A p \in Present :
              \/ p \in scan.left \cup scan.member \cup DOMAIN scan.files
              \/ Above(p) \cap scan.folders # {}
        /\ stage \notin {"open", "end"} \/ report = "pass" =>
              snapshots = [p \in Present |-> Metadata(dir[p])]
        /\ \A p \in DOMAIN observed : p \in Present /\ observed[p] = Contents[p]
        /\ fd # None => fd.ino = dir[Head(todo)] /\ fd.data \in {None, Contents[Head(todo)]}
        /\ stage = "hashes" => ToSet(todo) \subseteq DOMAIN manifest.files \cap DOMAIN snapshots
        /\ stage = "reread" => ToSet(todo) \subseteq DOMAIN snapshots
        /\ readings = None => failed
        /\ failed \/ report = "fail" => ~Deserved
        /\ report = "pass" => Deserved
=============================================================================
