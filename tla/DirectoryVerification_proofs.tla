---------------------- MODULE DirectoryVerification_proofs ----------------------
(***************************************************************************)
(* Theorems about the digests a verification observes, about what a PASS   *)
(* is true of, and about the verdict on a directory nobody writes to.      *)
(***************************************************************************)
EXTENDS DirectoryVerification, SequenceTheorems, TLAPS

(* Sequences, and the paths in order *)

Sorts == INSTANCE FoldFacts WITH Op <- SortIn, Base <- Unsorted

\* The fold of the model, as the lemmas about folds know it.
LEMMA SortingIsFold == Sorting = Sorts!Fold(PathOrder)
BY DEF Sorting, Sorts!Fold, FoldLeft, Sorts!FoldLeft, MapThenFoldSet, Sorts!MapThenFoldSet,
       Max, Sorts!Max

\* Sequences and the sets of their elements.
LEMMA ToSetAppend ==
  ASSUME NEW S, NEW s \in Seq(S), NEW e \in S
  PROVE  Append(s, e) \in Seq(S) /\ ToSet(Append(s, e)) = ToSet(s) \cup {e}
<1> DEFINE r == Append(s, e)
<1>1. /\ r \in Seq(S) /\ Len(s) \in Nat
      /\ DOMAIN s = 1 .. Len(s) /\ DOMAIN r = 1 .. Len(s) + 1
      /\ \A i \in 1 .. Len(s) : r[i] = s[i]
      /\ r[Len(s) + 1] = e
  OBVIOUS
<1> HIDE DEF r
<1>2. \A i \in 1 .. Len(s) + 1 : i \in 1 .. Len(s) \/ i = Len(s) + 1
  BY <1>1
<1>3. ToSet(r) = ToSet(s) \cup {e}
  BY <1>1, <1>2 DEF ToSet
<1> QED
  BY <1>1, <1>3 DEF r

LEMMA ToSetTail ==
  ASSUME NEW S, NEW s \in Seq(S), s # <<>>
  PROVE  /\ Head(s) \in S /\ Tail(s) \in Seq(S) /\ ToSet(s) = {Head(s)} \cup ToSet(Tail(s))
         /\ Len(s) \in Nat \ {0} /\ Len(Tail(s)) = Len(s) - 1 /\ Head(s) = s[1]
         /\ \A k \in DOMAIN Tail(s) : Tail(s)[k] = s[k + 1]
<1> DEFINE r == Tail(s)
<1>1. /\ r \in Seq(S) /\ Len(s) \in Nat \ {0} /\ Len(r) = Len(s) - 1
      /\ DOMAIN s = 1 .. Len(s) /\ DOMAIN r = 1 .. Len(r)
      /\ Head(s) = s[1] /\ s[1] \in S
      /\ \A k \in 1 .. Len(r) : r[k] = s[k + 1]
  OBVIOUS
<1> HIDE DEF r
<1>2. \A k \in 1 .. Len(s) : k = 1 \/ (k - 1 \in 1 .. Len(r) /\ r[k - 1] = s[k])
  BY <1>1
<1>3. \A k \in 1 .. Len(r) : k + 1 \in 1 .. Len(s) /\ r[k] = s[k + 1]
  BY <1>1
<1>4. 1 \in 1 .. Len(s)
  BY <1>1
<1>5. ToSet(s) \subseteq {Head(s)} \cup ToSet(r)
  BY <1>1, <1>2 DEF ToSet
<1>6. {Head(s)} \cup ToSet(r) \subseteq ToSet(s)
  BY <1>1, <1>3, <1>4 DEF ToSet
<1> QED
  BY <1>1, <1>5, <1>6 DEF r

LEMMA EmptySequence ==
  /\ <<>> \in Seq(Paths) /\ <<>> \in Seq(Data) /\ <<>> # None /\ Len(<<>>) = 0
  /\ DOMAIN <<>> = {} /\ ToSet(<<>>) = {}
<1>1. <<>> \in Seq(Paths) /\ <<>> \in Seq(Data) /\ Len(<<>>) = 0 /\ DOMAIN <<>> = {}
  BY EmptySeq
<1> QED
  BY <1>1, DataAssumption DEF ToSet

\* The first n paths.
First(n) == SubSeq(PathOrder, 1, n)

LEMMA FirstPaths ==
  ASSUME NEW n \in Nat, n + 1 <= Len(PathOrder)
  PROVE  /\ First(n) \in Seq(Paths) /\ PathOrder[n + 1] \in Paths
         /\ First(n + 1) = Append(First(n), PathOrder[n + 1])
BY PathsAssumption DEF First

\* A set of paths sorted is a sequence of them all.
LEMMA SortedPaths ==
  ASSUME NEW S \in SUBSET Paths
  PROVE  Sorted(S) \in Seq(S) /\ ToSet(Sorted(S)) = S
<1> DEFINE Sorts1(n) == Sorts!Fold(First(n))
           Right(n) == /\ Sorts1(n) \in [SUBSET Paths -> Seq(Paths)]
                       /\ Sorts1(n)[S] \in Seq(S)
                       /\ ToSet(Sorts1(n)[S]) = S \cap {PathOrder[i] : i \in 1 .. n}
           Wrong == {n \in 0 .. Len(PathOrder) : ~Right(n)}
<1>1. Right(0)
  <2>1. First(0) = <<>>
    BY PathsAssumption DEF First
  <2>2. Sorts1(0) = Unsorted
    BY <2>1, Sorts!FoldEmpty
  <2>3. Sorts1(0) \in [SUBSET Paths -> Seq(Paths)] /\ Sorts1(0)[S] = <<>>
    <3>1. <<>> \in Seq(Paths)
      OBVIOUS
    <3>2. Unsorted \in [SUBSET Paths -> Seq(Paths)] /\ Unsorted[S] = <<>>
      BY <3>1 DEF Unsorted
    <3> HIDE DEF Sorts1
    <3> QED
      BY <2>2, <3>2
  <2> HIDE DEF Sorts1
  <2>4. ToSet(<<>>) = {} /\ 1 .. 0 = {} /\ <<>> \in Seq(S)
    BY DEF ToSet
  <2> QED
    BY <2>3, <2>4
<1>2. ASSUME NEW n \in Nat, n + 1 <= Len(PathOrder), Right(n) PROVE Right(n + 1)
  <2> DEFINE p == PathOrder[n + 1]
             f == Sorts1(n)
  <2>1. Sorts1(n + 1) = SortIn(f, p)
    BY <1>2, FirstPaths, Sorts!FoldAppend
  <2>2. p \in Paths /\ f \in [SUBSET Paths -> Seq(Paths)] /\ f[S] \in Seq(S)
        /\ ToSet(f[S]) = S \cap {PathOrder[i] : i \in 1 .. n}
    BY <1>2, FirstPaths
  <2>3. {PathOrder[i] : i \in 1 .. n + 1} = {PathOrder[i] : i \in 1 .. n} \cup {p}
    BY <1>2
  <2> HIDE DEF p, f, Sorts1
  <2>4. SortIn(f, p) \in [SUBSET Paths -> Seq(Paths)]
    BY <2>2 DEF SortIn
  <2>5. SortIn(f, p)[S] = IF p \in S THEN Append(f[S], p) ELSE f[S]
    BY DEF SortIn
  <2>6. CASE p \in S
    <3>1. Append(f[S], p) \in Seq(S) /\ ToSet(Append(f[S], p)) = ToSet(f[S]) \cup {p}
      BY <2>2, <2>6, ToSetAppend
    <3> QED
      BY <2>1, <2>2, <2>3, <2>4, <2>5, <2>6, <3>1
  <2>7. CASE p \notin S
    BY <2>1, <2>2, <2>3, <2>4, <2>5, <2>7
  <2> QED
    BY <2>6, <2>7
<1>3. Wrong = {}
  <2> SUFFICES ASSUME Wrong # {} PROVE FALSE
    OBVIOUS
  <2> HIDE DEF Right
  <2>1. PICK n \in Wrong : \A m \in Wrong : n <= m
    <3>1. Wrong \subseteq Nat
      OBVIOUS
    <3> HIDE DEF Wrong
    <3> QED
      BY <3>1, Sorts!LeastNatural
  <2>2. n \in Nat /\ n # 0 /\ n <= Len(PathOrder) /\ n - 1 \in Nat
    BY <1>1, <2>1
  <2>3. Right(n - 1)
    BY <2>1, <2>2, PathsAssumption
  <2>4. Right((n - 1) + 1)
    BY <1>2, <2>2, <2>3
  <2> QED
    BY <2>1, <2>2, <2>4
<1>4. Right(Len(PathOrder))
  <2> HIDE DEF Right
  <2> QED
    BY <1>3, PathsAssumption
<1>5. First(Len(PathOrder)) = PathOrder /\ Paths = {PathOrder[i] : i \in 1 .. Len(PathOrder)}
  BY PathsAssumption DEF First, Paths, ToSet
<1>6. Sorted(S) = Sorts1(Len(PathOrder))[S]
  BY <1>5, SortingIsFold DEF Sorted
<1> QED
  BY <1>4, <1>5, <1>6
-----------------------------------------------------------------------------
(* What findings are made of *)

\* What any step does to the observed digests and to what findings are made of.
ObservationStep ==
    \/ /\ observed' = observed
       /\ judged' = judged
    \/ \E p, data :
        /\ p \in DOMAIN observed => observed[p] = data
        /\ observed' = SetDefault(observed, p, data)
        /\ judged' = judged \/ judged' = judged \cup {<<p, data>>}

LEMMA Observation == ASSUME [Next]_vars PROVE ObservationStep
<1>1. CASE \E f \in Folders : ListNames(f)
  BY <1>1 DEF ListNames, ObservationStep
<1>2. CASE \E p \in Paths : LstatMember(p) \/ StatMember(p)
  BY <1>2 DEF LstatMember, StatMember, ObservationStep
<1>3. CASE EndInventory
  BY <1>3 DEF EndInventory, ObservationStep
<1>4. CASE OpenFile
  BY <1>4 DEF OpenFile, ReadFails, ObservationStep
<1>5. CASE ReadData
  BY <1>5 DEF ReadData, ObservationStep
<1>6. CASE FinishRead
  <2>1. CASE ReadFails
    BY <2>1 DEF ReadFails, ObservationStep
  <2>2. CASE ~ReadFails
    <3>1. /\ ReadAccepted(Head(todo), fd.data)
          /\ observed' = SetDefault(observed, Head(todo), fd.data)
          /\ \/ TakeManifest(Head(todo), fd.data)
             \/ TakeHash(Head(todo), fd.data)
             \/ TakeReading(Head(todo), fd.data)
             \/ TakeFinal
      BY <1>6, <2>2 DEF FinishRead
    <3>2. judged' = judged \/ judged' = judged \cup {<<Head(todo), fd.data>>}
      BY <3>1 DEF TakeManifest, TakeHash, TakeReading, TakeFinal, contract
    <3> QED
      BY <3>1, <3>2 DEF ReadAccepted, ObservationStep
  <2> QED
    BY <2>1, <2>2
<1>7. CASE NextCheck
  BY <1>7 DEF NextCheck, ObservationStep
<1>8. CASE Write \/ Put \/ Unlink \/ PutBack
  BY <1>8 DEF Write, Put, Unlink, PutBack, Mutate, ObservationStep
<1>9. CASE UNCHANGED vars
  BY <1>9 DEF vars, ObservationStep
<1> QED
  BY <1>1, <1>2, <1>3, <1>4, <1>5, <1>6, <1>7, <1>8, <1>9 DEF Next, Verify

(* Every finding was made of the contents the snapshot identity attests    *)
(* for its path, at any point of a verification.                           *)
THEOREM FindingsAreObserved == Spec => []FindingsMatchSnapshot
<1>1. Init => FindingsMatchSnapshot
  BY DEF Init, FindingsMatchSnapshot
<1>2. FindingsMatchSnapshot /\ [Next]_vars => FindingsMatchSnapshot'
  <2> SUFFICES ASSUME FindingsMatchSnapshot, [Next]_vars
               PROVE  FindingsMatchSnapshot'
    OBVIOUS
  <2>1. ObservationStep
    BY Observation
  <2>2. CASE observed' = observed /\ judged' = judged
    BY <2>2 DEF FindingsMatchSnapshot
  <2>3. ASSUME NEW p, NEW data,
               p \in DOMAIN observed => observed[p] = data,
               observed' = SetDefault(observed, p, data),
               judged' = judged \/ judged' = judged \cup {<<p, data>>}
        PROVE  FindingsMatchSnapshot'
    <3>1. /\ DOMAIN observed' = DOMAIN observed \cup {p}
          /\ \A q \in DOMAIN observed : observed'[q] = observed[q]
          /\ observed'[p] = data
      BY <2>3 DEF SetDefault
    <3>2. \A j \in judged : j[1] \in DOMAIN observed' /\ observed'[j[1]] = j[2]
      BY <3>1 DEF FindingsMatchSnapshot
    <3>3. <<p, data>>[1] = p /\ <<p, data>>[2] = data
      OBVIOUS
    <3> QED
      BY <2>3, <3>1, <3>2, <3>3 DEF FindingsMatchSnapshot
  <2> QED
    BY <2>1, <2>2, <2>3 DEF ObservationStep
<1> QED
  BY <1>1, <1>2, PTL DEF Spec

-----------------------------------------------------------------------------
(* A PASS is coherent: IdentityInv *)

\* What a verification knows does not change with what it does not touch.
Known == <<profile, anchor, stage, snapshots, todo, observed, manifest, check, readings, failed,
           report>>

LEMMA KnownKept ==
  ASSUME IdentityInv, UNCHANGED Known
  PROVE  ManifestInv' /\ HashesInv' /\ ChecksInv' /\ ReadingsInv' /\ RereadInv'
<1> USE DEF Known, IdentityInv
<1>1. Clean' = Clean
  BY DEF Clean
<1>2. ManifestInv'
  BY <1>1 DEF ManifestInv, Anchored, Covered
<1>3. HashesInv'
  BY <1>1 DEF HashesInv, HashAccepted
<1>4. ChecksInv'
  BY <1>1 DEF ChecksInv, CheckHolds
<1>5. ReadingsInv'
  BY DEF ReadingsInv, CheckReads
<1>6. RereadInv'
  BY DEF RereadInv
<1> QED
  BY <1>2, <1>3, <1>4, <1>5, <1>6

\* Nothing is claimed of an artifact that was rejected.
LEMMA Rejected ==
  ASSUME IdentityInv, stage' = "end", report' \in {"fail", "raised"}, fd' = None,
         DOMAIN observed' \subseteq DOMAIN snapshots',
         \A p \in DOMAIN observed' : Size[observed'[p]] <= MaxFileBytes,
         readings' # None
  PROVE  ControlInv' /\ ManifestInv' /\ HashesInv' /\ ChecksInv' /\ ReadingsInv' /\ RereadInv'
<1>1. ~Clean'
  BY DEF Clean
<1>2. ControlInv'
  BY DEF IdentityInv, ControlInv
<1> QED
  BY <1>1, <1>2 DEF ManifestInv, HashesInv, ChecksInv, ReadingsInv, RereadInv

\* The writers leave the verifier's state alone, and files where they are.
LEMMA WriterShape ==
  ASSUME ShapeInv, Write \/ Put \/ Unlink \/ PutBack
  PROVE  /\ inodes' \in Seq(Inodes)
         /\ DOMAIN inodes \subseteq DOMAIN inodes'
         /\ dir' \in [Paths -> {0} \cup DOMAIN inodes']
         /\ mutations' = mutations + 1
         /\ UNCHANGED <<Known, scan, fd, atStart, atScan, judged>> /\ report = "none"
<1>0. /\ mutations' = mutations + 1 /\ report = "none"
      /\ UNCHANGED <<Known, scan, fd, atStart, atScan, judged>>
  BY DEF Write, Put, Unlink, PutBack, Mutate, arguments, contract, history, Known
<1>1. CASE Write
  <2> DEFINE New(d, t) == [data |-> d, stamp |-> t, kind |-> "regular"]
  <2>0. PICK i \in DOMAIN inodes : \E d \in Data : \E t \in Stamps(inodes[i].stamp) :
          inodes' = [inodes EXCEPT ![i] = New(d, t)]
    BY <1>1 DEF Write
  <2>1. PICK d \in Data : \E t \in Stamps(inodes[i].stamp) : inodes' = [inodes EXCEPT ![i] = New(d, t)]
    BY <2>0
  <2>2. PICK t \in Stamps(inodes[i].stamp) : inodes' = [inodes EXCEPT ![i] = New(d, t)]
    BY <2>1
  <2>3. t \in Nat
    <3>1. inodes[i] \in Inodes
      BY DEF ShapeInv
    <3> QED
      BY <2>2, <3>1 DEF Stamps, ShapeInv, Inodes
  <2>4. New(d, t) \in Inodes
    BY <2>1, <2>3 DEF Inodes, Kinds
  <2> HIDE DEF New
  <2>5. inodes' \in Seq(Inodes) /\ DOMAIN inodes' = DOMAIN inodes
    BY <2>2, <2>4 DEF ShapeInv
  <2> QED
    BY <1>0, <1>1, <2>5 DEF Write, ShapeInv
<1>2. CASE Put
  <2>1. PICK p \in Paths, d \in Data, k \in Kinds :
          /\ inodes' = Append(inodes, [data |-> d, stamp |-> mutations + 1, kind |-> k])
          /\ dir' = [dir EXCEPT ![p] = Len(inodes) + 1]
    BY <1>2 DEF Put
  <2>2. [data |-> d, stamp |-> mutations + 1, kind |-> k] \in Inodes
    BY DEF Inodes, ShapeInv
  <2>3. /\ inodes' \in Seq(Inodes) /\ DOMAIN inodes' = 1 .. Len(inodes) + 1
        /\ DOMAIN inodes = 1 .. Len(inodes) /\ Len(inodes) \in Nat
    BY <2>1, <2>2 DEF ShapeInv
  <2>4. Len(inodes) + 1 \in DOMAIN inodes' /\ DOMAIN inodes \subseteq DOMAIN inodes'
    BY <2>3
  <2> QED
    BY <1>0, <2>1, <2>3, <2>4 DEF ShapeInv
<1>3. CASE Unlink
  BY <1>0, <1>3 DEF Unlink, ShapeInv, Present
<1>4. CASE PutBack
  BY <1>0, <1>4 DEF PutBack, ShapeInv
<1> QED
  BY <1>1, <1>2, <1>3, <1>4

\* One lemma for each action of Next.
LEMMA WriterIdentity ==
  ASSUME IdentityInv, Write \/ Put \/ Unlink \/ PutBack
  PROVE  IdentityInv'
<1>1. ShapeInv'
  BY WriterShape DEF IdentityInv, ShapeInv, Known
<1>2. ControlInv'
  BY WriterShape DEF IdentityInv, ControlInv, Known
<1> QED
  BY <1>1, <1>2, WriterShape, KnownKept DEF IdentityInv

LEMMA ListIdentity ==
  ASSUME IdentityInv, NEW f, ListNames(f)
  PROVE  IdentityInv'
<1>1. PICK found : scan' = [scan EXCEPT !.folders = (@ \ {f}) \cup found, !.left = In(f)]
  BY DEF ListNames
<1>2. UNCHANGED <<Known, directory, fd>> /\ stage \in {"open", "drift", "final"}
  BY DEF ListNames, Known, arguments, contract
<1>3. /\ scan = [folders |-> scan.folders, left |-> scan.left, member |-> scan.member,
                 files |-> scan.files]
      /\ scan.left \cup scan.member \cup DOMAIN scan.files \subseteq Paths
      /\ In(f) \subseteq Paths
  BY DEF IdentityInv, ShapeInv, In, Present
<1>4. scan' = [folders |-> (scan.folders \ {f}) \cup found, left |-> In(f),
               member |-> scan.member, files |-> scan.files]
  BY <1>1, <1>3
<1>5. ShapeInv'
  BY <1>2, <1>3, <1>4 DEF IdentityInv, ShapeInv, Known, directory
<1>6. ControlInv'
  BY <1>2 DEF IdentityInv, ControlInv, Known
<1> QED
  BY <1>2, <1>5, <1>6, KnownKept DEF IdentityInv

\* A step that goes on with the inventory, or ends the verification.
LEMMA MemberIdentity ==
  ASSUME IdentityInv, report = "none", scan # NoScan,
         UNCHANGED <<directory, arguments, snapshots, todo, fd, observed, contract>>,
         \/ /\ UNCHANGED <<stage, failed, report>>
            /\ scan' = [folders |-> scan'.folders, left |-> scan'.left, member |-> scan'.member,
                        files |-> scan'.files]
            /\ scan'.left \cup scan'.member \cup DOMAIN scan'.files \subseteq Paths
         \/ stage' = "end" /\ report' \in {"fail", "raised"} /\ UNCHANGED scan
  PROVE  IdentityInv'
<1>0. /\ UNCHANGED <<directory, profile, anchor, snapshots, todo, fd, observed, manifest, check,
                     readings>>
      /\ fd = None /\ readings # None /\ stage \in {"open", "drift", "final"}
  BY DEF arguments, contract, IdentityInv, ControlInv
<1>1. CASE UNCHANGED <<stage, failed, report>>
  <2>1. ShapeInv'
    BY <1>0, <1>1 DEF IdentityInv, ShapeInv, directory
  <2>2. ControlInv'
    BY <1>0, <1>1 DEF IdentityInv, ControlInv
  <2>3. UNCHANGED Known
    BY <1>0, <1>1 DEF Known
  <2> QED
    BY <2>1, <2>2, <2>3, KnownKept DEF IdentityInv
<1>2. CASE stage' = "end" /\ report' \in {"fail", "raised"} /\ UNCHANGED scan
  <2>1. ShapeInv'
    BY <1>0, <1>2 DEF IdentityInv, ShapeInv, Stages, directory
  <2> QED
    BY <1>0, <1>2, <2>1, Rejected DEF IdentityInv, ControlInv
<1> QED
  BY <1>1, <1>2

\* The next state of the inventory while a member is measured.
LEMMA LstatScan ==
  ASSUME ShapeInv, NEW p, scan' = [scan EXCEPT !.left = @ \ {p}, !.member = {p}]
  PROVE  scan' = [folders |-> scan.folders, left |-> scan.left \ {p}, member |-> {p},
                  files |-> scan.files]
<1>1. scan = [folders |-> scan.folders, left |-> scan.left, member |-> scan.member,
              files |-> scan.files]
  BY DEF ShapeInv
<1> QED
  BY <1>1

LEMMA StatScan ==
  ASSUME ShapeInv, NEW p, NEW files, scan' = [scan EXCEPT !.member = @ \ {p}, !.files = files]
  PROVE  scan' = [folders |-> scan.folders, left |-> scan.left, member |-> scan.member \ {p},
                  files |-> files]
<1>1. scan = [folders |-> scan.folders, left |-> scan.left, member |-> scan.member,
              files |-> scan.files]
  BY DEF ShapeInv
<1> QED
  BY <1>1

LEMMA LstatIdentity ==
  ASSUME IdentityInv, NEW p \in Paths, LstatMember(p)
  PROVE  IdentityInv'
<1>0. /\ UNCHANGED <<directory, arguments, snapshots, todo, fd, observed, contract>>
      /\ report = "none" /\ p \in scan.left
  BY DEF LstatMember
<1>1. scan # NoScan
  BY <1>0 DEF NoScan
<1>2. CASE UNCHANGED <<stage, failed, report>>
           /\ scan' = [scan EXCEPT !.left = @ \ {p}, !.member = {p}]
  <2>1. scan' = [folders |-> scan.folders, left |-> scan.left \ {p}, member |-> {p},
                 files |-> scan.files]
    BY <1>2, LstatScan DEF IdentityInv
  <2>2. /\ scan' = [folders |-> scan'.folders, left |-> scan'.left, member |-> scan'.member,
                    files |-> scan'.files]
        /\ scan'.left \cup scan'.member \cup DOMAIN scan'.files \subseteq Paths
    BY <2>1 DEF IdentityInv, ShapeInv
  <2> QED
    BY <1>0, <1>1, <1>2, <2>2, MemberIdentity
<1>3. CASE stage' = "end" /\ report' \in {"fail", "raised"} /\ UNCHANGED scan
  BY <1>0, <1>1, <1>3, MemberIdentity
<1> QED
  BY <1>2, <1>3 DEF LstatMember, Raise, Reject

LEMMA StatIdentity ==
  ASSUME IdentityInv, NEW p \in Paths, StatMember(p)
  PROVE  IdentityInv'
<1>0. /\ UNCHANGED <<directory, arguments, snapshots, todo, fd, observed, contract>>
      /\ report = "none" /\ p \in scan.member
  BY DEF StatMember
<1>1. scan # NoScan
  BY <1>0 DEF NoScan
<1>2. ASSUME NEW i, UNCHANGED <<stage, failed, report>>,
             scan' = [scan EXCEPT !.member = @ \ {p}, !.files = SetDefault(@, p, Metadata(i))]
      PROVE  IdentityInv'
  <2> DEFINE files == SetDefault(scan.files, p, Metadata(i))
  <2>1. DOMAIN files = DOMAIN scan.files \cup {p}
    BY DEF SetDefault
  <2>2. scan' = [scan EXCEPT !.member = @ \ {p}, !.files = files]
    BY <1>2
  <2> HIDE DEF files
  <2>3. scan' = [folders |-> scan.folders, left |-> scan.left, member |-> scan.member \ {p},
                 files |-> files]
    BY <2>2, StatScan DEF IdentityInv
  <2>4. /\ scan' = [folders |-> scan'.folders, left |-> scan'.left, member |-> scan'.member,
                    files |-> scan'.files]
        /\ scan'.left \cup scan'.member \cup DOMAIN scan'.files \subseteq Paths
    BY <2>1, <2>3 DEF IdentityInv, ShapeInv
  <2> QED
    BY <1>0, <1>1, <1>2, <2>4, MemberIdentity
<1>3. CASE stage' = "end" /\ report' \in {"fail", "raised"} /\ UNCHANGED scan
  BY <1>0, <1>1, <1>3, MemberIdentity
<1> QED
  BY <1>2, <1>3 DEF StatMember, Raise, Reject

\* What was observed stays, and the phases that follow the checks keep what they found.
Grows == \A p \in DOMAIN observed : p \in DOMAIN observed' /\ observed'[p] = observed[p]

\* A check that held of what was observed holds when more is.
LEMMA CheckKept ==
  ASSUME NEW n, CheckHolds(n), Grows, UNCHANGED <<profile, manifest>>,
         manifest.checks[n].reads \in Seq(Paths)
  PROVE  CheckHolds(n)'
<1> DEFINE reads == manifest.checks[n].reads
           then == [k \in DOMAIN reads |-> observed[reads[k]]]
           now == [k \in DOMAIN reads |-> observed'[reads[k]]]
<1>1. CASE profile \in manifest.checks[n].profiles
  <2>1. ToSet(reads) \subseteq DOMAIN observed /\ then \in manifest.checks[n].holds
    BY <1>1 DEF CheckHolds
  <2>2. \A k \in DOMAIN reads : reads[k] \in ToSet(reads)
    BY DEF ToSet
  <2>3. ToSet(reads) \subseteq DOMAIN observed'
    BY <2>1 DEF Grows
  <2>4. then = now
    BY <2>1, <2>2 DEF Grows
  <2> QED
    BY <2>1, <2>3, <2>4 DEF CheckHolds
<1>2. CASE profile \notin manifest.checks[n].profiles
  BY <1>2 DEF CheckHolds
<1> QED
  BY <1>1, <1>2

\* The manifest in hand is one that a file's contents parse to.
LEMMA ManifestShape ==
  ASSUME IdentityInv, stage \notin {"open", "manifest", "end"} \/ report = "pass"
  PROVE  /\ manifest.checks \in Seq(ToSet(manifest.checks))
         /\ \A n \in DOMAIN manifest.checks :
               /\ manifest.checks[n].reads \in Seq(Paths)
               /\ manifest.checks[n].reads \in Seq(DOMAIN manifest.files)
<1>1. /\ ManifestPath \in DOMAIN observed /\ manifest = Parse[observed[ManifestPath]]
      /\ manifest # None
  BY DEF IdentityInv, ManifestInv
<1>2. observed[ManifestPath] \in Data
  BY <1>1 DEF IdentityInv, ShapeInv
<1>3. /\ manifest.checks \in Seq(ToSet(manifest.checks)) /\ DOMAIN manifest.files \subseteq Paths
      /\ \A n \in DOMAIN manifest.checks : manifest.checks[n].reads \in Seq(DOMAIN manifest.files)
  BY <1>1, <1>2, ContractsAssumption
<1>4. ASSUME NEW S, S \subseteq Paths, NEW s \in Seq(S) PROVE s \in Seq(Paths)
  BY <1>4
<1> QED
  BY <1>3, <1>4

\* The stages after the checks, and a PASS, find nothing new.
LEMMA Later ==
  ASSUME IdentityInv, Grows, stage \in {"drift", "reread", "final"}, report = "none",
         \/ stage' \in {"drift", "reread", "final"} /\ report' = "none"
         \/ stage' = "end" /\ report' = "pass" /\ ~failed,
         UNCHANGED <<profile, anchor, snapshots, manifest, check, failed>>
  PROVE  ManifestInv' /\ HashesInv' /\ ChecksInv' /\ ReadingsInv'
<1>1. ManifestPath \in DOMAIN observed
  BY DEF IdentityInv, ManifestInv
<1>2. ManifestPath \in DOMAIN observed' /\ observed'[ManifestPath] = observed[ManifestPath]
  BY <1>1 DEF Grows
<1>3. Clean' => Clean
  BY DEF Clean
<1>4. ManifestInv'
  BY <1>2, <1>3 DEF IdentityInv, ManifestInv, Anchored, Covered, Clean
<1>5. HashesInv'
  BY <1>3 DEF IdentityInv, HashesInv, HashAccepted, Grows
<1>6. ChecksInv'
  <2>1. ASSUME Clean', NEW n \in DOMAIN manifest.checks, n < check
        PROVE  CheckHolds(n)'
    BY <1>3, <2>1, ManifestShape, CheckKept DEF IdentityInv, ChecksInv
  <2> QED
    BY <2>1 DEF IdentityInv, ChecksInv
<1>7. ReadingsInv'
  BY DEF ReadingsInv
<1> QED
  BY <1>4, <1>5, <1>6, <1>7

LEMMA EndIdentity ==
  ASSUME IdentityInv, EndInventory
  PROVE  IdentityInv'
<1>0. /\ UNCHANGED <<directory, profile, anchor, fd, observed, contract>>
      /\ fd = None /\ todo = <<>> /\ readings # None /\ stage \in {"open", "drift", "final"}
      /\ scan' = NoScan /\ report = "none"
  <2>1. scan # NoScan /\ report = "none" /\ scan' = NoScan
    BY DEF EndInventory, NoScan
  <2> QED
    BY <2>1 DEF EndInventory, arguments, IdentityInv, ControlInv, Stages, ShapeInv
<1>1. ASSUME Reject, UNCHANGED <<snapshots, todo>> PROVE IdentityInv'
  <2>1. ShapeInv'
    BY <1>0, <1>1 DEF IdentityInv, ShapeInv, Reject, Stages, NoScan, directory, contract
  <2> QED
    BY <1>0, <1>1, <2>1, Rejected DEF IdentityInv, ShapeInv, ControlInv, Reject, contract
<1>2. ASSUME WithinLimits(scan.files), stage = "open", snapshots' = scan.files, stage' = "manifest",
             todo' = <<ManifestPath>>, UNCHANGED <<failed, report>>
      PROVE  IdentityInv'
  <2>1. <<ManifestPath>> \in Seq(Paths) /\ Cardinality(DOMAIN snapshots') <= MaxEntries
    BY <1>2, PathsAssumption DEF WithinLimits
  <2>2. ShapeInv'
    BY <1>0, <1>2, <2>1 DEF IdentityInv, ShapeInv, Stages, NoScan, directory, contract
  <2>3. ControlInv'
    BY <1>0, <1>2, <2>1 DEF IdentityInv, ControlInv, NoScan, contract
  <2>4. ~Clean'
    BY <1>2 DEF Clean
  <2>5. ManifestInv' /\ HashesInv' /\ ChecksInv' /\ ReadingsInv' /\ RereadInv'
    BY <1>0, <1>2, <2>4
       DEF IdentityInv, ManifestInv, HashesInv, ChecksInv, ReadingsInv, RereadInv, contract
  <2> QED
    BY <2>2, <2>3, <2>5 DEF IdentityInv
<1>3. ASSUME stage = "drift", stage' = "reread", todo' = Sorted(DOMAIN snapshots),
             UNCHANGED <<snapshots, failed, report>>
      PROVE  IdentityInv'
  <2>1. Sorted(DOMAIN snapshots) \in Seq(Paths) /\ ToSet(Sorted(DOMAIN snapshots)) = DOMAIN snapshots
    <3>1. Seq(DOMAIN snapshots) \subseteq Seq(Paths) /\ DOMAIN snapshots \in SUBSET Paths
      BY DEF IdentityInv, ShapeInv
    <3> QED
      BY <3>1, SortedPaths
  <2>2. ShapeInv'
    BY <1>0, <1>3, <2>1 DEF IdentityInv, ShapeInv, Stages, NoScan, directory, contract
  <2>3. ControlInv'
    BY <1>0, <1>3, <2>1 DEF IdentityInv, ControlInv, NoScan, contract
  <2>4. ManifestInv' /\ HashesInv' /\ ChecksInv' /\ ReadingsInv'
    BY <1>0, <1>3, Later DEF Grows, contract
  <2>5. RereadInv'
    BY <1>0, <1>3, <2>1 DEF RereadInv
  <2> QED
    BY <2>2, <2>3, <2>4, <2>5 DEF IdentityInv
<1>4. ASSUME stage = "final", stage' = "end", report' = IF failed THEN "fail" ELSE "pass",
             UNCHANGED <<snapshots, todo, failed>>
      PROVE  IdentityInv'
  <2>1. ShapeInv'
    BY <1>0, <1>4 DEF IdentityInv, ShapeInv, Stages, NoScan, directory, contract
  <2>2. CASE failed
    BY <1>0, <1>4, <2>1, <2>2, Rejected DEF IdentityInv, ShapeInv, ControlInv, contract
  <2>3. CASE ~failed
    <3>1. ControlInv'
      BY <1>0, <1>4, <2>3 DEF IdentityInv, ControlInv, NoScan, contract
    <3>2. ManifestInv' /\ HashesInv' /\ ChecksInv' /\ ReadingsInv'
      BY <1>0, <1>4, <2>3, Later DEF Grows, contract
    <3>3. RereadInv'
      BY <1>0, <1>4 DEF IdentityInv, RereadInv
    <3> QED
      BY <2>1, <3>1, <3>2, <3>3 DEF IdentityInv
  <2> QED
    BY <2>2, <2>3
<1> QED
  BY <1>1, <1>2, <1>3, <1>4 DEF EndInventory

\* A failed read ends a check, or the verification.
LEMMA FailsIdentity ==
  ASSUME IdentityInv, ReadFails, report = "none", todo # <<>>,
         UNCHANGED <<directory, profile, anchor, scan, snapshots>>
  PROVE  IdentityInv'
<1>0. UNCHANGED <<observed, manifest, check>> /\ fd' = None
  BY DEF ReadFails
<1>1. CASE stage = "checks" /\ failed' = TRUE /\ todo' = <<>> /\ readings' = None
           /\ UNCHANGED <<stage, report>>
  <2>1. <<>> \in Seq(Paths)
    OBVIOUS
  <2>2. ShapeInv'
    BY <1>0, <1>1, <2>1 DEF IdentityInv, ShapeInv, directory
  <2>3. ControlInv'
    BY <1>0, <1>1 DEF IdentityInv, ControlInv
  <2>4. ~Clean'
    BY <1>1 DEF Clean
  <2>5. ManifestInv' /\ HashesInv' /\ ChecksInv' /\ ReadingsInv' /\ RereadInv'
    BY <1>0, <1>1, <2>4
       DEF IdentityInv, ManifestInv, HashesInv, ChecksInv, ReadingsInv, RereadInv
  <2> QED
    BY <2>2, <2>3, <2>5 DEF IdentityInv
<1>2. CASE stage # "checks" /\ Reject /\ UNCHANGED <<todo, readings>>
  <2>1. ShapeInv'
    BY <1>0, <1>2 DEF IdentityInv, ShapeInv, Reject, Stages, directory
  <2> QED
    BY <1>0, <1>2, <2>1, Rejected DEF IdentityInv, ShapeInv, ControlInv, Reject
<1> QED
  BY <1>1, <1>2 DEF ReadFails

LEMMA OpenIdentity ==
  ASSUME IdentityInv, OpenFile
  PROVE  IdentityInv'
<1>0. /\ UNCHANGED <<directory, profile, anchor, scan, snapshots>>
      /\ report = "none" /\ todo # <<>> /\ Head(todo) \in Paths
  BY DEF OpenFile, arguments, Reading, IdentityInv, ShapeInv
<1>1. ASSUME Head(todo) \in DOMAIN snapshots, dir[Head(todo)] # 0,
             fd' = [ino |-> dir[Head(todo)], data |-> None],
             UNCHANGED <<stage, todo, observed, contract, failed, report>>
      PROVE  IdentityInv'
  <2>1. dir[Head(todo)] \in DOMAIN inodes
    BY <1>0, <1>1 DEF IdentityInv, ShapeInv
  <2>2. ShapeInv'
    BY <1>0, <1>1, <2>1 DEF IdentityInv, ShapeInv, directory, contract
  <2>3. ControlInv'
    BY <1>0, <1>1 DEF IdentityInv, ControlInv, contract
  <2>4. UNCHANGED Known
    BY <1>0, <1>1 DEF Known, contract
  <2> QED
    BY <2>2, <2>3, <2>4, KnownKept DEF IdentityInv
<1> QED
  BY <1>0, <1>1, FailsIdentity DEF OpenFile, Unchanged, Blocks

LEMMA ReadDataIdentity ==
  ASSUME IdentityInv, ReadData
  PROVE  IdentityInv'
<1>0. /\ UNCHANGED <<Known, directory, scan>> /\ fd # None
      /\ fd' = [fd EXCEPT !.data = inodes[fd.ino].data]
  BY DEF ReadData, Known, arguments, contract
<1>1. fd.ino \in DOMAIN inodes /\ inodes[fd.ino] \in Inodes
  BY <1>0 DEF IdentityInv, ShapeInv
<1>2. fd'.ino \in DOMAIN inodes /\ fd'.data \in Data
  BY <1>0, <1>1 DEF Inodes
<1>3. ShapeInv'
  BY <1>0, <1>2 DEF IdentityInv, ShapeInv, directory, Known
<1>4. ControlInv'
  BY <1>0 DEF IdentityInv, ControlInv, Known
<1> QED
  BY <1>0, <1>3, <1>4, KnownKept DEF IdentityInv

\* What an accepted read adds to the contents observed.
LEMMA Observes ==
  ASSUME IdentityInv, fd # None, fd.data # None, ReadAccepted(Head(todo), fd.data),
         observed' = SetDefault(observed, Head(todo), fd.data)
  PROVE  /\ fd.data \in Data /\ Size[fd.data] <= Limit /\ Size[fd.data] <= MaxFileBytes
         /\ DOMAIN observed' = DOMAIN observed \cup {Head(todo)}
         /\ observed'[Head(todo)] = fd.data
         /\ Grows
         /\ observed' \in [DOMAIN observed' -> Data]
         /\ \A p \in DOMAIN observed' : Size[observed'[p]] <= MaxFileBytes
<1> DEFINE p == Head(todo)
           d == fd.data
<1>1. d \in Data /\ Size[d] <= Limit /\ (p \in DOMAIN observed => observed[p] = d)
  BY DEF IdentityInv, ShapeInv, ReadAccepted
<1>2. Size[d] <= MaxFileBytes
  BY <1>1, DataAssumption, LimitsAssumption DEF Limit
<1>3. observed \in [DOMAIN observed -> Data] /\ \A q \in DOMAIN observed : Size[observed[q]] <= MaxFileBytes
  BY DEF IdentityInv, ShapeInv, ControlInv
<1> HIDE DEF p, d
<1>4. observed' = [q \in DOMAIN observed \cup {p} |-> IF q \in DOMAIN observed THEN observed[q] ELSE d]
  BY DEF SetDefault, p, d
<1>5. DOMAIN observed' = DOMAIN observed \cup {p} /\ observed'[p] = d
  BY <1>1, <1>4
<1>6. \A q \in DOMAIN observed : observed'[q] = observed[q]
  BY <1>4
<1>7. observed' \in [DOMAIN observed' -> Data]
  BY <1>1, <1>3, <1>4
<1>8. \A q \in DOMAIN observed' : Size[observed'[q]] <= MaxFileBytes
  BY <1>2, <1>3, <1>5, <1>6
<1> QED
  BY <1>1, <1>2, <1>5, <1>6, <1>7, <1>8 DEF Grows, p, d

LEMMA FinishIdentity ==
  ASSUME IdentityInv, FinishRead
  PROVE  IdentityInv'
<1> DEFINE p == Head(todo)
           d == fd.data
<1>0. /\ UNCHANGED <<directory, profile, anchor, scan, snapshots>>
      /\ fd # None /\ d # None
  BY DEF FinishRead, arguments
<1>a. /\ todo # <<>> /\ stage # "end" /\ report = "none" /\ p \in DOMAIN snapshots
      /\ p \in Paths /\ Tail(todo) \in Seq(Paths) /\ readings # None
  BY <1>0, ToSetTail DEF IdentityInv, ShapeInv, ControlInv
<1>1. CASE ReadFails
  BY <1>0, <1>1, <1>a, FailsIdentity
<1>2. ASSUME ReadAccepted(p, d), fd' = None, observed' = SetDefault(observed, p, d),
             \/ stage = "manifest" /\ TakeManifest(p, d)
             \/ stage = "hashes" /\ TakeHash(p, d)
             \/ stage = "checks" /\ TakeReading(p, d)
             \/ stage = "reread" /\ TakeFinal
      PROVE  IdentityInv'
  <2>0. /\ d \in Data /\ Size[d] <= Limit /\ Size[d] <= MaxFileBytes
        /\ DOMAIN observed' = DOMAIN observed \cup {p} /\ observed'[p] = d
        /\ Grows
        /\ observed' \in [DOMAIN observed' -> Data]
        /\ \A q \in DOMAIN observed' : Size[observed'[q]] <= MaxFileBytes
    BY <1>0, <1>2, Observes
  <2>a. DOMAIN observed' \subseteq DOMAIN snapshots
    BY <1>a, <2>0 DEF IdentityInv, ControlInv
  <2> HIDE DEF p, d
  <2>1. CASE stage = "manifest" /\ TakeManifest(p, d)
    <3>0. p = ManifestPath /\ todo = <<ManifestPath>>
      BY <2>1 DEF IdentityInv, ControlInv, p
    <3>1. ASSUME Reject, UNCHANGED <<todo, contract>> PROVE IdentityInv'
      <4>1. ShapeInv'
        BY <1>0, <1>2, <2>0, <3>1 DEF IdentityInv, ShapeInv, Reject, Stages, directory, contract
      <4> QED
        BY <1>0, <1>2, <1>a, <2>0, <2>a, <3>1, <4>1, Rejected
           DEF IdentityInv, Reject, contract
    <3>2. ASSUME Parse[d] # None, manifest' = Parse[d],
                 failed' = ~(Anchored(d) /\ Covered(Parse[d], DOMAIN snapshots)),
                 stage' = "hashes", todo' = Sorted(DOMAIN Parse[d].files \cap DOMAIN snapshots),
                 UNCHANGED <<check, readings, report>>
          PROVE  IdentityInv'
      <4> DEFINE S == DOMAIN Parse[d].files \cap DOMAIN snapshots
      <4>1. todo' \in Seq(Paths) /\ ToSet(todo') = S
        <5>1. S \in SUBSET Paths /\ Seq(S) \subseteq Seq(Paths)
          BY DEF IdentityInv, ShapeInv
        <5> QED
          BY <3>2, <5>1, SortedPaths
      <4>2. ShapeInv'
        BY <1>0, <1>2, <2>0, <3>2, <4>1 DEF IdentityInv, ShapeInv, Stages, directory
      <4>3. ControlInv'
        BY <1>0, <1>2, <1>a, <2>0, <2>1, <2>a, <3>2 DEF IdentityInv, ControlInv
      <4>4. Size[d] <= MaxManifestBytes
        BY <2>0, <2>1, DataAssumption, LimitsAssumption DEF Limit
      <4>5. ManifestInv'
        BY <1>0, <1>a, <2>0, <3>0, <3>2, <4>4 DEF IdentityInv, ManifestInv, Clean, Anchored, Covered
      <4>6. Clean' => DOMAIN Parse[d].files \subseteq DOMAIN snapshots
        BY <3>2 DEF Clean, Covered
      <4>7. HashesInv'
        BY <3>2, <4>1, <4>6 DEF HashesInv
      <4>8. ChecksInv'
        <5>1. check = 0 /\ report = "none"
          BY <1>a, <2>1 DEF IdentityInv, ChecksInv
        <5>2. \A n \in DOMAIN manifest'.checks : ~(n < 0)
          <6>1. Parse[d].checks \in Seq(ToSet(Parse[d].checks))
            BY <2>0, <3>2, ContractsAssumption
          <6> QED
            BY <3>2, <6>1
        <5> QED
          BY <3>2, <5>1, <5>2 DEF ChecksInv
      <4>9. ReadingsInv' /\ RereadInv'
        BY <1>a, <3>2 DEF ReadingsInv, RereadInv
      <4> QED
        BY <4>2, <4>3, <4>5, <4>7, <4>8, <4>9 DEF IdentityInv
    <3> QED
      BY <2>1, <3>1, <3>2 DEF TakeManifest
  <2>b. /\ ToSet(todo) = {p} \cup ToSet(Tail(todo)) /\ Len(todo) \in Nat \ {0}
        /\ Len(Tail(todo)) = Len(todo) - 1 /\ p = todo[1] /\ p = Head(todo)
        /\ \A k \in DOMAIN Tail(todo) : Tail(todo)[k] = todo[k + 1]
    BY <1>a, ToSetTail DEF IdentityInv, ShapeInv, p
  <2>2. CASE stage = "hashes" /\ TakeHash(p, d)
    <3>1. /\ failed' = (failed \/ ~HashAccepted(manifest.files[p], d))
          /\ todo' = Tail(todo) /\ UNCHANGED <<stage, manifest, check, readings, report>>
      BY <2>2 DEF TakeHash, contract
    <3>2. ShapeInv'
      BY <1>0, <1>2, <1>a, <2>0, <3>1 DEF IdentityInv, ShapeInv, directory
    <3>3. ControlInv'
      BY <1>0, <1>2, <1>a, <2>0, <2>2, <2>a, <3>1 DEF IdentityInv, ControlInv
    <3>4. Clean' => Clean /\ HashAccepted(manifest.files[p], d)
      BY <1>a, <3>1 DEF Clean
    <3>5. ManifestPath \in DOMAIN observed /\ observed'[ManifestPath] = observed[ManifestPath]
      BY <1>a, <2>0, <2>2 DEF IdentityInv, ManifestInv, Grows
    <3>6. ManifestInv'
      BY <1>0, <1>a, <2>0, <3>1, <3>4, <3>5 DEF IdentityInv, ManifestInv, Anchored, Covered
    <3>7. HashesInv'
      <4> SUFFICES ASSUME Clean', NEW q \in DOMAIN manifest.files
                   PROVE  \/ q \in ToSet(Tail(todo))
                          \/ q \in DOMAIN observed' /\ HashAccepted(manifest.files[q], observed'[q])
        BY <1>0, <2>2, <3>1 DEF HashesInv, HashAccepted
      <4>1. q \in ToSet(todo) \/ (q \in DOMAIN observed /\ HashAccepted(manifest.files[q], observed[q]))
        BY <2>2, <3>4 DEF IdentityInv, HashesInv
      <4> QED
        BY <2>0, <2>b, <3>4, <4>1 DEF Grows
    <3>8. ChecksInv'
      <4>1. check = 0 /\ \A n \in DOMAIN manifest.checks : ~(n < 0)
        BY <1>a, <2>2, ManifestShape DEF IdentityInv, ChecksInv
      <4> QED
        BY <1>a, <2>2, <3>1, <4>1 DEF ChecksInv
    <3>9. ReadingsInv' /\ RereadInv'
      BY <1>a, <2>2, <3>1 DEF ReadingsInv, RereadInv
    <3> QED
      BY <3>2, <3>3, <3>6, <3>7, <3>8, <3>9 DEF IdentityInv
  <2>3. CASE stage = "checks" /\ TakeReading(p, d)
    <3>1. /\ readings' = Append(readings, d)
          /\ todo' = Tail(todo) /\ UNCHANGED <<stage, manifest, check, failed, report>>
      BY <2>3 DEF TakeReading
    <3>2. /\ readings' \in Seq(Data) /\ readings' # None
          /\ Len(readings') = Len(readings) + 1 /\ readings'[Len(readings) + 1] = d
          /\ \A k \in DOMAIN readings : readings'[k] = readings[k]
          /\ DOMAIN readings = 1 .. Len(readings) /\ Len(readings) \in Nat
          /\ DOMAIN readings' = 1 .. Len(readings) + 1
      <4>1. readings \in Seq(Data)
        BY <1>a DEF IdentityInv, ShapeInv
      <4>2. ASSUME NEW r \in Seq(Data)
            PROVE  /\ Append(r, d) \in Seq(Data) /\ Len(Append(r, d)) = Len(r) + 1
                   /\ Append(r, d)[Len(r) + 1] = d
                   /\ \A k \in DOMAIN r : Append(r, d)[k] = r[k]
                   /\ DOMAIN r = 1 .. Len(r) /\ Len(r) \in Nat
                   /\ DOMAIN Append(r, d) = 1 .. Len(r) + 1
        BY <2>0
      <4> QED
        BY <3>1, <4>1, <4>2, DataAssumption
    <3>3. ShapeInv'
      BY <1>0, <1>2, <1>a, <2>0, <3>1, <3>2 DEF IdentityInv, ShapeInv, directory
    <3>4. ControlInv'
      BY <1>0, <1>2, <1>a, <2>0, <2>3, <2>a, <3>1, <3>2 DEF IdentityInv, ControlInv
    <3>5. Clean' = Clean
      BY <1>a, <3>1 DEF Clean
    <3>6. ManifestPath \in DOMAIN observed /\ observed'[ManifestPath] = observed[ManifestPath]
      BY <1>a, <2>0, <2>3 DEF IdentityInv, ManifestInv, Grows
    <3>7. ManifestInv'
      BY <1>0, <1>a, <2>0, <3>1, <3>5, <3>6 DEF IdentityInv, ManifestInv, Anchored, Covered
    <3>8. HashesInv'
      BY <1>0, <2>0, <2>3, <3>1, <3>5 DEF IdentityInv, HashesInv, HashAccepted, Grows
    <3>9. ChecksInv'
      <4>1. ASSUME Clean', NEW n \in DOMAIN manifest.checks, n < check
            PROVE  CheckHolds(n)'
        BY <1>0, <1>a, <2>0, <2>3, <3>1, <3>5, <4>1, ManifestShape, CheckKept DEF IdentityInv, ChecksInv
      <4> QED
        BY <1>a, <2>3, <3>1, <4>1 DEF IdentityInv, ChecksInv
    <3>10. ReadingsInv'
      <4> DEFINE reads == CheckReads(manifest, check)
      <4> SUFFICES ASSUME ~failed
                   PROVE  /\ Len(readings') + Len(todo') = Len(reads)
                          /\ \A k \in DOMAIN todo' : reads[Len(readings') + k] = todo'[k]
                          /\ \A k \in DOMAIN readings' :
                                reads[k] \in DOMAIN observed' /\ readings'[k] = observed'[reads[k]]
        BY <1>0, <2>3, <3>1, <3>2 DEF ReadingsInv, CheckReads
      <4>1. /\ Len(readings) + Len(todo) = Len(reads)
            /\ \A k \in DOMAIN todo : reads[Len(readings) + k] = todo[k]
            /\ \A k \in DOMAIN readings :
                  reads[k] \in DOMAIN observed /\ readings[k] = observed[reads[k]]
        BY <2>3 DEF IdentityInv, ReadingsInv
      <4> HIDE DEF reads
      <4>a. DOMAIN todo = 1 .. Len(todo) /\ DOMAIN todo' = 1 .. Len(todo) - 1
        BY <1>a, <2>b, <3>1 DEF IdentityInv, ShapeInv
      <4>2. Len(readings') + Len(todo') = Len(reads)
        BY <2>b, <3>1, <3>2, <4>1
      <4>3. ASSUME NEW k \in DOMAIN todo' PROVE reads[Len(readings') + k] = todo'[k]
        <5>1. k + 1 \in DOMAIN todo /\ Len(readings') + k = Len(readings) + (k + 1)
          BY <2>b, <3>2, <4>a
        <5> QED
          BY <2>b, <3>1, <4>1, <5>1
      <4>4. reads[Len(readings) + 1] = p
        <5>1. 1 \in DOMAIN todo
          BY <2>b, <4>a
        <5> QED
          BY <2>b, <4>1, <5>1
      <4>5. ASSUME NEW k \in DOMAIN readings'
            PROVE  reads[k] \in DOMAIN observed' /\ readings'[k] = observed'[reads[k]]
        <5>1. CASE k = Len(readings) + 1
          BY <2>0, <3>2, <4>4, <5>1
        <5>2. CASE k \in DOMAIN readings
          BY <2>0, <3>2, <4>1, <5>2 DEF Grows
        <5> QED
          BY <3>2, <5>1, <5>2
      <4> QED
        BY <4>2, <4>3, <4>5
    <3>11. RereadInv'
      BY <1>a, <2>3, <3>1 DEF RereadInv
    <3> QED
      BY <3>3, <3>4, <3>7, <3>8, <3>9, <3>10, <3>11 DEF IdentityInv
  <2>4. CASE stage = "reread" /\ TakeFinal
    <3>1. /\ todo' = Tail(todo) /\ stage' = IF Len(todo) = 1 THEN "final" ELSE "reread"
          /\ UNCHANGED <<manifest, check, readings, failed, report>>
      BY <2>4 DEF TakeFinal, contract
    <3>2. ShapeInv'
      BY <1>0, <1>2, <1>a, <2>0, <3>1 DEF IdentityInv, ShapeInv, Stages, directory
    <3>3. Len(todo) = 1 => todo' = <<>> /\ ToSet(todo') = {}
      <4>1. Len(todo) = 1 => Tail(todo) = <<>>
        <5>1. \A r \in Seq(Paths) : r # <<>> => Len(r) # 0
          BY EmptySeq
        <5>2. Len(todo) = 1 => Len(Tail(todo)) = 0
          BY <2>b
        <5> DEFINE r == Tail(todo)
        <5>3. r \in Seq(Paths) /\ (Len(todo) = 1 => Len(r) = 0)
          BY <1>a, <5>2
        <5> HIDE DEF r
        <5>4. Len(todo) = 1 => r = <<>>
          BY <5>1, <5>3
        <5> QED
          BY <5>4 DEF r
      <4>2. ToSet(<<>>) = {}
        BY DEF ToSet
      <4> QED
        BY <3>1, <4>1, <4>2
    <3>4. ControlInv'
      BY <1>0, <1>2, <1>a, <2>0, <2>4, <2>a, <3>1, <3>3 DEF IdentityInv, ControlInv
    <3>5. ManifestInv' /\ HashesInv' /\ ChecksInv' /\ ReadingsInv'
      BY <1>0, <1>a, <2>0, <2>4, <3>1, Later
    <3>6. RereadInv'
      <4>1. DOMAIN snapshots \subseteq {p} \cup ToSet(Tail(todo)) \cup DOMAIN observed
        BY <2>4, <2>b DEF IdentityInv, RereadInv
      <4>2. CASE Len(todo) = 1
        BY <1>0, <1>a, <2>0, <2>a, <3>1, <3>3, <4>1, <4>2 DEF RereadInv
      <4>3. CASE Len(todo) # 1
        BY <1>0, <1>a, <2>0, <3>1, <4>1, <4>3 DEF RereadInv
      <4> QED
        BY <4>2, <4>3
    <3> QED
      BY <3>2, <3>4, <3>5, <3>6 DEF IdentityInv
  <2> QED
    BY <1>2, <2>1, <2>2, <2>3, <2>4 DEF p, d
<1> QED
  BY <1>0, <1>1, <1>2 DEF FinishRead

LEMMA NextCheckIdentity ==
  ASSUME IdentityInv, NextCheck
  PROVE  IdentityInv'
<1>0. /\ UNCHANGED <<directory, profile, anchor, scan, snapshots, fd, observed, manifest, report>>
      /\ stage \in {"hashes", "checks"} /\ report = "none" /\ todo = <<>> /\ fd = None
      /\ check' = check + 1 /\ todo' = CheckReads(manifest, check + 1) /\ readings' = <<>>
      /\ failed' = (failed \/ (check > 0 /\ readings # None
                                  /\ ~CheckAccepted(manifest, check, readings)))
      /\ stage' = IF check + 1 > Len(manifest.checks) THEN "drift" ELSE "checks"
      /\ check \in Nat
  BY DEF NextCheck, Reading, arguments, IdentityInv, ShapeInv, ControlInv
<1>1. /\ Len(manifest.checks) \in Nat /\ DOMAIN manifest.checks = 1 .. Len(manifest.checks)
      /\ \A n \in DOMAIN manifest.checks : manifest.checks[n].reads \in Seq(Paths)
  <2>1. manifest.checks \in Seq(ToSet(manifest.checks))
    BY <1>0, ManifestShape
  <2> QED
    BY <1>0, <2>1, ManifestShape
<1>2. /\ <<>> \in Seq(Paths) /\ <<>> \in Seq(Data) /\ <<>> # None /\ Len(<<>>) = 0
      /\ DOMAIN <<>> = {}
  BY EmptySequence
<1>3. CheckReads(manifest, check + 1) \in Seq(Paths)
      /\ (check + 1 > Len(manifest.checks) => CheckReads(manifest, check + 1) = <<>>)
  BY <1>0, <1>1, <1>2 DEF CheckReads
<1>4. ShapeInv'
  BY <1>0, <1>2, <1>3 DEF IdentityInv, ShapeInv, Stages, directory
<1>5. ControlInv'
  BY <1>0, <1>2, <1>3 DEF IdentityInv, ControlInv
<1>6. Clean' => Clean /\ (check > 0 /\ readings # None => CheckAccepted(manifest, check, readings))
  BY <1>0 DEF Clean
<1>7. ManifestInv'
  BY <1>0, <1>6 DEF IdentityInv, ManifestInv, Anchored, Covered
<1>8. HashesInv'
  BY <1>0, <1>6, EmptySequence DEF IdentityInv, HashesInv, HashAccepted
<1>9. ASSUME Clean', NEW n \in DOMAIN manifest.checks, n < check + 1
      PROVE  CheckHolds(n)'
  <2>1. CheckHolds(n)
    <3>1. CASE n < check
      BY <1>6, <1>9, <3>1 DEF IdentityInv, ChecksInv
    <3>2. CASE n = check
      <4> DEFINE reads == manifest.checks[n].reads
      <4>1. stage = "checks" /\ check > 0
        BY <1>0, <1>1, <3>2 DEF IdentityInv, ChecksInv
      <4> SUFFICES ASSUME profile \in manifest.checks[n].profiles
                   PROVE  /\ ToSet(reads) \subseteq DOMAIN observed
                          /\ [k \in DOMAIN reads |-> observed[reads[k]]] \in manifest.checks[n].holds
        BY DEF CheckHolds
      <4>2. CheckReads(manifest, check) = reads /\ reads \in Seq(Paths)
        BY <1>1, <3>2 DEF CheckReads
      <4> HIDE DEF reads
      <4>3. /\ readings # None /\ Len(readings) + Len(todo) = Len(reads)
            /\ \A k \in DOMAIN readings :
                  reads[k] \in DOMAIN observed /\ readings[k] = observed[reads[k]]
        BY <1>6, <1>9, <4>1, <4>2 DEF IdentityInv, ReadingsInv, Clean
      <4>4. readings \in Seq(Data)
        BY <4>3 DEF IdentityInv, ShapeInv
      <4>5. DOMAIN readings = DOMAIN reads
        BY <1>0, <1>2, <4>2, <4>3, <4>4
      <4>6. readings = [k \in DOMAIN reads |-> observed[reads[k]]]
        BY <4>3, <4>4, <4>5
      <4>7. readings \in manifest.checks[n].holds
        BY <1>6, <1>9, <3>2, <4>1, <4>3 DEF CheckAccepted
      <4>8. ToSet(reads) \subseteq DOMAIN observed
        BY <4>3, <4>5 DEF ToSet
      <4> QED
        BY <4>6, <4>7, <4>8
    <3> QED
      BY <1>0, <1>1, <1>9, <3>1, <3>2
  <2> QED
    BY <1>0, <1>1, <2>1, CheckKept DEF Grows
<1>10. ChecksInv'
  BY <1>0, <1>1, <1>9 DEF IdentityInv, ChecksInv
<1>11. ReadingsInv'
  <2> DEFINE reads == CheckReads(manifest, check + 1)
  <2>1. Len(<<>>) + Len(reads) = Len(reads) /\ \A k \in DOMAIN reads : Len(<<>>) + k = k
    BY <1>2, <1>3
  <2>2. reads = CheckReads(manifest, check)'
    BY <1>0 DEF CheckReads
  <2> HIDE DEF reads
  <2>3. todo' = reads
    BY <1>0 DEF reads
  <2> QED
    BY <1>0, <1>2, <2>1, <2>2, <2>3 DEF ReadingsInv
<1>12. RereadInv'
  BY <1>0 DEF RereadInv
<1> QED
  BY <1>4, <1>5, <1>7, <1>8, <1>10, <1>11, <1>12 DEF IdentityInv

LEMMA InitIdentity == Init => IdentityInv
<1> SUFFICES ASSUME Init PROVE IdentityInv
  OBVIOUS
<1>1. PICK start \in Initial :
        LET names == Sorted(DOMAIN start) IN
        /\ inodes = [i \in DOMAIN names |-> [data |-> start[names[i]], stamp |-> 0, kind |-> "regular"]]
        /\ dir = [p \in Paths |-> IF p \in DOMAIN start
                                  THEN CHOOSE i \in DOMAIN names : names[i] = p ELSE 0]
  BY DEF Init
<1> DEFINE names == Sorted(DOMAIN start)
<1>2. start \in [DOMAIN start -> Data] /\ DOMAIN start \in SUBSET Paths
  BY DataAssumption
<1>3. names \in Seq(DOMAIN start) /\ ToSet(names) = DOMAIN start
  BY <1>2, SortedPaths
<1>4. /\ inodes = [i \in DOMAIN names |-> [data |-> start[names[i]], stamp |-> 0, kind |-> "regular"]]
      /\ dir = [p \in Paths |-> IF p \in DOMAIN start
                                THEN CHOOSE i \in DOMAIN names : names[i] = p ELSE 0]
  BY <1>1
<1> HIDE DEF names
<1>5. inodes \in Seq(Inodes) /\ DOMAIN inodes = DOMAIN names
  <2>1. \A i \in DOMAIN names :
          [data |-> start[names[i]], stamp |-> 0, kind |-> "regular"] \in Inodes
    BY <1>2, <1>3 DEF Inodes, Kinds
  <2>2. DOMAIN names = 1 .. Len(names) /\ Len(names) \in Nat
    BY <1>3
  <2> QED
    BY <1>4, <2>1, <2>2
<1>6. dir \in [Paths -> {0} \cup DOMAIN inodes]
  <2>1. ASSUME NEW p \in Paths, p \in DOMAIN start
        PROVE  (CHOOSE i \in DOMAIN names : names[i] = p) \in DOMAIN inodes
    <3>1. \E i \in DOMAIN names : names[i] = p
      BY <1>3, <2>1 DEF ToSet
    <3> QED
      BY <1>5, <3>1
  <2> QED
    BY <1>4, <2>1
<1>7. ShapeInv
  BY <1>5, <1>6, DataAssumption DEF Init, ShapeInv, Stages, NoScan
<1>8. ControlInv
  BY EmptySequence DEF Init, ControlInv, NoScan
<1>9. ManifestInv /\ HashesInv /\ ChecksInv /\ ReadingsInv /\ RereadInv
  BY DEF Init, ManifestInv, HashesInv, ChecksInv, ReadingsInv, RereadInv, Clean
<1> QED
  BY <1>7, <1>8, <1>9 DEF IdentityInv

\* The inductive invariant holds in every state of every verification.
LEMMA IdentityInvariance == Spec => []IdentityInv
<1>1. IdentityInv /\ [Next]_vars => IdentityInv'
  <2> SUFFICES ASSUME IdentityInv, [Next]_vars PROVE IdentityInv'
    OBVIOUS
  <2>1. CASE Verify
    BY <2>1, ListIdentity, LstatIdentity, StatIdentity, EndIdentity, OpenIdentity, ReadDataIdentity,
       FinishIdentity, NextCheckIdentity DEF Verify
  <2>2. CASE Write \/ Put \/ Unlink \/ PutBack
    BY <2>2, WriterIdentity
  <2>3. CASE UNCHANGED vars
    <3>1. UNCHANGED <<Known, directory, scan, fd>>
      BY <2>3 DEF vars, arguments, contract, Known
    <3>2. ShapeInv' /\ ControlInv'
      BY <3>1 DEF IdentityInv, ShapeInv, ControlInv, Known, directory
    <3> QED
      BY <3>1, <3>2, KnownKept DEF IdentityInv
  <2> QED
    BY <2>1, <2>2, <2>3 DEF Next
<1> QED
  BY <1>1, InitIdentity, PTL DEF Spec

\* What a verification without a failure has established when it ends.
LEMMA CleanIsSatisfied ==
  ASSUME IdentityInv, Clean, stage = "final" \/ report = "pass"
  PROVE  Satisfied(observed)
<1>1. DOMAIN observed = DOMAIN snapshots /\ stage \notin {"hashes", "checks"}
  BY DEF IdentityInv, ControlInv, RereadInv
<1>2. /\ \A p \in DOMAIN observed : Size[observed[p]] <= MaxFileBytes
      /\ Cardinality(DOMAIN observed) <= MaxEntries
  BY <1>1 DEF IdentityInv, ControlInv
<1>3. /\ ManifestPath \in DOMAIN observed
      /\ manifest = Parse[observed[ManifestPath]] /\ manifest # None
      /\ Size[observed[ManifestPath]] <= MaxManifestBytes
      /\ Anchored(observed[ManifestPath]) /\ Covered(manifest, DOMAIN observed)
  BY <1>1 DEF IdentityInv, ManifestInv
<1>4. \A p \in DOMAIN manifest.files : HashAccepted(manifest.files[p], observed[p])
  BY <1>1 DEF IdentityInv, HashesInv
<1>5. ASSUME NEW n \in DOMAIN manifest.checks PROVE CheckHolds(n)
  <2>1. n \in 1 .. Len(manifest.checks) /\ Len(manifest.checks) \in Nat
    BY ManifestShape
  <2>2. check = Len(manifest.checks) + 1
    BY DEF IdentityInv, ChecksInv
  <2> QED
    BY <2>1, <2>2 DEF IdentityInv, ChecksInv
<1> QED
  BY <1>2, <1>3, <1>4, <1>5 DEF Satisfied, CheckHolds

(* A PASS is coherent even against writers that keep timestamps and put    *)
(* files back: the whole contract holds, taken together, of the contents   *)
(* the snapshot identity in the report attests.                            *)
THEOREM PassIsCoherent == Spec => []PassHoldsOfIdentity
<1>1. IdentityInv => PassHoldsOfIdentity
  BY CleanIsSatisfied DEF IdentityInv, ControlInv, ManifestInv, Clean, PassHoldsOfIdentity
<1> QED
  BY <1>1, IdentityInvariance, PTL

-----------------------------------------------------------------------------
(* A PASS is true of what it attests, if no writer is stealthy: InstantInv *)

\* A writer gives each file it touches a stamp that nobody saw before, and a
\* name nothing but a new file.
LEMMA WriterStamps ==
  ASSUME ~Stealthy, ShapeInv, \A i \in DOMAIN inodes : inodes[i].stamp <= mutations,
         Write \/ Put \/ Unlink \/ PutBack
  PROVE  /\ \A i \in DOMAIN inodes :
               /\ i \in DOMAIN inodes'
               /\ inodes'[i] = inodes[i] \/ inodes'[i].stamp = mutations + 1
               /\ inodes'[i].kind = inodes[i].kind
         /\ \A i \in DOMAIN inodes' : inodes'[i].stamp <= mutations + 1
         /\ \A p \in Paths : dir'[p] = 0 \/ dir'[p] \notin DOMAIN inodes \/ dir'[p] = dir[p]
<1> USE DEF ShapeInv
<1>0. /\ mutations \in Nat /\ DOMAIN inodes = 1 .. Len(inodes) /\ Len(inodes) \in Nat
      /\ \A i \in DOMAIN inodes : inodes[i].stamp \in Nat /\ inodes[i].stamp <= mutations + 1
  <2>1. ASSUME NEW i \in DOMAIN inodes PROVE inodes[i].stamp \in Nat
    <3>1. inodes[i] \in Inodes
      OBVIOUS
    <3> QED
      BY <3>1 DEF Inodes
  <2> QED
    BY <2>1
<1>1. CASE Write
  <2> DEFINE New(d, t) == [data |-> d, stamp |-> t, kind |-> "regular"]
  <2>0. PICK i \in DOMAIN inodes :
          /\ inodes[i].kind = "regular"
          /\ \E d \in Data : \E t \in Stamps(inodes[i].stamp) :
                inodes' = [inodes EXCEPT ![i] = New(d, t)]
    BY <1>1 DEF Write
  <2>1. PICK d \in Data : \E t \in Stamps(inodes[i].stamp) : inodes' = [inodes EXCEPT ![i] = New(d, t)]
    BY <2>0
  <2>2. inodes' = [inodes EXCEPT ![i] = New(d, mutations + 1)]
    BY <2>1 DEF Stamps
  <2>3. New(d, mutations + 1).stamp = mutations + 1 /\ New(d, mutations + 1).kind = "regular"
    OBVIOUS
  <2> HIDE DEF New
  <2>4. DOMAIN inodes' = DOMAIN inodes
    BY <2>2
  <2>5. \A j \in DOMAIN inodes :
          /\ inodes'[j] = inodes[j] \/ inodes'[j].stamp = mutations + 1
          /\ inodes'[j].kind = inodes[j].kind
    BY <2>0, <2>2, <2>3
  <2>6. \A j \in DOMAIN inodes' : inodes'[j].stamp <= mutations + 1
    BY <1>0, <2>4, <2>5
  <2> QED
    BY <1>1, <2>4, <2>5, <2>6 DEF Write
<1>2. CASE Put
  <2> DEFINE New(d, k) == [data |-> d, stamp |-> mutations + 1, kind |-> k]
  <2>1. PICK p \in Paths, d \in Data, k \in Kinds :
          /\ inodes' = Append(inodes, New(d, k))
          /\ dir' = [dir EXCEPT ![p] = Len(inodes) + 1]
    BY <1>2 DEF Put
  <2>2. New(d, k).stamp = mutations + 1
    OBVIOUS
  <2> HIDE DEF New
  <2>3. /\ DOMAIN inodes' = 1 .. Len(inodes) + 1
        /\ \A i \in DOMAIN inodes : inodes'[i] = inodes[i]
        /\ inodes'[Len(inodes) + 1] = New(d, k)
    BY <1>0, <2>1
  <2>4. DOMAIN inodes \subseteq DOMAIN inodes'
    BY <1>0, <2>3
  <2>5. \A i \in DOMAIN inodes' : inodes'[i].stamp <= mutations + 1
    <3>1. ASSUME NEW i \in DOMAIN inodes' PROVE i \in DOMAIN inodes \/ i = Len(inodes) + 1
      BY <1>0, <2>3
    <3> QED
      BY <1>0, <2>2, <2>3, <3>1
  <2>6. Len(inodes) + 1 \notin DOMAIN inodes
    BY <1>0
  <2> QED
    BY <2>1, <2>3, <2>4, <2>5, <2>6
<1>3. CASE Unlink
  <2>1. UNCHANGED inodes /\ \E p \in Present : dir' = [dir EXCEPT ![p] = 0]
    BY <1>3 DEF Unlink
  <2> QED
    BY <1>0, <2>1 DEF Present
<1>4. ~PutBack
  BY DEF PutBack
<1> QED
  BY <1>1, <1>2, <1>3, <1>4

\* A file that is as it was has not been written to.
LEMMA WriterInstant ==
  ASSUME ~Stealthy, IdentityInv, InstantInv, Write \/ Put \/ Unlink \/ PutBack
  PROVE  InstantInv'
<1>0. /\ mutations' = mutations + 1 /\ mutations \in Nat
      /\ UNCHANGED <<snapshots, todo, observed, stage, report, scan, fd, atStart, atScan>>
      /\ fd # None => fd.ino \in DOMAIN inodes
  BY WriterShape DEF IdentityInv, ShapeInv, Known
<1>1. /\ \A i \in DOMAIN inodes :
            /\ i \in DOMAIN inodes'
            /\ inodes'[i] = inodes[i] \/ inodes'[i].stamp = mutations + 1
            /\ inodes'[i].kind = inodes[i].kind
      /\ \A i \in DOMAIN inodes' : inodes'[i].stamp <= mutations + 1
      /\ \A p \in Paths : dir'[p] = 0 \/ dir'[p] \notin DOMAIN inodes \/ dir'[p] = dir[p]
  BY WriterStamps DEF IdentityInv, InstantInv, StampsInv
<1>2. StampsInv'
  <2>1. ASSUME NEW m, Past(m) PROVE m.ino \in DOMAIN inodes' /\ m.mtime \in 0 .. mutations + 1
    BY <1>0, <1>1, <2>1 DEF Past
  <2>2. \A p \in DOMAIN snapshots : Past(snapshots[p])
    BY DEF InstantInv, StampsInv
  <2>3. \A p \in DOMAIN scan.files : Past(scan.files[p])
    BY DEF InstantInv, StampsInv
  <2> QED
    BY <1>0, <1>1, <2>1, <2>2, <2>3 DEF StampsInv, Past
<1>3. ASSUME NEW p \in DOMAIN snapshots, inodes'[snapshots[p].ino].stamp = snapshots[p].mtime
      PROVE  Still(p) /\ inodes'[snapshots[p].ino] = inodes[snapshots[p].ino]
  <2>1. snapshots[p].ino \in DOMAIN inodes /\ snapshots[p].mtime \in 0 .. mutations
    BY DEF InstantInv, StampsInv, Past
  <2> QED
    BY <1>0, <1>1, <1>3, <2>1 DEF Still
<1>4. ObservedInv'
  <2>1. ASSUME NEW p \in DOMAIN observed
        PROVE  /\ inodes'[snapshots[p].ino].kind = "regular"
               /\ Still(p)' => observed[p] = inodes'[snapshots[p].ino].data
               /\ Size[observed[p]] = snapshots[p].size
    <3>1. p \in DOMAIN snapshots
      BY DEF IdentityInv, ControlInv
    <3>2. snapshots[p].ino \in DOMAIN inodes
      BY <3>1 DEF InstantInv, StampsInv, Past
    <3> QED
      BY <1>0, <1>1, <1>3, <3>1, <3>2 DEF InstantInv, ObservedInv, Still
  <2>3. fd # None /\ fd.data # None => inodes'[fd.ino].kind = "regular"
    BY <1>0, <1>1 DEF InstantInv, ObservedInv
  <2>2. ASSUME fd # None, fd.data # None, fd.ino = snapshots[Head(todo)].ino, Still(Head(todo))'
        PROVE  fd.data = inodes'[fd.ino].data
    <3>1. Head(todo) \in DOMAIN snapshots
      BY <2>2 DEF IdentityInv, ControlInv
    <3>2. Still(Head(todo)) /\ inodes'[snapshots[Head(todo)].ino] = inodes[snapshots[Head(todo)].ino]
      BY <1>0, <1>3, <2>2, <3>1 DEF Still
    <3> QED
      BY <2>2, <3>2 DEF InstantInv, ObservedInv
  <2> QED
    BY <1>0, <2>1, <2>2, <2>3 DEF ObservedInv, Still
<1>5. ASSUME NEW p \in DOMAIN snapshots, Unchanged(p)' PROVE Unchanged(p)
  <2>1. /\ dir'[p] # 0 /\ inodes'[dir'[p]].kind = "regular" /\ snapshots[p].ino = dir'[p]
        /\ snapshots[p] = [ino |-> dir'[p], size |-> Size[inodes'[dir'[p]].data],
                           mtime |-> inodes'[dir'[p]].stamp]
    BY <1>0, <1>5 DEF Unchanged, Metadata
  <2>2. inodes'[dir'[p]] = inodes[dir'[p]]
    BY <1>3, <2>1
  <2>3. dir'[p] \in DOMAIN inodes /\ p \in Paths
    BY <2>1 DEF InstantInv, StampsInv, Past, IdentityInv, ShapeInv
  <2>4. dir'[p] = dir[p]
    BY <1>1, <2>1, <2>3
  <2> QED
    BY <2>1, <2>2, <2>4 DEF Unchanged, Metadata
<1>6. ListedInv'
  BY <1>0, <1>5 DEF InstantInv, ListedInv, Listed, WasThere, WasListed
<1> QED
  BY <1>2, <1>4, <1>6 DEF InstantInv

\* A folder below another one is not the root.
LEMMA SubfoldersOf ==
  ASSUME NEW f \in Folders
  PROVE  Len(f) \in Nat /\ Root \notin Subfolders(f)
<1>0. PICK p \in Paths : f \in Above(p)
  BY DEF Folders
<1>1. PICK n \in 0 .. Len(Folder[p]) : f = SubSeq(Folder[p], 1, n)
  BY <1>0 DEF Above
<1>2. PICK S : Folder[p] \in Seq(S)
  BY FoldersAssumption
<1>3. f \in Seq(S)
  BY <1>1, <1>2
<1>4. Len(f) \in Nat /\ Len(Root) = 0
  BY <1>3 DEF Root
<1> QED
  BY <1>4 DEF Subfolders

\* What listing a folder does to the inventory.
LEMMA ListScan ==
  ASSUME IdentityInv, NEW f \in Folders, ListNames(f)
  PROVE  /\ UNCHANGED <<inodes, dir, mutations, snapshots, todo, observed, stage, report, fd>>
         /\ f \in scan.folders /\ scan.left = {} /\ scan.member = {} /\ report = "none"
         /\ \E found \in SUBSET Subfolders(f) :
              /\ \A p \in Present : Above(p) \cap Subfolders(f) \subseteq found
              /\ scan' = [folders |-> (scan.folders \ {f}) \cup found, left |-> In(f),
                          member |-> {}, files |-> scan.files]
<1>1. /\ UNCHANGED <<inodes, dir, mutations, snapshots, todo, observed, stage, report, fd>>
      /\ f \in scan.folders /\ scan.left = {} /\ scan.member = {} /\ report = "none"
  BY DEF ListNames, directory, IdentityInv, ControlInv
<1>2. PICK found \in SUBSET Subfolders(f) :
        /\ \A p \in Present : Above(p) \cap Subfolders(f) \subseteq found
        /\ scan' = [scan EXCEPT !.folders = (@ \ {f}) \cup found, !.left = In(f)]
  BY DEF ListNames
<1>3. scan = [folders |-> scan.folders, left |-> scan.left, member |-> scan.member,
              files |-> scan.files]
  BY DEF IdentityInv, ShapeInv
<1>4. scan' = [folders |-> (scan.folders \ {f}) \cup found, left |-> In(f),
               member |-> {}, files |-> scan.files]
  BY <1>1, <1>2, <1>3
<1> QED
  BY <1>1, <1>2, <1>4

\* The files of a folder are those of the directory; one that is as it was
\* holds what was observed.
LEMMA FolderContents ==
  ASSUME IdentityInv, NEW f
  PROVE  /\ Contents \in [DOMAIN Contents -> Data] /\ DOMAIN Contents \subseteq Paths
         /\ DOMAIN ContentsIn(f) = {p \in DOMAIN Contents : Folder[p] = f}
         /\ DOMAIN ContentsIn(f) \subseteq In(f)
         /\ \A p \in DOMAIN ContentsIn(f) : ContentsIn(f)[p] = Contents[p]
         /\ ContentsIn(f) \in [DOMAIN ContentsIn(f) -> Data]
<1>1. /\ DOMAIN Contents \subseteq Present /\ Present \subseteq Paths
      /\ \A p \in DOMAIN Contents : Contents[p] = inodes[dir[p]].data
      /\ Contents = [p \in DOMAIN Contents |-> Contents[p]]
  BY DEF Contents, Present
<1>2. \A p \in DOMAIN Contents : Contents[p] \in Data
  <2>1. ASSUME NEW p \in DOMAIN Contents PROVE Contents[p] \in Data
    <3>1. dir[p] \in DOMAIN inodes
      BY <1>1 DEF Present, IdentityInv, ShapeInv
    <3>2. inodes[dir[p]] \in Inodes
      BY <3>1 DEF IdentityInv, ShapeInv
    <3> QED
      BY <1>1, <3>2 DEF Inodes
  <2> QED
    BY <2>1
<1> HIDE DEF Contents
<1>3. /\ DOMAIN ContentsIn(f) = {p \in DOMAIN Contents : Folder[p] = f}
      /\ \A p \in DOMAIN ContentsIn(f) : ContentsIn(f)[p] = Contents[p]
      /\ ContentsIn(f) = [p \in DOMAIN ContentsIn(f) |-> ContentsIn(f)[p]]
  BY DEF ContentsIn
<1>4. DOMAIN ContentsIn(f) \subseteq In(f)
  BY <1>1, <1>3 DEF In
<1> QED
  BY <1>1, <1>2, <1>3, <1>4

LEMMA ContentsObserved ==
  ASSUME IdentityInv, ObservedInv, stage = "final", NEW p \in DOMAIN snapshots, Unchanged(p)
  PROVE  p \in DOMAIN Contents /\ Contents[p] = observed[p]
<1>1. p \in Paths /\ p \in DOMAIN observed
  BY DEF IdentityInv, ShapeInv, RereadInv
<1>2. p \in DOMAIN Contents /\ Contents[p] = inodes[dir[p]].data
  BY <1>1 DEF Unchanged, Contents, Present
<1>3. snapshots[p].ino = dir[p] /\ Still(p)
  BY DEF Unchanged, Metadata, Still
<1> QED
  BY <1>1, <1>2, <1>3 DEF ObservedInv

\* One lemma for each action of Verify, one for those that read.
LEMMA ListInstant ==
  ASSUME IdentityInv, InstantInv, NEW f \in Folders, ListNames(f)
  PROVE  InstantInv'
<1>0. /\ UNCHANGED <<inodes, dir, mutations, snapshots, todo, observed, stage, report, fd>>
      /\ f \in scan.folders /\ scan.left = {} /\ scan.member = {} /\ report = "none"
  BY ListScan
<1>1. PICK found \in SUBSET Subfolders(f) :
        scan' = [folders |-> (scan.folders \ {f}) \cup found, left |-> In(f),
                 member |-> {}, files |-> scan.files]
  BY ListScan
<1>2. /\ scan'.folders = (scan.folders \ {f}) \cup found /\ Root \notin found
      /\ scan'.left = In(f) /\ scan'.member = {} /\ scan'.files = scan.files
  BY <1>1, SubfoldersOf
<1>3. StampsInv' /\ ObservedInv'
  BY <1>0, <1>2 DEF InstantInv, StampsInv, Past, ObservedInv, Still
<1>4. \A p \in DOMAIN snapshots : Unchanged(p)' = Unchanged(p)
  BY <1>0 DEF Unchanged, Metadata
<1>5. ASSUME stage = "final", NEW p \in DOMAIN snapshots, Unchanged(p)
      PROVE  p \in DOMAIN Contents /\ Contents[p] = observed[p]
  BY <1>5, ContentsObserved DEF InstantInv
<1>6. CASE f = Root
  <2>1. atStart' = Contents /\ atScan' = ContentsIn(Root)
    BY <1>6 DEF ListNames
  <2>2. DOMAIN scan.files = {}
    BY <1>0, <1>6, EmptySequence DEF InstantInv, ListedInv, Listed, NoScan
  <2>3. Listed'
    <3>1. scan.folders = {Root}
      BY <1>0, <1>6 DEF InstantInv, ListedInv, Listed, NoScan
    <3> QED
      BY <1>2, <1>6, <3>1 DEF Listed
  <2>4. ASSUME stage = "final", NEW p \in DOMAIN snapshots, Unchanged(p)
        PROVE  /\ WasThere(p)'
               /\ p \in scan'.left \cup scan'.member \cup DOMAIN atScan' => WasListed(p)'
    <3>1. p \in DOMAIN Contents /\ Contents[p] = observed[p]
      BY <1>5, <2>4
    <3> HIDE DEF Contents
    <3>2. p \in In(Root) \cup DOMAIN ContentsIn(Root) => Folder[p] = Root
      BY FolderContents DEF In
    <3>3. p \in In(Root) \cup DOMAIN ContentsIn(Root) =>
              p \in DOMAIN ContentsIn(Root) /\ ContentsIn(Root)[p] = observed[p]
      BY <3>1, <3>2, FolderContents
    <3> QED
      BY <1>0, <1>2, <1>6, <2>1, <3>1, <3>3 DEF WasThere, WasListed
  <2>5. ListedInv'
    <3> HIDE DEF Contents
    <3>1. /\ atStart' \in [DOMAIN atStart' -> Data] /\ DOMAIN atStart' \subseteq Paths
          /\ atScan' \in [DOMAIN atScan' -> Data]
      BY <2>1, FolderContents
    <3>2. DOMAIN atScan' \subseteq scan'.left \cup scan'.member \cup DOMAIN scan'.files
      <4>1. DOMAIN ContentsIn(Root) \subseteq In(Root)
        BY FolderContents
      <4> QED
        BY <1>2, <1>6, <2>1, <4>1
    <3>3. \A p \in DOMAIN atStart' : Folder[p] = Root => p \in DOMAIN atScan'
      BY <2>1, FolderContents
    <3>4. ASSUME stage = "final", NEW p \in DOMAIN snapshots
          PROVE  /\ Unchanged(p)' => WasThere(p)'
                 /\ Unchanged(p)' /\ p \in scan'.left \cup scan'.member \cup DOMAIN atScan' =>
                        WasListed(p)'
                 /\ p \notin DOMAIN scan'.files
      BY <1>2, <1>4, <2>2, <2>4, <3>4
    <3> QED
      BY <1>0, <2>3, <3>1, <3>2, <3>3, <3>4 DEF ListedInv
  <2> QED
    BY <1>3, <2>5 DEF InstantInv
<1>7. CASE f # Root
  <2>1. atStart' = atStart /\ atScan' = Joined(atScan, ContentsIn(f))
    BY <1>7 DEF ListNames
  <2>2. /\ DOMAIN atScan' = DOMAIN atScan \cup DOMAIN ContentsIn(f)
        /\ \A p \in DOMAIN atScan : atScan'[p] = atScan[p]
        /\ \A p \in DOMAIN ContentsIn(f) \ DOMAIN atScan : atScan'[p] = ContentsIn(f)[p]
        /\ atScan' = [p \in DOMAIN atScan' |-> atScan'[p]]
    BY <2>1 DEF Joined
  <2>3. scan # NoScan
    BY <1>0, <1>7 DEF NoScan
  <2>4. Listed /\ Listed'
    BY <1>2, <2>3 DEF InstantInv, ListedInv, Listed
  <2>5. atScan' \in [DOMAIN atScan' -> Data]
    <3> HIDE DEF Contents
    <3>1. atScan \in [DOMAIN atScan -> Data]
      BY DEF InstantInv, ListedInv
    <3>2. \A p \in DOMAIN ContentsIn(f) : ContentsIn(f)[p] \in Data
      BY FolderContents
    <3>3. \A p \in DOMAIN atScan' : atScan'[p] \in Data
      BY <2>2, <3>1, <3>2
    <3> QED
      BY <2>2, <3>3
  <2>6. CASE stage = "final"
    <3>1. /\ DOMAIN atScan \subseteq DOMAIN scan.files
          /\ \A p \in DOMAIN atStart : Folder[p] = Root => p \in DOMAIN atScan
      BY <1>0, <2>4, <2>6 DEF InstantInv, ListedInv
    <3>2. ASSUME NEW p \in DOMAIN snapshots
          PROVE  /\ WasThere(p)' = WasThere(p)
                 /\ WasListed(p) => WasListed(p)'
      BY <1>0, <2>1, <2>2 DEF WasThere, WasListed
    <3>3. ASSUME NEW p \in DOMAIN snapshots, Unchanged(p),
                 p \in scan'.left \cup scan'.member \cup DOMAIN atScan'
          PROVE  WasListed(p)'
      <4>1. CASE p \in DOMAIN atScan
        <5>1. WasListed(p)
          BY <2>4, <2>6, <3>3, <4>1 DEF InstantInv, ListedInv
        <5> QED
          BY <3>2, <5>1
      <4>2. CASE p \notin DOMAIN atScan
        <5>1. p \in DOMAIN Contents /\ Contents[p] = observed[p]
          BY <1>5, <2>6, <3>3
        <5> HIDE DEF Contents
        <5>2. Folder[p] = f
          BY <1>2, <2>2, <3>3, <4>2, FolderContents DEF In
        <5>3. p \in DOMAIN ContentsIn(f) /\ ContentsIn(f)[p] = observed[p]
          BY <5>1, <5>2, FolderContents
        <5> QED
          BY <1>0, <2>2, <4>2, <5>3 DEF WasListed
      <4> QED
        BY <4>1, <4>2
    <3>4. ASSUME NEW p \in DOMAIN snapshots
          PROVE  /\ Unchanged(p) => WasThere(p)
                 /\ p \in DOMAIN scan.files /\ scan.files[p] = snapshots[p] =>
                        WasThere(p) /\ WasListed(p)
      BY <2>4, <2>6 DEF InstantInv, ListedInv
    <3>5. DOMAIN atScan' \subseteq scan'.left \cup scan'.member \cup DOMAIN scan'.files
      <4>1. DOMAIN ContentsIn(f) \subseteq In(f)
        BY FolderContents
      <4> QED
        BY <1>2, <2>2, <3>1, <4>1
    <3>6. \A p \in DOMAIN atStart' : Folder[p] = Root => p \in DOMAIN atScan'
      BY <2>1, <2>2, <3>1
    <3>7. \A p \in DOMAIN snapshots' :
            /\ Unchanged(p)' => WasThere(p)'
            /\ Unchanged(p)' /\ p \in scan'.left \cup scan'.member \cup DOMAIN atScan' =>
                  WasListed(p)'
            /\ p \in DOMAIN scan'.files /\ scan'.files[p] = snapshots'[p] =>
                  WasThere(p)' /\ WasListed(p)'
      BY <1>0, <1>2, <1>4, <3>2, <3>3, <3>4
    <3> QED
      BY <1>0, <1>3, <2>1, <2>4, <2>5, <3>5, <3>6, <3>7 DEF ListedInv, InstantInv
  <2>7. CASE stage # "final"
    BY <1>0, <1>3, <2>1, <2>4, <2>5, <2>7 DEF ListedInv, InstantInv
  <2> QED
    BY <2>6, <2>7
<1> QED
  BY <1>6, <1>7

\* A step that goes on with the inventory, or ends the verification.
LEMMA MemberInstant ==
  ASSUME IdentityInv, InstantInv,
         UNCHANGED <<inodes, dir, mutations, snapshots, todo, observed, fd, atStart, atScan>>,
         report = "none", scan # NoScan,
         \/ UNCHANGED scan /\ stage' = "end" /\ report' \in {"fail", "raised"}
         \/ /\ UNCHANGED <<stage, report>>
            /\ scan'.folders = scan.folders
            /\ scan'.left \cup scan'.member \cup DOMAIN scan'.files
                   = scan.left \cup scan.member \cup DOMAIN scan.files
            /\ scan'.left \cup scan'.member \subseteq scan.left \cup scan.member
            /\ \A p \in DOMAIN scan'.files :
                  \/ p \in DOMAIN scan.files /\ scan'.files[p] = scan.files[p]
                  \/ /\ p \in scan.member /\ Past(scan'.files[p])
                     /\ p \in DOMAIN observed /\ scan'.files[p] = snapshots[p] => Unchanged(p)
  PROVE  InstantInv'
<1>1. ObservedInv'
  BY DEF InstantInv, ObservedInv, Still
<1>2. CASE UNCHANGED scan /\ stage' = "end" /\ report' \in {"fail", "raised"}
  <2>1. StampsInv' /\ ListedInv'
    BY <1>2 DEF InstantInv, StampsInv, Past, ListedInv, Listed
  <2> QED
    BY <1>1, <2>1 DEF InstantInv
<1>3. CASE UNCHANGED <<stage, report>>
  <2>1. StampsInv'
    BY <1>3 DEF InstantInv, StampsInv, Past
  <2>2. Listed /\ Listed'
    BY <1>3 DEF InstantInv, ListedInv, Listed
  <2>3. CASE stage = "final"
    <3>1. ASSUME NEW p \in DOMAIN snapshots
          PROVE  /\ Unchanged(p)' = Unchanged(p)
                 /\ WasThere(p)' = WasThere(p) /\ WasListed(p)' = WasListed(p)
                 /\ p \in DOMAIN observed
      BY <2>3 DEF Unchanged, Metadata, WasThere, WasListed, IdentityInv, RereadInv
    <3>2. ASSUME NEW p \in DOMAIN snapshots
          PROVE  /\ Unchanged(p) => WasThere(p)
                 /\ Unchanged(p) /\ p \in scan.left \cup scan.member \cup DOMAIN atScan => WasListed(p)
                 /\ p \in DOMAIN scan.files /\ scan.files[p] = snapshots[p] =>
                       WasThere(p) /\ WasListed(p)
      BY <2>2, <2>3 DEF InstantInv, ListedInv
    <3>3. ASSUME NEW p \in DOMAIN snapshots, p \in DOMAIN scan'.files, scan'.files[p] = snapshots[p]
          PROVE  WasThere(p) /\ WasListed(p)
      BY <1>3, <3>1, <3>2, <3>3
    <3>4. ASSUME NEW p \in DOMAIN snapshots, Unchanged(p),
                 p \in scan'.left \cup scan'.member \cup DOMAIN atScan
          PROVE  WasListed(p)
      BY <1>3, <3>2, <3>4
    <3>5. /\ DOMAIN atScan \subseteq scan'.left \cup scan'.member \cup DOMAIN scan'.files
          /\ \A p \in DOMAIN atStart : Folder[p] = Root => p \in DOMAIN atScan
      BY <1>3, <2>2, <2>3 DEF InstantInv, ListedInv
    <3>6. \A p \in DOMAIN snapshots' :
            /\ Unchanged(p)' => WasThere(p)'
            /\ Unchanged(p)' /\ p \in scan'.left \cup scan'.member \cup DOMAIN atScan' =>
                  WasListed(p)'
            /\ p \in DOMAIN scan'.files /\ scan'.files[p] = snapshots'[p] =>
                  WasThere(p)' /\ WasListed(p)'
      BY <3>1, <3>2, <3>3, <3>4
    <3>7. ListedInv'
      BY <1>3, <2>2, <3>5, <3>6 DEF InstantInv, ListedInv
    <3> QED
      BY <1>1, <2>1, <3>7 DEF InstantInv
  <2>4. CASE stage # "final"
    BY <1>1, <1>3, <2>1, <2>2, <2>4 DEF InstantInv, ListedInv
  <2> QED
    BY <2>3, <2>4
<1> QED
  BY <1>2, <1>3

LEMMA LstatInstant ==
  ASSUME IdentityInv, InstantInv, NEW p \in Paths, LstatMember(p)
  PROVE  InstantInv'
<1>0. /\ UNCHANGED <<inodes, dir, mutations, snapshots, todo, observed, fd, atStart, atScan>>
      /\ report = "none" /\ p \in scan.left /\ scan.member = {} /\ scan # NoScan
  BY DEF LstatMember, directory, history, NoScan
<1>1. CASE scan' = [scan EXCEPT !.left = @ \ {p}, !.member = {p}] /\ UNCHANGED <<stage, report>>
  <2>1. scan' = [folders |-> scan.folders, left |-> scan.left \ {p}, member |-> {p},
                 files |-> scan.files]
    BY <1>1, LstatScan DEF IdentityInv
  <2>2. /\ scan'.folders = scan.folders /\ scan'.left = scan.left \ {p} /\ scan'.member = {p}
        /\ scan'.files = scan.files
    BY <2>1
  <2> QED
    BY <1>0, <1>1, <2>2, MemberInstant
<1>2. CASE UNCHANGED scan /\ stage' = "end" /\ report' \in {"fail", "raised"}
  BY <1>0, <1>2, MemberInstant
<1> QED
  BY <1>1, <1>2 DEF LstatMember, Raise, Reject

LEMMA StatInstant ==
  ASSUME ~Stealthy, IdentityInv, InstantInv, NEW p \in Paths, StatMember(p)
  PROVE  InstantInv'
<1>0. /\ UNCHANGED <<inodes, dir, mutations, snapshots, todo, observed, fd, atStart, atScan>>
      /\ report = "none" /\ p \in scan.member /\ scan # NoScan
  <2>1. p \in scan.member
    BY DEF StatMember
  <2>2. scan # NoScan
    BY <2>1 DEF NoScan
  <2> QED
    BY <2>1, <2>2 DEF StatMember, directory, history
<1>1. ASSUME dir[p] # 0, UNCHANGED <<stage, report>>,
             scan' = [scan EXCEPT !.member = @ \ {p}, !.files = SetDefault(@, p, Metadata(dir[p]))]
      PROVE  InstantInv'
  <2> DEFINE files == SetDefault(scan.files, p, Metadata(dir[p]))
  <2>1. /\ DOMAIN files = DOMAIN scan.files \cup {p}
        /\ \A q \in DOMAIN scan.files : files[q] = scan.files[q]
        /\ files[p] = Metadata(dir[p]) \/ p \in DOMAIN scan.files
    BY DEF SetDefault
  <2> HIDE DEF files
  <2>2. scan' = [folders |-> scan.folders, left |-> scan.left, member |-> scan.member \ {p},
                 files |-> files]
    BY <1>1, StatScan DEF IdentityInv, files
  <2>3. /\ scan'.folders = scan.folders /\ scan'.left = scan.left
        /\ scan'.member = scan.member \ {p} /\ scan'.files = files
    BY <2>2
  <2>4. Past(Metadata(dir[p]))
    <3>1. dir[p] \in DOMAIN inodes
      BY <1>1 DEF IdentityInv, ShapeInv
    <3>2. inodes[dir[p]] \in Inodes
      BY <3>1 DEF IdentityInv, ShapeInv
    <3> QED
      BY <3>1, <3>2 DEF Past, Metadata, Inodes, InstantInv, StampsInv, IdentityInv, ShapeInv
  <2>5. ASSUME p \in DOMAIN observed, Metadata(dir[p]) = snapshots[p] PROVE Unchanged(p)
    <3>1. p \in DOMAIN snapshots /\ snapshots[p].ino = dir[p]
      BY <2>5 DEF Metadata, IdentityInv, ControlInv
    <3>2. inodes[dir[p]].kind = "regular"
      BY <2>5, <3>1 DEF InstantInv, ObservedInv
    <3> QED
      BY <1>1, <2>5, <3>1, <3>2 DEF Unchanged
  <2>6. \A q \in DOMAIN files :
          \/ q \in DOMAIN scan.files /\ files[q] = scan.files[q]
          \/ /\ q \in scan.member /\ Past(files[q])
             /\ q \in DOMAIN observed /\ files[q] = snapshots[q] => Unchanged(q)
    BY <1>0, <2>1, <2>4, <2>5
  <2> QED
    BY <1>0, <1>1, <2>1, <2>3, <2>6, MemberInstant
<1>2. CASE UNCHANGED scan /\ stage' = "end" /\ report' \in {"fail", "raised"}
  BY <1>0, <1>2, MemberInstant
<1> QED
  BY <1>1, <1>2 DEF StatMember, Reaches, Raise, Reject

LEMMA EndInstant ==
  ASSUME IdentityInv, InstantInv, EndInventory
  PROVE  InstantInv'
<1>0. /\ UNCHANGED <<inodes, dir, mutations, observed, fd, atStart, atScan>>
      /\ scan' = NoScan /\ scan.folders = {} /\ scan.left = {} /\ scan.member = {}
      /\ report = "none" /\ scan # NoScan
  BY DEF EndInventory, directory, history, NoScan
<1>1. fd = None
  BY <1>0 DEF IdentityInv, ControlInv
<1>2. ~Listed' /\ DOMAIN scan'.files = {} /\ Listed
  BY <1>0, EmptySequence DEF NoScan, Listed
<1>3. ASSUME UNCHANGED snapshots PROVE StampsInv' /\ ObservedInv'
  BY <1>0, <1>1, <1>2, <1>3 DEF InstantInv, StampsInv, Past, ObservedInv, Still
<1>4. ASSUME report' # "pass" PROVE ListedInv'
  BY <1>0, <1>2, <1>4 DEF InstantInv, ListedInv
<1>5. CASE UNCHANGED snapshots /\ report' # "pass"
  BY <1>3, <1>4, <1>5 DEF InstantInv
<1>6. CASE stage = "open" /\ snapshots' = scan.files /\ UNCHANGED report
  <2>1. DOMAIN observed = {}
    BY <1>6 DEF IdentityInv, ControlInv
  <2>2. StampsInv' /\ ObservedInv'
    BY <1>0, <1>1, <1>2, <1>6, <2>1 DEF InstantInv, StampsInv, Past, ObservedInv
  <2> QED
    BY <1>0, <1>4, <1>6, <2>2 DEF InstantInv
<1>7. ASSUME stage = "final", WithinLimits(scan.files), ~Drifted(scan.files), UNCHANGED snapshots
      PROVE  InstantInv'
  <2>1. scan.files = snapshots /\ DOMAIN observed = DOMAIN snapshots
    BY <1>7 DEF Drifted, IdentityInv, RereadInv
  <2>2. /\ DOMAIN atScan \subseteq DOMAIN snapshots
        /\ \A p \in DOMAIN snapshots : WasThere(p) /\ WasListed(p)
        /\ \A p \in DOMAIN atStart : Folder[p] = Root => p \in DOMAIN atScan
        /\ atScan \in [DOMAIN atScan -> Data]
    BY <1>0, <1>2, <1>7, <2>1 DEF InstantInv, ListedInv
  <2>3. observed = atScan
    <3>1. DOMAIN atScan = DOMAIN observed
      BY <2>1, <2>2 DEF WasListed
    <3>2. observed \in [DOMAIN observed -> Data]
      BY DEF IdentityInv, ShapeInv
    <3> QED
      BY <2>1, <2>2, <3>1, <3>2 DEF WasListed
  <2>4. Total([p \in DOMAIN snapshots |-> snapshots[p].size]) <= MaxTotalBytes
    BY <1>7, <2>1 DEF WithinLimits
  <2>5. ListedInv'
    BY <1>0, <1>2, <1>7, <2>2, <2>3, <2>4 DEF InstantInv, ListedInv, WasThere
  <2> QED
    BY <1>3, <1>7, <2>5 DEF InstantInv
<1> QED
  BY <1>0, <1>5, <1>6, <1>7 DEF EndInventory, Reject

\* A step that reads, or judges what was read.
LEMMA ReaderInstant ==
  ASSUME IdentityInv, InstantInv,
         UNCHANGED <<inodes, dir, mutations, scan, snapshots, atStart, atScan>>,
         scan = NoScan, report' # "pass", ObservedInv'
  PROVE  InstantInv'
<1>1. ~Listed'
  BY DEF NoScan, Listed
<1> QED
  BY <1>1 DEF InstantInv, StampsInv, Past, ListedInv

LEMMA ReadInstant ==
  ASSUME IdentityInv, InstantInv, OpenFile \/ ReadData \/ FinishRead \/ NextCheck
  PROVE  InstantInv'
<1>0. /\ UNCHANGED <<inodes, dir, mutations, scan, snapshots, atStart, atScan>>
      /\ report' # "pass" /\ scan = NoScan
  <2>1. report = "none" /\ stage \notin {"open", "drift", "final", "end"}
    BY DEF OpenFile, ReadData, FinishRead, NextCheck, Reading, IdentityInv, ControlInv
  <2>2. report' \in {"none", "fail"}
    BY <2>1 DEF OpenFile, ReadData, FinishRead, NextCheck, ReadFails, Reject, TakeManifest, TakeHash,
                TakeReading, TakeFinal
  <2> QED
    BY <2>1, <2>2 DEF OpenFile, ReadData, FinishRead, NextCheck, directory, history, IdentityInv,
                      ControlInv
<1>1. ASSUME UNCHANGED observed, fd' = None \/ fd'.data = None PROVE ObservedInv'
  BY <1>0, <1>1 DEF InstantInv, ObservedInv, Still
<1>2. CASE OpenFile
  BY <1>0, <1>1, <1>2, ReaderInstant DEF OpenFile, ReadFails
<1>3. CASE NextCheck
  BY <1>0, <1>1, <1>3, ReaderInstant DEF NextCheck
<1>4. CASE ReadData
  <2>1. /\ UNCHANGED <<todo, observed>> /\ fd # None
        /\ fd' = [fd EXCEPT !.data = inodes[fd.ino].data] /\ inodes[fd.ino].kind = "regular"
    BY <1>4 DEF ReadData
  <2>2. fd'.ino = fd.ino /\ fd'.data = inodes[fd.ino].data
    BY <2>1 DEF IdentityInv, ShapeInv
  <2>3. ObservedInv'
    BY <1>0, <2>1, <2>2 DEF InstantInv, ObservedInv, Still
  <2> QED
    BY <1>0, <2>3, ReaderInstant
<1>5. CASE FinishRead
  <2> DEFINE p == Head(todo)
  <2>1. CASE ReadFails
    BY <1>0, <1>1, <2>1, ReaderInstant DEF ReadFails
  <2>2. ASSUME fd # None, fd.data # None, ReadAccepted(p, fd.data), fd' = None,
               observed' = SetDefault(observed, p, fd.data)
        PROVE  InstantInv'
    <3>1. /\ DOMAIN observed' = DOMAIN observed \cup {p} /\ observed'[p] = fd.data
          /\ Grows
      BY <2>2, Observes
    <3>2. Metadata(fd.ino) = snapshots[p]
      BY <2>2 DEF ReadAccepted
    <3> HIDE DEF p
    <3>3. fd.ino = snapshots[p].ino /\ Still(p) /\ Size[inodes[fd.ino].data] = snapshots[p].size
      BY <3>2 DEF Metadata, Still
    <3>4. fd.data = inodes[fd.ino].data /\ inodes[fd.ino].kind = "regular"
      BY <2>2, <3>3 DEF InstantInv, ObservedInv, p
    <3>5. ObservedInv'
      <4>1. ASSUME NEW q \in DOMAIN observed'
            PROVE  /\ inodes[snapshots[q].ino].kind = "regular"
                   /\ Still(q)' => observed'[q] = inodes[snapshots[q].ino].data
                   /\ Size[observed'[q]] = snapshots[q].size
        BY <1>0, <3>1, <3>3, <3>4, <4>1 DEF InstantInv, ObservedInv, Still, Grows
      <4> QED
        BY <1>0, <2>2, <4>1 DEF ObservedInv
    <3> QED
      BY <1>0, <3>5, ReaderInstant
  <2> QED
    BY <1>5, <2>1, <2>2 DEF FinishRead
<1> QED
  BY <1>2, <1>3, <1>4, <1>5

LEMMA InitInstant == Init => InstantInv
<1> SUFFICES ASSUME Init PROVE InstantInv
  OBVIOUS
<1>1. \A i \in DOMAIN inodes : inodes[i].stamp = 0
  BY DEF Init
<1>2. /\ DOMAIN atStart = {} /\ atStart \in [DOMAIN atStart -> Data]
      /\ DOMAIN atScan = {} /\ atScan \in [DOMAIN atScan -> Data]
  BY EmptySequence DEF Init
<1> QED
  BY <1>1, <1>2, EmptySequence DEF Init, NoScan, InstantInv, StampsInv, ObservedInv, ListedInv

\* Where each write leaves a timestamp nobody saw before, ListedInv holds always.
LEMMA InstantInvariance ==
  ASSUME ~Stealthy
  PROVE  Spec => []InstantInv
<1>1. IdentityInv /\ InstantInv /\ [Next]_vars => InstantInv'
  <2> SUFFICES ASSUME IdentityInv, InstantInv, [Next]_vars PROVE InstantInv'
    OBVIOUS
  <2>1. CASE Verify
    BY <2>1, ListInstant, LstatInstant, StatInstant, EndInstant, ReadInstant DEF Verify
  <2>2. CASE Write \/ Put \/ Unlink \/ PutBack
    BY <2>2, WriterInstant
  <2>3. CASE UNCHANGED vars
    <3>1. UNCHANGED <<inodes, dir, mutations, scan, snapshots, observed, fd, todo, stage, report,
                      atStart, atScan>>
      BY <2>3 DEF vars, directory, history
    <3>2. StampsInv' /\ ObservedInv'
      BY <3>1 DEF InstantInv, StampsInv, Past, ObservedInv, Still
    <3>3. ListedInv'
      BY <3>1 DEF InstantInv, ListedInv, Listed, Unchanged, Metadata, WasThere, WasListed
    <3> QED
      BY <3>2, <3>3 DEF InstantInv
  <2> QED
    BY <2>1, <2>2, <2>3 DEF Next
<1> QED
  BY <1>1, InitInstant, IdentityInvariance, PTL DEF Spec

(* Where each write leaves a timestamp nobody saw before, a PASS is true   *)
(* of the files it attests: together they satisfy the whole contract, they *)
(* all held what was observed when the last inventory began, and each did  *)
(* so when the inventory listed its folder, which then held no other.      *)
THEOREM PassHoldsOfAttestedFiles ==
  ASSUME ~Stealthy
  PROVE  Spec => []PassHoldsInLastInventory
<1>1. IdentityInv /\ InstantInv /\ PassHoldsOfIdentity => PassHoldsInLastInventory
  <2> SUFFICES ASSUME IdentityInv, InstantInv, PassHoldsOfIdentity, report = "pass"
               PROVE  PassHoldsInLastInventory
    BY DEF PassHoldsInLastInventory
  <2>1. /\ Satisfied(observed)
        /\ \A p \in DOMAIN snapshots : WasThere(p)
        /\ \A p \in DOMAIN atStart : Folder[p] = Root => p \in DOMAIN observed
        /\ observed = atScan
        /\ Total([p \in DOMAIN snapshots |-> snapshots[p].size]) <= MaxTotalBytes
    BY DEF PassHoldsOfIdentity, InstantInv, ListedInv
  <2>2. DOMAIN observed = DOMAIN snapshots
    BY DEF IdentityInv, RereadInv
  <2>3. [p \in DOMAIN observed |-> Size[observed[p]]] = [p \in DOMAIN snapshots |-> snapshots[p].size]
    BY <2>2 DEF InstantInv, ObservedInv
  <2>4. Acceptable(observed)
    BY <2>1, <2>3 DEF Acceptable
  <2>5. \A p \in DOMAIN observed : p \in DOMAIN atStart /\ observed[p] = atStart[p]
    BY <2>1, <2>2 DEF WasThere
  <2> QED
    BY <2>1, <2>4, <2>5 DEF PassHoldsInLastInventory
<1> QED
  BY <1>1, InstantInvariance, IdentityInvariance, PassIsCoherent, PTL

(* In a directory without folders no inventory mixes two moments: there a  *)
(* PASS is true of the whole directory at one instant, when the last       *)
(* inventory listed it.                                                    *)
THEOREM PassHoldsOfFlatDirectories ==
  ASSUME ~Stealthy, \A p \in Paths : Folder[p] = Root
  PROVE  Spec => [](report = "pass" => Acceptable(atStart) /\ observed = atStart)
<1>1. IdentityInv /\ InstantInv /\ PassHoldsInLastInventory =>
        (report = "pass" => Acceptable(atStart) /\ observed = atStart)
  <2> SUFFICES ASSUME IdentityInv, InstantInv, PassHoldsInLastInventory, report = "pass"
               PROVE  Acceptable(observed) /\ observed = atStart
    OBVIOUS
  <2>1. /\ Acceptable(observed)
        /\ \A p \in DOMAIN observed : p \in DOMAIN atStart /\ observed[p] = atStart[p]
        /\ \A p \in DOMAIN atStart : Folder[p] = Root => p \in DOMAIN observed
    BY DEF PassHoldsInLastInventory
  <2>2. atStart \in [DOMAIN atStart -> Data] /\ DOMAIN atStart \subseteq Paths
    BY DEF InstantInv, ListedInv
  <2>3. observed \in [DOMAIN observed -> Data]
    BY DEF IdentityInv, ShapeInv
  <2>4. DOMAIN observed = DOMAIN atStart
    BY <2>1, <2>2
  <2> QED
    BY <2>1, <2>2, <2>3, <2>4
<1> QED
  BY <1>1, InstantInvariance, IdentityInvariance, PassHoldsOfAttestedFiles, PTL

-----------------------------------------------------------------------------
(* The verdict on a directory nobody writes to: QuietInv *)

\* The contract, part by part.
LEMMA Deserves ==
  ASSUME Deserved
  PROVE  LET m == Parse[Contents[ManifestPath]] IN
         /\ \A p \in DOMAIN Contents : Size[Contents[p]] <= MaxFileBytes
         /\ Cardinality(DOMAIN Contents) <= MaxEntries
         /\ Total([p \in DOMAIN Contents |-> Size[Contents[p]]]) <= MaxTotalBytes
         /\ ManifestPath \in DOMAIN Contents
         /\ Size[Contents[ManifestPath]] <= MaxManifestBytes
         /\ m # None /\ Anchored(Contents[ManifestPath]) /\ Covered(m, DOMAIN Contents)
         /\ \A p \in DOMAIN m.files : HashAccepted(m.files[p], Contents[p])
         /\ \A n \in DOMAIN m.checks :
              profile \in m.checks[n].profiles =>
                  [k \in DOMAIN m.checks[n].reads |-> Contents[m.checks[n].reads[k]]]
                      \in m.checks[n].holds
<1> HIDE DEF Contents
<1> QED
  BY DEF Deserved, Acceptable, Satisfied

\* Verification does not change what the directory deserves.
LEMMA DirectoryKept ==
  ASSUME UNCHANGED <<directory, profile, anchor>>
  PROVE  Present' = Present /\ Contents' = Contents /\ Deserved' = Deserved
<1>1. inodes' = inodes /\ dir' = dir
  BY DEF directory
<1>2. Present' = Present /\ Contents' = Contents
  BY <1>1 DEF Present, Contents
<1>3. Deserved' = Deserved
  BY <1>2 DEF Deserved, Acceptable, Satisfied, Anchored, Covered, HashAccepted
<1> QED
  BY <1>2, <1>3

\* A quiet directory: its files are regular, and the verifier knows them.
Quiet == IdentityInv /\ QuietInv /\ mutations = 0

LEMMA QuietFacts ==
  ASSUME Quiet
  PROVE  /\ DOMAIN Contents = Present /\ Contents = [p \in Present |-> Contents[p]]
         /\ Present \subseteq Paths
         /\ \A p \in Present :
               /\ dir[p] # 0 /\ dir[p] \in DOMAIN inodes /\ inodes[dir[p]].kind = "regular"
               /\ Contents[p] = inodes[dir[p]].data /\ Contents[p] \in Data
               /\ Metadata(dir[p]).ino = dir[p] /\ Metadata(dir[p]).size = Size[Contents[p]]
<1>1. ASSUME NEW p \in Present
      PROVE  /\ dir[p] # 0 /\ dir[p] \in DOMAIN inodes /\ inodes[dir[p]].kind = "regular"
             /\ inodes[dir[p]].data \in Data
  <2>1. dir[p] # 0 /\ dir[p] \in DOMAIN inodes
    BY DEF Present, Quiet, IdentityInv, ShapeInv
  <2>2. inodes[dir[p]] \in Inodes
    BY <2>1 DEF Quiet, IdentityInv, ShapeInv
  <2> QED
    BY <2>1, <2>2 DEF Quiet, QuietInv, Inodes
<1>2. Contents = [p \in Present |-> inodes[dir[p]].data]
  <2>1. {q \in Present : inodes[dir[q]].kind = "regular"} = Present
    BY <1>1
  <2> QED
    BY <2>1 DEF Contents
<1>3. Present \subseteq Paths
  BY DEF Present
<1> QED
  BY <1>1, <1>2, <1>3 DEF Metadata

\* Past the first inventory, all that was read is the manifest's word for it.
LEMMA QuietManifest ==
  ASSUME Quiet, stage \notin {"open", "manifest", "end"}
  PROVE  /\ ManifestPath \in Present /\ manifest = Parse[Contents[ManifestPath]]
         /\ manifest # None
BY DEF Quiet, QuietInv, IdentityInv, ManifestInv

\* The root is above every file; so is, of any other folder it is in, the next.
LEMMA RootAbove ==
  ASSUME NEW p \in Paths
  PROVE  Root \in Above(p)
<1> DEFINE s == Folder[p]
<1>1. s \in Seq(ToSet(s))
  BY FoldersAssumption
<1> HIDE DEF s
<1>2. SubSeq(s, 1, 0) = <<>> /\ 0 \in 0 .. Len(s)
  BY <1>1
<1> QED
  BY <1>2 DEF s, Above, Root

LEMMA NextAbove ==
  ASSUME NEW p \in Paths, NEW f \in Above(p), Folder[p] # f
  PROVE  Above(p) \cap Subfolders(f) # {}
<1> DEFINE s == Folder[p]
<1>1. s \in Seq(ToSet(s))
  BY FoldersAssumption
<1>2. PICK n \in 0 .. Len(s) : f = SubSeq(s, 1, n)
  BY DEF Above
<1>3. s # f
  OBVIOUS
<1> HIDE DEF s
<1>4. SubSeq(s, 1, Len(s)) = s /\ Len(s) \in Nat
  BY <1>1
<1>5. n + 1 \in 0 .. Len(s) /\ n \in Nat
  <2> DEFINE last == Len(s)
  <2>1. n # last
    <3>1. ASSUME n = Len(s) PROVE FALSE
      BY <1>2, <1>3, <1>4, <3>1, Zenon
    <3> QED
      BY <3>1
  <2>2. n \in 0 .. last /\ last \in Nat
    BY <1>4
  <2> HIDE DEF last
  <2>3. n + 1 \in 0 .. last /\ n \in Nat
    BY <2>1, <2>2
  <2> QED
    BY <2>3 DEF last
<1> DEFINE g == SubSeq(s, 1, n + 1)
<1>6. Len(g) = n + 1 /\ Len(f) = n /\ SubSeq(g, 1, n) = f
  BY <1>1, <1>2, <1>5
<1>7. g \in Above(p)
  BY <1>5 DEF Above, s
<1>8. g \in Folders
  BY <1>7 DEF Folders
<1> HIDE DEF g
<1>9. g \in Subfolders(f)
  BY <1>6, <1>8 DEF Subfolders
<1> QED
  BY <1>7, <1>9

\* One lemma for each action of Verify.
LEMMA ListQuiet ==
  ASSUME Quiet, NEW f \in Folders, ListNames(f)
  PROVE  QuietInv'
<1>1. /\ UNCHANGED <<directory, profile, anchor, stage, snapshots, todo, fd, observed, manifest,
                     readings, failed, report>>
  BY DEF ListNames, arguments, contract
<1>2. scan.left = {} /\ scan.member = {} /\ report = "none"
  BY ListScan DEF Quiet
<1>3. PICK found :
        /\ \A p \in Present : Above(p) \cap Subfolders(f) \subseteq found
        /\ scan' = [folders |-> (scan.folders \ {f}) \cup found, left |-> In(f),
                    member |-> {}, files |-> scan.files]
  BY ListScan DEF Quiet
<1>4. /\ scan'.folders = (scan.folders \ {f}) \cup found /\ scan'.left = In(f)
      /\ scan'.member = {} /\ scan'.files = scan.files
  BY <1>3
<1>5. Present' = Present /\ Contents' = Contents /\ Deserved' = Deserved
  BY <1>1, DirectoryKept
<1>6. /\ scan'.left \cup scan'.member \cup DOMAIN scan'.files \subseteq Present
      /\ scan'.files = [p \in DOMAIN scan'.files |-> Metadata(dir[p])]
  BY <1>4 DEF Quiet, QuietInv, In
<1>7. ASSUME NEW p \in Present
      PROVE  \/ p \in scan'.left \cup scan'.member \cup DOMAIN scan'.files
             \/ Above(p) \cap scan'.folders # {}
  <2>0. p \in Paths
    BY DEF Present
  <2>1. p \in DOMAIN scan.files \/ \E g \in Above(p) : g \in scan.folders
    BY <1>2 DEF Quiet, QuietInv
  <2>2. CASE p \in DOMAIN scan.files
    BY <1>4, <2>2
  <2>3. ASSUME NEW g \in Above(p), g \in scan.folders, g # f PROVE Above(p) \cap scan'.folders # {}
    BY <1>4, <2>3
  <2>4. CASE f \in Above(p) /\ Folder[p] = f
    BY <1>4, <2>4 DEF In
  <2>5. CASE f \in Above(p) /\ Folder[p] # f
    BY <1>3, <1>4, <2>0, <2>5, NextAbove
  <2> QED
    BY <2>1, <2>2, <2>3, <2>4, <2>5
<1> QED
  BY <1>1, <1>2, <1>5, <1>6, <1>7 DEF Quiet, QuietInv, directory, Metadata

\* A step that goes on with the inventory.
LEMMA MemberQuiet ==
  ASSUME Quiet, UNCHANGED <<directory, profile, anchor, stage, snapshots, todo, fd, observed,
                            manifest, readings, failed, report>>,
         scan'.folders = scan.folders,
         scan'.left \cup scan'.member \cup DOMAIN scan'.files
             = scan.left \cup scan.member \cup DOMAIN scan.files,
         scan'.files = [p \in DOMAIN scan'.files |-> Metadata(dir[p])]
  PROVE  QuietInv'
<1>1. Present' = Present /\ Contents' = Contents /\ Deserved' = Deserved
  BY DirectoryKept
<1> QED
  BY <1>1 DEF Quiet, QuietInv, directory, Metadata

LEMMA MemberPresent ==
  ASSUME Quiet, NEW p \in scan.left \cup scan.member
  PROVE  /\ p \in Present /\ dir[p] # 0 /\ inodes[dir[p]].kind = "regular" /\ p \in DOMAIN Contents
         /\ inodes[dir[p]].data = Contents[p] /\ Contents[p] \in Data
<1>1. p \in Present
  BY DEF Quiet, QuietInv
<1> QED
  BY <1>1, QuietFacts

LEMMA LstatQuiet ==
  ASSUME Quiet, NEW p \in Paths, LstatMember(p)
  PROVE  QuietInv'
<1>0. /\ UNCHANGED <<directory, profile, anchor, snapshots, todo, fd, observed, manifest, readings>>
      /\ report = "none" /\ p \in scan.left /\ scan.member = {}
  BY DEF LstatMember, arguments, contract
<1>1. dir[p] # 0 /\ inodes[dir[p]].kind = "regular"
  BY <1>0, MemberPresent
<1>2. scan' = [scan EXCEPT !.left = @ \ {p}, !.member = {p}] /\ UNCHANGED <<stage, failed, report>>
  BY <1>1 DEF LstatMember
<1>3. scan' = [folders |-> scan.folders, left |-> scan.left \ {p}, member |-> {p},
               files |-> scan.files]
  BY <1>2, LstatScan DEF Quiet, IdentityInv
<1>4. /\ scan'.folders = scan.folders /\ scan'.left = scan.left \ {p} /\ scan'.member = {p}
      /\ scan'.files = scan.files
  BY <1>3
<1>5. scan'.files = [q \in DOMAIN scan'.files |-> Metadata(dir[q])]
  BY <1>4 DEF Quiet, QuietInv
<1>6. scan'.left \cup scan'.member \cup DOMAIN scan'.files
          = scan.left \cup scan.member \cup DOMAIN scan.files
  BY <1>0, <1>4
<1> QED
  BY <1>0, <1>2, <1>4, <1>5, <1>6, MemberQuiet

LEMMA StatQuiet ==
  ASSUME Quiet, NEW p \in Paths, StatMember(p)
  PROVE  QuietInv'
<1>0. /\ UNCHANGED <<directory, profile, anchor, snapshots, todo, fd, observed, manifest, readings>>
      /\ report = "none" /\ p \in scan.member
  BY DEF StatMember, arguments, contract
<1>1. fd = None /\ readings # None /\ stage \in {"open", "drift", "final"}
  <2>1. scan # NoScan
    BY <1>0 DEF NoScan
  <2> QED
    BY <1>0, <2>1 DEF Quiet, IdentityInv, ShapeInv, ControlInv, Stages
<1>2. /\ p \in Present /\ dir[p] # 0 /\ inodes[dir[p]].kind = "regular" /\ p \in DOMAIN Contents
      /\ inodes[dir[p]].data = Contents[p] /\ Contents[p] \in Data
  BY <1>0, MemberPresent
<1>3. Reaches(p) = {dir[p]}
  BY <1>2 DEF Reaches
<1>4. CASE Reject /\ Size[inodes[dir[p]].data] > MaxFileBytes /\ UNCHANGED scan
  <2>1. Present' = Present /\ Contents' = Contents /\ Deserved' = Deserved
    BY <1>0, DirectoryKept
  <2>2. ~Deserved
    <3>1. ~(Size[Contents[p]] <= MaxFileBytes)
      BY <1>2, <1>4, DataAssumption, LimitsAssumption
    <3> QED
      BY <1>2, <3>1, Deserves
  <2> QED
    BY <1>0, <1>1, <1>4, <2>1, <2>2 DEF Quiet, QuietInv, Reject, directory, Metadata
<1>5. CASE scan' = [scan EXCEPT !.member = @ \ {p}, !.files = SetDefault(@, p, Metadata(dir[p]))]
           /\ UNCHANGED <<stage, failed, report>>
  <2> DEFINE files == SetDefault(scan.files, p, Metadata(dir[p]))
  <2>1. DOMAIN files = DOMAIN scan.files \cup {p} /\ files = [q \in DOMAIN files |-> Metadata(dir[q])]
    <3>1. scan.files = [q \in DOMAIN scan.files |-> Metadata(dir[q])]
      BY DEF Quiet, QuietInv
    <3>2. DOMAIN files = DOMAIN scan.files \cup {p}
      BY DEF SetDefault
    <3>3. files = [q \in DOMAIN scan.files \cup {p} |->
                      IF q \in DOMAIN scan.files THEN scan.files[q] ELSE Metadata(dir[p])]
      BY DEF SetDefault
    <3>4. \A q \in DOMAIN scan.files : scan.files[q] = Metadata(dir[q])
      BY <3>1
    <3>5. \A q \in DOMAIN scan.files \cup {p} :
            (IF q \in DOMAIN scan.files THEN scan.files[q] ELSE Metadata(dir[p])) = Metadata(dir[q])
      BY <3>4
    <3> HIDE DEF files
    <3> QED
      BY <3>2, <3>3, <3>5
  <2> HIDE DEF files
  <2>2. scan' = [folders |-> scan.folders, left |-> scan.left, member |-> scan.member \ {p},
                 files |-> files]
    BY <1>5, StatScan DEF Quiet, IdentityInv, files
  <2>3. /\ scan'.folders = scan.folders /\ scan'.left = scan.left
        /\ scan'.member = scan.member \ {p} /\ scan'.files = files
    BY <2>2
  <2>4. scan'.left \cup scan'.member \cup DOMAIN scan'.files
            = scan.left \cup scan.member \cup DOMAIN scan.files
    BY <1>0, <2>1, <2>3
  <2> QED
    BY <1>0, <1>5, <2>1, <2>3, <2>4, MemberQuiet
<1> QED
  BY <1>2, <1>3, <1>4, <1>5 DEF StatMember

LEMMA EndQuiet ==
  ASSUME Quiet, EndInventory
  PROVE  QuietInv'
<1>0. /\ UNCHANGED <<directory, profile, anchor, fd, observed, manifest, readings>>
      /\ report = "none" /\ scan.folders = {} /\ scan.left = {} /\ scan.member = {}
      /\ fd = None /\ readings # None /\ scan' = NoScan /\ stage \in {"open", "drift", "final"}
  <2>1. /\ report = "none" /\ scan.folders = {} /\ scan.left = {} /\ scan.member = {}
        /\ scan' = NoScan
    BY DEF EndInventory
  <2>2. scan # NoScan
    BY <2>1 DEF NoScan
  <2>3. fd = None /\ readings # None /\ stage \in {"open", "drift", "final"}
    BY <2>1, <2>2 DEF Quiet, IdentityInv, ShapeInv, ControlInv, Stages
  <2> QED
    BY <2>1, <2>3 DEF EndInventory, arguments, contract
<1>1. Present' = Present /\ Contents' = Contents /\ Deserved' = Deserved
  BY <1>0, DirectoryKept
<1>2. scan.files = [p \in Present |-> Metadata(dir[p])] /\ DOMAIN scan.files = DOMAIN Contents
      /\ [p \in DOMAIN scan.files |-> scan.files[p].size] = [p \in DOMAIN Contents |-> Size[Contents[p]]]
  <2>1. DOMAIN scan.files = Present
    BY <1>0 DEF Quiet, QuietInv
  <2>2. scan.files = [p \in Present |-> Metadata(dir[p])]
    BY <2>1 DEF Quiet, QuietInv
  <2> QED
    BY <2>2, QuietFacts
<1>3. ~WithinLimits(scan.files) => ~Deserved
  BY <1>2, Deserves DEF WithinLimits
<1>4. ~Drifted(scan.files)
  BY <1>0, <1>2 DEF Drifted, Quiet, QuietInv
<1>5. /\ scan'.left \cup scan'.member \cup DOMAIN scan'.files \subseteq Present
      /\ scan'.files = [p \in DOMAIN scan'.files |-> Metadata(dir[p])']
      /\ \A p \in Present : Above(p) \cap scan'.folders # {}
  <2>1. \A p \in Present : Root \in Above(p)
    BY RootAbove DEF Present
  <2> QED
    BY <1>0, <2>1, EmptySequence DEF NoScan
<1>6. ASSUME Reject, UNCHANGED <<snapshots, todo>>, ~Deserved PROVE QuietInv'
  BY <1>0, <1>1, <1>5, <1>6 DEF Quiet, QuietInv, Reject, directory, Metadata
<1>7. ASSUME stage' \in {"manifest", "reread"}, snapshots' = scan.files, UNCHANGED <<failed, report>>,
             stage' = "reread" => ToSet(todo') \subseteq DOMAIN snapshots'
      PROVE  QuietInv'
  BY <1>0, <1>1, <1>2, <1>5, <1>7 DEF Quiet, QuietInv, directory, Metadata
<1>8. ASSUME stage = "drift", todo' = Sorted(DOMAIN snapshots), UNCHANGED snapshots
      PROVE  snapshots' = scan.files /\ ToSet(todo') \subseteq DOMAIN snapshots'
  BY <1>2, <1>8, SortedPaths DEF Quiet, QuietInv, IdentityInv, ShapeInv
<1>9. ASSUME stage = "final", WithinLimits(scan.files), stage' = "end",
             report' = IF failed THEN "fail" ELSE "pass", UNCHANGED <<snapshots, todo, failed>>
      PROVE  QuietInv'
  <2>1. ~failed => Deserved
    <3> SUFFICES ASSUME ~failed PROVE Deserved
      OBVIOUS
    <3>1. Satisfied(observed)
      BY <1>0, <1>9, CleanIsSatisfied DEF Quiet, Clean
    <3>2. observed = Contents
      <4>1. DOMAIN observed = DOMAIN Contents
        BY <1>9, QuietFacts DEF Quiet, QuietInv, IdentityInv, RereadInv
      <4>2. \A p \in DOMAIN observed : observed[p] = Contents[p]
        BY DEF Quiet, QuietInv
      <4>3. observed = [p \in DOMAIN observed |-> observed[p]]
        BY DEF Quiet, IdentityInv, ShapeInv
      <4>4. Contents = [p \in DOMAIN Contents |-> Contents[p]]
        BY QuietFacts
      <4> QED
        BY <4>1, <4>2, <4>3, <4>4
    <3>3. Total([p \in DOMAIN Contents |-> Size[Contents[p]]]) <= MaxTotalBytes
      BY <1>2, <1>9 DEF WithinLimits
    <3> QED
      BY <3>1, <3>2, <3>3 DEF Deserved, Acceptable
  <2>2. snapshots = [p \in Present |-> Metadata(dir[p])]
    BY <1>9 DEF Quiet, QuietInv
  <2> QED
    BY <1>0, <1>1, <1>5, <1>9, <2>1, <2>2 DEF Quiet, QuietInv, directory, Metadata
<1> QED
  BY <1>3, <1>4, <1>6, <1>7, <1>8, <1>9 DEF EndInventory

\* A read may fail only where the directory deserves it.
LEMMA FailsQuiet ==
  ASSUME Quiet, ReadFails, report = "none", todo # <<>>, ~Deserved,
         UNCHANGED <<directory, profile, anchor, scan, snapshots>>
  PROVE  QuietInv'
<1>1. Present' = Present /\ Contents' = Contents /\ Deserved' = Deserved
  BY DirectoryKept
<1>2. UNCHANGED <<observed, manifest>> /\ fd' = None
  BY DEF ReadFails
<1>3. readings # None /\ stage \notin {"open", "end"}
  BY DEF Quiet, IdentityInv, ControlInv
<1>4. CASE stage = "checks" /\ failed' = TRUE /\ UNCHANGED <<stage, report>>
  BY <1>1, <1>2, <1>3, <1>4 DEF Quiet, QuietInv, directory, Metadata
<1>5. CASE Reject /\ UNCHANGED <<todo, readings>>
  BY <1>1, <1>2, <1>3, <1>5 DEF Quiet, QuietInv, Reject, directory, Metadata
<1> QED
  BY <1>4, <1>5 DEF ReadFails

\* What a check has yet to read is declared.
LEMMA CheckReadsDeclared ==
  ASSUME IdentityInv, stage = "checks", ~failed, todo # <<>>
  PROVE  Head(todo) \in DOMAIN manifest.files
<1> DEFINE reads == CheckReads(manifest, check)
<1>1. /\ Len(readings) + Len(todo) = Len(reads) /\ readings # None
      /\ \A k \in DOMAIN todo : reads[Len(readings) + k] = todo[k]
  BY DEF IdentityInv, ReadingsInv
<1>2. /\ Len(todo) \in Nat \ {0} /\ Head(todo) = todo[1] /\ 1 \in DOMAIN todo
  <2>1. todo \in Seq(Paths)
    BY DEF IdentityInv, ShapeInv
  <2> QED
    BY <2>1, ToSetTail
<1>3. Len(readings) \in Nat
  BY <1>1 DEF IdentityInv, ShapeInv
<1>4. reads \in Seq(DOMAIN manifest.files)
  <2>1. manifest.checks[check].reads \in Seq(DOMAIN manifest.files)
    BY ManifestShape DEF IdentityInv, ControlInv, ChecksInv
  <2>2. <<>> \in Seq(DOMAIN manifest.files)
    OBVIOUS
  <2> QED
    BY <2>1, <2>2 DEF CheckReads
<1> HIDE DEF reads
<1>5. Len(readings) + 1 \in DOMAIN reads
  BY <1>1, <1>2, <1>3, <1>4
<1> QED
  BY <1>1, <1>2, <1>4, <1>5

LEMMA OpenQuiet ==
  ASSUME Quiet, OpenFile
  PROVE  QuietInv'
<1> DEFINE p == Head(todo)
<1>0. /\ UNCHANGED <<directory, profile, anchor, scan, snapshots>>
      /\ report = "none" /\ todo # <<>> /\ p \in Paths
      /\ stage \in {"manifest", "hashes", "checks", "reread"}
  BY DEF OpenFile, arguments, Reading, Quiet, IdentityInv, ShapeInv, ControlInv, Stages
<1>1. Present' = Present /\ Contents' = Contents /\ Deserved' = Deserved
  BY <1>0, DirectoryKept
<1>2. snapshots = [q \in Present |-> Metadata(dir[q])]
  BY <1>0 DEF Quiet, QuietInv
<1>3. ASSUME fd' = [ino |-> dir[p], data |-> None],
             UNCHANGED <<stage, todo, observed, contract, failed, report>>
      PROVE  QuietInv'
  BY <1>0, <1>1, <1>3 DEF Quiet, QuietInv, contract, directory, Metadata
<1>4. ASSUME ~Unchanged(p) PROVE ~Deserved
  <2>1. p \notin DOMAIN snapshots
    BY <1>2, <1>4, QuietFacts DEF Unchanged
  <2>2. CASE stage = "manifest"
    <3>1. p = ManifestPath
      BY <2>2 DEF Quiet, IdentityInv, ControlInv
    <3> QED
      BY <1>2, <2>1, <3>1, QuietFacts, Deserves
  <2>3. CASE stage \in {"hashes", "reread"}
    <3>1. p \in ToSet(todo)
      BY <1>0, ToSetTail DEF Quiet, IdentityInv, ShapeInv
    <3> QED
      BY <2>1, <2>3, <3>1 DEF Quiet, QuietInv
  <2>4. CASE stage = "checks"
    <3>1. CASE failed
      BY <3>1 DEF Quiet, QuietInv
    <3>2. CASE ~failed
      <4>1. Covered(manifest, DOMAIN snapshots)
        BY <1>0, <2>4, <3>2 DEF Quiet, IdentityInv, ManifestInv, Clean
      <4>2. p \in DOMAIN manifest.files
        BY <1>0, <2>4, <3>2, CheckReadsDeclared DEF Quiet
      <4> QED
        BY <2>1, <4>1, <4>2 DEF Covered
    <3> QED
      BY <3>1, <3>2
  <2> QED
    BY <1>0, <2>2, <2>3, <2>4
<1>5. CASE ~Unchanged(p) /\ ReadFails
  BY <1>0, <1>4, <1>5, FailsQuiet
<1> QED
  BY <1>3, <1>5 DEF OpenFile

LEMMA ReadDataQuiet ==
  ASSUME Quiet, ReadData
  PROVE  QuietInv'
<1>0. /\ UNCHANGED <<directory, profile, anchor, stage, scan, snapshots, todo, observed, manifest,
                     readings, failed, report>>
      /\ fd # None /\ fd' = [fd EXCEPT !.data = inodes[fd.ino].data]
  BY DEF ReadData, arguments, contract
<1>1. Present' = Present /\ Contents' = Contents /\ Deserved' = Deserved
  BY <1>0, DirectoryKept
<1>2. fd'.ino = fd.ino /\ fd'.data = inodes[fd.ino].data /\ fd.ino = dir[Head(todo)]
  BY <1>0 DEF Quiet, QuietInv, IdentityInv, ShapeInv
<1>3. Head(todo) \in Present
  BY <1>0 DEF Quiet, QuietInv, IdentityInv, ControlInv
<1>4. fd'.data = Contents[Head(todo)]
  BY <1>2, <1>3, QuietFacts
<1> QED
  BY <1>0, <1>1, <1>2, <1>4 DEF Quiet, QuietInv, directory, Metadata

LEMMA FinishQuiet ==
  ASSUME Quiet, FinishRead
  PROVE  QuietInv'
<1> DEFINE p == Head(todo)
           d == fd.data
<1>0. /\ UNCHANGED <<directory, profile, anchor, scan, snapshots>>
      /\ fd # None /\ d # None
  BY DEF FinishRead, arguments
<1>1. Present' = Present /\ Contents' = Contents /\ Deserved' = Deserved
  BY <1>0, DirectoryKept
<1>2. /\ todo # <<>> /\ stage \notin {"open", "end"} /\ report = "none"
      /\ readings # None /\ p \in DOMAIN snapshots /\ todo \in Seq(Paths)
  BY <1>0 DEF Quiet, IdentityInv, ShapeInv, ControlInv
<1>3. /\ snapshots = [q \in Present |-> Metadata(dir[q])] /\ p \in Present
      /\ fd.ino = dir[p] /\ d = Contents[p] /\ d \in Data
      /\ p \in DOMAIN Contents /\ DOMAIN snapshots = DOMAIN Contents
  <2>1. snapshots = [q \in Present |-> Metadata(dir[q])]
    BY <1>2 DEF Quiet, QuietInv
  <2> QED
    BY <1>0, <1>2, <2>1, QuietFacts DEF Quiet, QuietInv
<1>4. stage = "manifest" => p = ManifestPath
  BY DEF Quiet, IdentityInv, ControlInv
<1>5. ASSUME ~ReadAccepted(p, d) PROVE ~Deserved
  <2>1. ~(Size[Contents[p]] <= Limit)
    <3>1. p \in DOMAIN observed => observed[p] = d
      BY <1>3 DEF Quiet, QuietInv
    <3> QED
      BY <1>3, <1>5, <3>1 DEF ReadAccepted
  <2>2. CASE stage = "manifest"
    BY <1>3, <1>4, <2>1, <2>2, Deserves DEF Limit
  <2>3. CASE stage # "manifest"
    BY <1>3, <2>1, <2>3, Deserves DEF Limit
  <2> QED
    BY <2>2, <2>3
<1>6. CASE ~ReadAccepted(p, d) /\ ReadFails
  BY <1>0, <1>2, <1>5, <1>6, FailsQuiet
<1>7. ASSUME ReadAccepted(p, d), fd' = None, observed' = SetDefault(observed, p, d),
             \/ stage = "manifest" /\ TakeManifest(p, d)
             \/ stage = "hashes" /\ TakeHash(p, d)
             \/ stage = "checks" /\ TakeReading(p, d)
             \/ stage = "reread" /\ TakeFinal
      PROVE  QuietInv'
  <2>1. \A q \in DOMAIN observed' : q \in Present /\ observed'[q] = Contents[q]
    <3>1. DOMAIN observed' = DOMAIN observed \cup {p} /\ observed'[p] = d /\ Grows
      BY <1>0, <1>7, Observes DEF Quiet
    <3> QED
      BY <1>3, <3>1 DEF Grows, Quiet, QuietInv
  <2>2. /\ p \in ToSet(todo) /\ ToSet(Tail(todo)) \subseteq ToSet(todo)
    BY <1>2, ToSetTail
  <2> HIDE DEF p, d
  <2>3. CASE stage = "manifest" /\ TakeManifest(p, d)
    <3>1. CASE Parse[d] = None /\ Reject /\ UNCHANGED <<todo, contract>>
      <4>1. ~Deserved
        BY <1>3, <1>4, <2>3, <3>1, Deserves
      <4> QED
        BY <1>0, <1>1, <1>2, <1>7, <2>1, <3>1, <4>1
           DEF Quiet, QuietInv, Reject, contract, directory, Metadata
    <3>2. ASSUME failed' = ~(Anchored(d) /\ Covered(Parse[d], DOMAIN snapshots)),
                 manifest' = Parse[d], stage' = "hashes",
                 todo' = Sorted(DOMAIN Parse[d].files \cap DOMAIN snapshots),
                 UNCHANGED <<check, readings, report>>
          PROVE  QuietInv'
      <4>1. ToSet(todo') = DOMAIN Parse[d].files \cap DOMAIN snapshots
        <5>1. DOMAIN Parse[d].files \cap DOMAIN snapshots \in SUBSET Paths
          BY DEF Quiet, IdentityInv, ShapeInv
        <5> QED
          BY <3>2, <5>1, SortedPaths
      <4>2. failed' => ~Deserved
        BY <1>3, <1>4, <2>3, <3>2, Deserves
      <4> QED
        BY <1>0, <1>1, <1>2, <1>3, <1>7, <2>1, <3>2, <4>1, <4>2
           DEF Quiet, QuietInv, directory, Metadata
    <3> QED
      BY <2>3, <3>1, <3>2 DEF TakeManifest
  <2>4. CASE stage = "hashes" /\ TakeHash(p, d)
    <3>1. /\ failed' = (failed \/ ~HashAccepted(manifest.files[p], d))
          /\ todo' = Tail(todo) /\ UNCHANGED <<stage, manifest, readings, report>>
      BY <2>4 DEF TakeHash, contract
    <3>2. p \in DOMAIN manifest.files /\ ToSet(todo') \subseteq DOMAIN manifest.files \cap DOMAIN snapshots
      BY <2>2, <2>4, <3>1 DEF Quiet, QuietInv
    <3>3. failed' => ~Deserved
      <4>1. manifest = Parse[Contents[ManifestPath]]
        BY <2>4, QuietManifest
      <4> QED
        BY <1>3, <3>1, <3>2, <4>1, Deserves DEF Quiet, QuietInv
    <3> QED
      BY <1>0, <1>1, <1>2, <1>3, <1>7, <2>1, <2>4, <3>1, <3>2, <3>3
         DEF Quiet, QuietInv, directory, Metadata
  <2>5. CASE stage = "checks" /\ TakeReading(p, d)
    <3>1. /\ readings' = Append(readings, d) /\ UNCHANGED <<stage, manifest, failed, report>>
      BY <2>5 DEF TakeReading
    <3>2. readings' # None
      <4>1. readings \in Seq(Data)
        BY <1>2 DEF Quiet, IdentityInv, ShapeInv
      <4>2. Append(readings, d) \in Seq(Data)
        BY <1>3, <4>1
      <4> QED
        BY <3>1, <4>2, DataAssumption
    <3> QED
      BY <1>0, <1>1, <1>2, <1>3, <1>7, <2>1, <2>5, <3>1, <3>2
         DEF Quiet, QuietInv, directory, Metadata
  <2>6. CASE stage = "reread" /\ TakeFinal
    <3>1. /\ todo' = Tail(todo) /\ stage' \in {"reread", "final"}
          /\ UNCHANGED <<manifest, readings, failed, report>>
      BY <2>6 DEF TakeFinal, contract
    <3> QED
      BY <1>0, <1>1, <1>2, <1>3, <1>7, <2>1, <2>2, <2>6, <3>1
         DEF Quiet, QuietInv, directory, Metadata
  <2> QED
    BY <1>7, <2>3, <2>4, <2>5, <2>6 DEF p, d
<1> QED
  BY <1>0, <1>6, <1>7 DEF FinishRead

LEMMA NextCheckQuiet ==
  ASSUME Quiet, NextCheck
  PROVE  QuietInv'
<1>0. /\ UNCHANGED <<directory, profile, anchor, scan, snapshots, fd, observed, manifest, report>>
      /\ stage \in {"hashes", "checks"} /\ todo = <<>> /\ fd = None /\ readings' = <<>>
      /\ failed' = (failed \/ (check > 0 /\ readings # None
                                  /\ ~CheckAccepted(manifest, check, readings)))
      /\ stage' \in {"drift", "checks"} /\ report = "none"
  BY DEF NextCheck, Reading, arguments, Quiet, IdentityInv, ControlInv
<1>1. Present' = Present /\ Contents' = Contents /\ Deserved' = Deserved
  BY <1>0, DirectoryKept
<1>2. ASSUME ~failed, check > 0, readings # None, ~CheckAccepted(manifest, check, readings)
      PROVE  ~Deserved
  <2> DEFINE reads == manifest.checks[check].reads
  <2>1. stage = "checks" /\ check \in DOMAIN manifest.checks
    BY <1>0, <1>2 DEF Quiet, IdentityInv, ChecksInv
  <2>2. manifest.checks \in Seq(ToSet(manifest.checks)) /\ reads \in Seq(Paths)
    BY <1>0, <2>1, ManifestShape DEF Quiet
  <2>3. profile \in manifest.checks[check].profiles /\ readings \notin manifest.checks[check].holds
    BY <1>2 DEF CheckAccepted
  <2>4. CheckReads(manifest, check) = reads
    BY <2>1, <2>2, <2>3 DEF CheckReads
  <2> HIDE DEF reads
  <2>5. /\ Len(readings) + Len(todo) = Len(reads)
        /\ \A k \in DOMAIN readings : reads[k] \in DOMAIN observed /\ readings[k] = observed[reads[k]]
    BY <1>2, <2>1, <2>4 DEF Quiet, IdentityInv, ReadingsInv
  <2>6. readings \in Seq(Data) /\ Len(todo) = 0
    BY <1>0, <1>2, EmptySequence DEF Quiet, IdentityInv, ShapeInv
  <2>7. DOMAIN readings = DOMAIN reads
    BY <2>2, <2>5, <2>6
  <2>8. \A k \in DOMAIN reads : readings[k] = Contents[reads[k]]
    BY <2>5, <2>7 DEF Quiet, QuietInv
  <2>9. readings = [k \in DOMAIN reads |-> Contents[reads[k]]]
    BY <2>6, <2>7, <2>8
  <2>10. manifest = Parse[Contents[ManifestPath]]
    BY <1>0, QuietManifest
  <2> QED
    BY <2>1, <2>3, <2>9, <2>10, Deserves DEF reads
<1>3. failed' => ~Deserved
  BY <1>0, <1>2 DEF Quiet, QuietInv
<1>4. readings' # None
  BY <1>0, EmptySequence
<1>5. snapshots = [p \in Present |-> Metadata(dir[p])]
  BY <1>0 DEF Quiet, QuietInv
<1> QED
  BY <1>0, <1>1, <1>3, <1>4, <1>5 DEF Quiet, QuietInv, directory, Metadata

\* Where a verification starts.
LEMMA InitQuiet == Init => QuietInv
<1> SUFFICES ASSUME Init PROVE QuietInv
  OBVIOUS
<1>1. \A i \in DOMAIN inodes : inodes[i].kind = "regular"
  BY DEF Init
<1>2. /\ DOMAIN scan.files = {} /\ scan.files = <<>> /\ scan.left = {} /\ scan.member = {}
      /\ scan.folders = {Root} /\ DOMAIN observed = {}
  BY EmptySequence DEF Init, NoScan
<1>3. <<>> = [p \in {} |-> Metadata(dir[p])]
  BY EmptySequence
<1>4. \A p \in Present : Above(p) \cap scan.folders # {}
  BY <1>2, RootAbove DEF Present
<1> QED
  BY <1>1, <1>2, <1>3, <1>4, EmptySequence DEF Init, QuietInv

(* A directory nobody writes to gets the verdict its contents deserve: a   *)
(* PASS if they satisfy the contract, a FAIL if they do not, and never an  *)
(* exception.                                                              *)
THEOREM QuietVerdicts == Spec => []QuietVerdictIsExact
<1>1. IdentityInv /\ QuietInv /\ [Next]_vars => QuietInv'
  <2> SUFFICES ASSUME IdentityInv, QuietInv, [Next]_vars, mutations' = 0 PROVE QuietInv'
    BY DEF QuietInv
  <2>1. CASE Write \/ Put \/ Unlink \/ PutBack
    <3>1. mutations' = mutations + 1 /\ mutations \in Nat
      BY <2>1, WriterShape DEF IdentityInv, ShapeInv
    <3> QED
      BY <3>1
  <2>2. CASE Verify
    <3>1. UNCHANGED mutations
      BY <2>2 DEF Verify, ListNames, LstatMember, StatMember, EndInventory, OpenFile, ReadData, FinishRead,
                  NextCheck, directory
    <3>2. Quiet
      BY <3>1 DEF Quiet
    <3> QED
      BY <2>2, <3>2, ListQuiet, LstatQuiet, StatQuiet, EndQuiet, OpenQuiet, ReadDataQuiet, FinishQuiet,
         NextCheckQuiet DEF Verify
  <2>3. CASE UNCHANGED vars
    <3>1. UNCHANGED <<directory, profile, anchor>>
      BY <2>3 DEF vars, arguments
    <3>2. Present' = Present /\ Contents' = Contents /\ Deserved' = Deserved
      BY <3>1, DirectoryKept
    <3> QED
      BY <2>3, <3>2 DEF vars, directory, arguments, contract, QuietInv, Metadata
  <2> QED
    BY <2>1, <2>2, <2>3 DEF Next
<1>2. IdentityInv /\ QuietInv => QuietVerdictIsExact
  <2> SUFFICES ASSUME IdentityInv, QuietInv, mutations = 0, report # "none"
               PROVE  report = IF Deserved THEN "pass" ELSE "fail"
    BY DEF QuietVerdictIsExact, Deserved
  <2> QED
    BY DEF QuietInv
<1> QED
  BY <1>1, <1>2, InitQuiet, IdentityInvariance, PTL DEF Spec
=============================================================================
