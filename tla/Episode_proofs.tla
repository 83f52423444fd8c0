---------------------------- MODULE Episode_proofs ----------------------------
(***************************************************************************)
(* Theorems about Episode, for every set of tasks, decisions, observations *)
(* and candidates, and about the ledgers it records: what the verifier of  *)
(* a ledger accepts, and what a root digest commits to.                    *)
(***************************************************************************)
EXTENDS Episode, SequenceTheorems, FiniteSetTheorems, TLAPS

-----------------------------------------------------------------------------
(* What the verifier of ledgers accepts. *)

Scan == INSTANCE FoldFacts WITH Op <- ScanEntry, Base <- ScanStart
Seen == INSTANCE FoldFacts WITH Op <- ObserveEntry, Base <- <<>>

\* The verifier's loop is a fold.
LEMMA ScanIsFold == \A s : Scanned(s) = Scan!Fold(s)
BY DEF Scanned, Scan!Fold, FoldLeft, Scan!FoldLeft, MapThenFoldSet, Scan!MapThenFoldSet,
       Max, Scan!Max

\* What has been observed is a fold.
LEMMA SeenIsFold == \A s : FoldLeft(ObserveEntry, <<>>, s) = Seen!Fold(s)
BY DEF Seen!Fold, FoldLeft, Seen!FoldLeft, MapThenFoldSet, Seen!MapThenFoldSet, Max, Seen!Max

\* One entry further, the observations are those before and the entry's own.
LEMMA ObservedStep ==
  ASSUME NEW S, NEW s \in Seq(S), NEW n \in 1 .. Len(s)
  PROVE  ObservedBefore(s, n + 1) = ObserveEntry(ObservedBefore(s, n), s[n])
<1>1. n \in 0 .. Len(s) /\ n - 1 \in 0 .. Len(s) /\ n > 0 /\ s[n] \in S /\ (n + 1) - 1 = n
  OBVIOUS
<1>2. SubSeq(s, 1, n) = Append(SubSeq(s, 1, n - 1), s[n]) /\ SubSeq(s, 1, n - 1) \in Seq(S)
  BY <1>1, Scan!Prefix
<1> QED
  BY <1>1, <1>2, SeenIsFold, Seen!FoldAppend DEF ObservedBefore

\* Nothing is observed before the first entry.
LEMMA ObservedNone ==
  ASSUME NEW S, NEW s \in Seq(S)
  PROVE  ObservedBefore(s, 1) = <<>>
<1>1. SubSeq(s, 1, 1 - 1) = <<>>
  BY Scan!Prefix
<1> QED
  BY <1>1, SeenIsFold, Seen!FoldEmpty DEF ObservedBefore

-----------------------------------------------------------------------------
\* What the verifier knows after n entries, in the terms of LedgerLanguage.
ScanAfter(entries, n) ==
    [accepted |-> TRUE,
     index |-> n,
     previous_hash |-> PreviousHash(entries, n + 1),
     frontier |-> ObservedBefore(entries, n + 1),
     pending |-> UnresolvedBefore(entries, n + 1),
     terminal_seen |-> n > 0 /\ Kind(entries, n) = "TERMINAL"]

\* The verifier accepts entry i, given what it knows of the entries before it.
EntryAccepted(entries, i) ==
    /\ LinkAccepted(ScanAfter(entries, i - 1), entries[i])
    /\ KindAccepted(ScanAfter(entries, i - 1), entries[i])

ScanOf(entries, n) == Scanned(SubSeq(entries, 1, n))

\* One more turn of the verifier's loop.
LEMMA ScanOfStep ==
  ASSUME NEW S, NEW s \in Seq(S), NEW n \in 1 .. Len(s)
  PROVE  ScanOf(s, n) = ScanEntry(ScanOf(s, n - 1), s[n])
<1>1. n \in 0 .. Len(s) /\ n - 1 \in 0 .. Len(s) /\ n > 0 /\ s[n] \in S
  OBVIOUS
<1>2. SubSeq(s, 1, n) = Append(SubSeq(s, 1, n - 1), s[n]) /\ SubSeq(s, 1, n - 1) \in Seq(S)
  BY <1>1, Scan!Prefix
<1> QED
  BY <1>1, <1>2, ScanIsFold, Scan!FoldAppend DEF ScanOf

\* What the verifier knows before the first entry.
LEMMA ScanOfNone ==
  ASSUME NEW S, NEW s \in Seq(S)
  PROVE  ScanOf(s, 0) = ScanAfter(s, 0)
<1>1. SubSeq(s, 1, 0) = <<>>
  BY Scan!Prefix
<1>2. ScanOf(s, 0) = ScanStart
  BY <1>1, ScanIsFold, Scan!FoldEmpty DEF ScanOf
<1>3. 0 + 1 = 1 /\ ~(0 > 0) /\ ~(1 > 1)
  OBVIOUS
<1>4. ScanAfter(s, 0) = ScanStart
  BY <1>3, ObservedNone DEF ScanAfter, ScanStart, PreviousHash, UnresolvedBefore
<1> QED
  BY <1>2, <1>4

\* An accepted entry brings the verifier from one ScanAfter to the next.
LEMMA ScanAfterStep ==
  ASSUME NEW S, NEW s \in Seq(S), NEW n \in 1 .. Len(s), EntryAccepted(s, n)
  PROVE  ScanEntry(ScanAfter(s, n - 1), s[n]) = ScanAfter(s, n)
<1> DEFINE scan == ScanAfter(s, n - 1)
<1>1. /\ (n - 1) + 1 = n /\ n > 0 /\ n + 1 > 1 /\ n + 1 # 1 /\ (n + 1) - 1 = n
      /\ n \in Int
  OBVIOUS
<1>2. /\ scan.accepted /\ scan.index + 1 = n
      /\ scan.frontier = ObservedBefore(s, n)
  BY <1>1 DEF ScanAfter
<1>3. LinkAccepted(scan, s[n]) /\ KindAccepted(scan, s[n])
  BY DEF EntryAccepted
<1>4. ExpectedHash(scan, s[n]) = s[n].entry_hash
  BY <1>3 DEF LinkAccepted
<1>5. ObservedBefore(s, n + 1) =
        IF s[n].kind \in {"OBSERVATION_BATCH", "ACTION_RESULT"}
        THEN scan.frontier \o s[n].payload.observations
        ELSE scan.frontier
  BY <1>2, ObservedStep DEF ObserveEntry
<1>6. /\ PreviousHash(s, n + 1) = s[n].entry_hash
      /\ UnresolvedBefore(s, n + 1) = IF s[n].kind = "DECISION" THEN s[n].entry_hash ELSE None
      /\ (n > 0 /\ Kind(s, n) = "TERMINAL") = (s[n].kind = "TERMINAL")
  BY <1>1 DEF PreviousHash, UnresolvedBefore, Kind
<1> HIDE DEF scan
<1>7. ScanEntry(scan, s[n]) =
        [accepted |-> TRUE, index |-> n, previous_hash |-> s[n].entry_hash,
         frontier |-> ObservedBefore(s, n + 1),
         pending |-> UnresolvedBefore(s, n + 1),
         terminal_seen |-> (n > 0 /\ Kind(s, n) = "TERMINAL")]
  BY <1>2, <1>3, <1>4, <1>5, <1>6 DEF ScanEntry
<1> QED
  BY <1>1, <1>6, <1>7 DEF scan, ScanAfter

AllAccepted(entries, n) == \A i \in 1 .. n : EntryAccepted(entries, i)

\* After n entries the verifier has refused one of them or knows ScanAfter.
LEMMA ScanMeans ==
  ASSUME NEW S, NEW s \in Seq(S), NEW n \in 0 .. Len(s)
  PROVE  IF AllAccepted(s, n) THEN ScanOf(s, n) = ScanAfter(s, n) ELSE ~ScanOf(s, n).accepted
<1> DEFINE Right(k) == IF AllAccepted(s, k) THEN ScanOf(s, k) = ScanAfter(s, k)
                       ELSE ~ScanOf(s, k).accepted
           Wrong == {k \in 0 .. Len(s) : ~Right(k)}
<1>1. SUFFICES ASSUME Wrong # {} PROVE FALSE
  OBVIOUS
<1>2. Wrong \subseteq Nat
  OBVIOUS
<1>3. PICK k \in Wrong : \A j \in Wrong : k <= j
  <2> HIDE DEF Wrong
  <2> QED
    BY <1>1, <1>2, Scan!LeastNatural
<1>4. k \in 0 .. Len(s) /\ ~Right(k)
  BY <1>3
<1>5. k # 0
  <2>1. AllAccepted(s, 0)
    BY DEF AllAccepted
  <2>2. Right(0)
    BY <2>1, ScanOfNone
  <2> QED
    BY <1>4, <2>2
<1>6. k \in 1 .. Len(s) /\ k - 1 \in 0 .. Len(s) /\ ~(k <= k - 1)
  BY <1>4, <1>5
<1>7. Right(k - 1)
  BY <1>3, <1>6
<1>8. ScanOf(s, k) = ScanEntry(ScanOf(s, k - 1), s[k])
  BY <1>6, ScanOfStep
<1>9. AllAccepted(s, k) <=> AllAccepted(s, k - 1) /\ EntryAccepted(s, k)
  <2>1. 1 .. k = (1 .. (k - 1)) \cup {k}
    BY <1>6
  <2> QED
    BY <2>1 DEF AllAccepted
<1>10. CASE AllAccepted(s, k)
  BY <1>4, <1>6, <1>7, <1>8, <1>9, <1>10, ScanAfterStep
<1>11. CASE ~AllAccepted(s, k)
  <2>1. CASE ~AllAccepted(s, k - 1)
    <3>1. ~ScanOf(s, k - 1).accepted
      BY <1>7, <2>1
    <3>2. ScanOf(s, k) = [ScanOf(s, k - 1) EXCEPT !.accepted = FALSE]
      BY <1>8, <3>1 DEF ScanEntry
    <3>3. ~ScanOf(s, k).accepted
      BY <3>1, <3>2
    <3> QED
      BY <1>4, <1>11, <3>3
  <2>2. CASE AllAccepted(s, k - 1) /\ ~EntryAccepted(s, k)
    <3>1. ScanOf(s, k) = ScanEntry(ScanAfter(s, k - 1), s[k])
      BY <1>7, <1>8, <2>2
    <3>2. ScanOf(s, k) = [ScanAfter(s, k - 1) EXCEPT !.accepted = FALSE]
      BY <3>1, <2>2, Zenon DEF ScanEntry, EntryAccepted
    <3>3. ~ScanOf(s, k).accepted
      BY <3>2 DEF ScanAfter
    <3> QED
      BY <1>4, <1>11, <3>3
  <2> QED
    BY <1>9, <1>11, <2>1, <2>2
<1> QED
  BY <1>10, <1>11

\* The verifier accepts a document when it accepts each entry, the last of
\* them is the terminal receipt, and its hash is the document's root.
LEMMA VerifierMeans ==
  ASSUME NEW d, NEW S, d.entries \in Seq(S)
  PROVE  VerifyLedgerDocument(d) <=>
           /\ d.format = LEDGER_FORMAT
           /\ d.entries # <<>>
           /\ d.entry_count = Len(d.entries)
           /\ AllAccepted(d.entries, Len(d.entries))
           /\ Kind(d.entries, Len(d.entries)) = "TERMINAL"
           /\ d.root_sha256 = RootSha256(d.entries)
<1> DEFINE s == d.entries
           n == Len(s)
           end == Scanned(s)
<1> SUFFICES ASSUME s # <<>>
             PROVE  (end.accepted /\ end.terminal_seen /\ d.root_sha256 = end.previous_hash) <=>
                      /\ AllAccepted(s, n)
                      /\ Kind(s, n) = "TERMINAL"
                      /\ d.root_sha256 = RootSha256(s)
  BY Zenon DEF VerifyLedgerDocument
<1>1. n \in 0 .. n /\ n > 0 /\ n + 1 # 1 /\ (n + 1) - 1 = n
  BY EmptySeq
<1>2. end = ScanOf(s, n)
  BY <1>1, Scan!Prefix DEF ScanOf
<1>3. IF AllAccepted(s, n) THEN end = ScanAfter(s, n) ELSE ~end.accepted
  BY <1>1, <1>2, ScanMeans
<1>4. /\ ScanAfter(s, n).accepted
      /\ ScanAfter(s, n).terminal_seen <=> Kind(s, n) = "TERMINAL"
      /\ ScanAfter(s, n).previous_hash = RootSha256(s)
  BY <1>1 DEF ScanAfter, PreviousHash, RootSha256
<1> HIDE DEF s, n, end
<1> QED
  BY <1>3, <1>4

\* The hashes of an entry are right when it is the entry its index, kind,
\* predecessor and payload make.
LEMMA LinkMeans ==
  ASSUME NEW s, NEW i, (i - 1) + 1 = i, EntryShaped(s[i])
  PROVE  LinkAccepted(ScanAfter(s, i - 1), s[i]) <=>
           s[i] = LedgerEntry(i - 1, Kind(s, i), PreviousHash(s, i), s[i].payload)
<1> DEFINE raw == s[i]
           scan == ScanAfter(s, i - 1)
           entry == LedgerEntry(i - 1, raw.kind, PreviousHash(s, i), raw.payload)
<1>1. /\ scan.index = i - 1
      /\ scan.previous_hash = PreviousHash(s, i)
  BY DEF ScanAfter
<1>2. LinkAccepted(scan, raw) <=>
        /\ raw.index = i - 1
        /\ raw.previous_hash = PreviousHash(s, i)
        /\ raw.payload_sha256 = Sha256(raw.payload)
        /\ raw.entry_hash = EntryHash(i - 1, raw.kind, PreviousHash(s, i), Sha256(raw.payload))
  BY <1>1, Zenon DEF LinkAccepted, ExpectedHash
<1> HIDE DEF raw, scan
<1>3. raw = entry <=>
        /\ raw.index = i - 1
        /\ raw.previous_hash = PreviousHash(s, i)
        /\ raw.payload_sha256 = Sha256(raw.payload)
        /\ raw.entry_hash = EntryHash(i - 1, raw.kind, PreviousHash(s, i), Sha256(raw.payload))
  <2>1. EntryShaped(raw)
    BY DEF raw
  <2> QED
    BY <2>1 DEF EntryShaped, LedgerEntry
<1>4. raw.kind = Kind(s, i)
  BY DEF Kind, raw
<1> QED
  BY <1>2, <1>3, <1>4 DEF raw, scan

\* What the verifier requires of an entry's kind, without its loop.
Placed(entries, i) ==
    /\ i > 1 => Kind(entries, i - 1) # "TERMINAL"
    /\ Kind(entries, i) \in Kinds
    /\ (Kind(entries, i) = "EPISODE_START") = (i = 1)
    /\ Kind(entries, i) \in {"OBSERVATION_BATCH", "DECISION"} =>
          UnresolvedBefore(entries, i) = None
    /\ Kind(entries, i) = "ACTION_RESULT" => UnresolvedBefore(entries, i) # None

\* An entry is accepted for its kind exactly when it is in its place and bound.
LEMMA KindMeans ==
  ASSUME NEW s, NEW i \in Nat \ {0}
  PROVE  KindAccepted(ScanAfter(s, i - 1), s[i]) <=> Placed(s, i) /\ BoundAt(s, i)
<1> DEFINE kind == Kind(s, i)
           payload == s[i].payload
           frontier == ObservedBefore(s, i)
           pending == UnresolvedBefore(s, i)
           ended == i - 1 > 0 /\ Kind(s, i - 1) = "TERMINAL"
<1>1. /\ (i - 1) + 1 = i
      /\ i - 1 = 0 <=> i = 1
      /\ i - 1 > 0 <=> i # 1
      /\ i > 1 <=> i # 1
  OBVIOUS
<1>2. /\ ScanAfter(s, i - 1).index = i - 1
      /\ ScanAfter(s, i - 1).frontier = frontier
      /\ ScanAfter(s, i - 1).pending = pending
      /\ ScanAfter(s, i - 1).terminal_seen = ended
  BY <1>1 DEF ScanAfter
<1>3. DigestBound(payload) <=>
         /\ Carries(payload, {"observations"})
         /\ Get(payload, "observations_sha256") = Sha256(payload.observations)
  BY DEF DigestBound, Carries, Get
<1>4. /\ Carries(payload, {"decision"}) <=> Get(payload, "decision") # None
      /\ Carries(payload, {"agent_task_view_sha256", "host_task_commitment"}) <=>
           /\ Get(payload, "agent_task_view_sha256") # None
           /\ Get(payload, "host_task_commitment") # None
  BY DEF Carries
<1>5. FrontierBound(ScanAfter(s, i - 1), payload) <=>
         Get(payload, "observation_frontier_sha256") = Sha256(frontier)
  BY <1>2 DEF FrontierBound
<1> DEFINE Bind(field, value) == Get(payload, field) = value
<1>6. KindAccepted(ScanAfter(s, i - 1), s[i]) <=>
        /\ ~ended
        /\ \/ /\ i = 1
              /\ kind = "EPISODE_START"
              /\ Carries(payload, {"agent_task_view_sha256", "host_task_commitment"})
           \/ /\ i # 1
              /\ kind = "OBSERVATION_BATCH"
              /\ pending = None
              /\ DigestBound(payload)
           \/ /\ i # 1
              /\ kind = "DECISION"
              /\ pending = None
              /\ Carries(payload, {"decision"})
              /\ Bind("observation_frontier_sha256", Sha256(frontier))
           \/ /\ i # 1
              /\ kind = "ACTION_RESULT"
              /\ pending # None
              /\ Bind("decision_entry_hash", pending)
              /\ DigestBound(payload)
           \/ /\ i # 1
              /\ kind = "TERMINAL"
              /\ Bind("observation_frontier_sha256", Sha256(frontier))
              /\ Bind("caused_by_decision_entry_hash", pending)
  <2>1. s[i].kind = kind
    BY DEF Kind
  <2> HIDE DEF kind, frontier, pending, ended
  <2> QED
    BY <1>1, <1>2, <1>4, <1>5, <2>1 DEF KindAccepted
<1>7. Placed(s, i) /\ BoundAt(s, i) <=>
        /\ ~ended
        /\ kind \in Kinds
        /\ (kind = "EPISODE_START") = (i = 1)
        /\ kind \in {"OBSERVATION_BATCH", "DECISION"} => pending = None
        /\ kind = "ACTION_RESULT" => pending # None
        /\ kind = "EPISODE_START" =>
             Carries(payload, {"agent_task_view_sha256", "host_task_commitment"})
        /\ kind = "DECISION" => Carries(payload, {"decision"})
        /\ kind \in {"OBSERVATION_BATCH", "ACTION_RESULT"} => DigestBound(payload)
        /\ kind \in {"DECISION", "TERMINAL"} =>
             Bind("observation_frontier_sha256", Sha256(frontier))
        /\ kind = "ACTION_RESULT" => Bind("decision_entry_hash", pending)
        /\ kind = "TERMINAL" => Bind("caused_by_decision_entry_hash", pending)
  BY <1>1, <1>3 DEF Placed, BoundAt
<1> HIDE DEF kind, payload, frontier, pending, ended, Bind
<1> QED
  BY <1>6, <1>7 DEF Kinds

\* Entry by entry, what the verifier accepts is the record of an episode.
LEMMA AcceptedMeans ==
  ASSUME NEW S, NEW s \in Seq(S), s # <<>>, NoneIsNoDigest,
         \A i \in DOMAIN s : EntryShaped(s[i])
  PROVE  AllAccepted(s, Len(s)) /\ Kind(s, Len(s)) = "TERMINAL" <=>
           ChainValid(s) /\ Grammatical(s) /\ Bound(s)
<1> DEFINE n == Len(s)
<1>1. /\ DOMAIN s = 1 .. n
      /\ n \in 1 .. n
      /\ \A i \in 1 .. n : i \in Nat \ {0} /\ (i - 1) + 1 = i
      /\ \A i \in 1 .. n : i # 1 => i - 1 \in 1 .. n /\ i > 1 /\ i - 1 # n
      /\ \A i \in 1 .. n : i # n => i + 1 \in 1 .. n /\ i + 1 # 1 /\ i + 1 > 1 /\ (i + 1) - 1 = i
      /\ ~(1 > 1)
  <2>1. n \in Nat \ {0} /\ DOMAIN s = 1 .. n
    BY EmptySeq
  <2> HIDE DEF n
  <2> QED
    BY <2>1
<1> HIDE DEF n
<1>2. AllAccepted(s, n) <=> ChainValid(s) /\ Bound(s) /\ \A i \in 1 .. n : Placed(s, i)
  <2>1. \A i \in 1 .. n : EntryAccepted(s, i) <=>
           /\ s[i] = LedgerEntry(i - 1, Kind(s, i), PreviousHash(s, i), s[i].payload)
           /\ Placed(s, i)
           /\ BoundAt(s, i)
    BY <1>1, LinkMeans, KindMeans DEF EntryAccepted
  <2> QED
    BY <1>1, <2>1, Zenon DEF AllAccepted, ChainValid, Bound, n
<1>3. ASSUME ChainValid(s)
      PROVE  \A i \in 1 .. n : i # 1 =>
                (UnresolvedBefore(s, i) # None <=> Kind(s, i - 1) = "DECISION")
  <2> SUFFICES ASSUME NEW i \in 1 .. n, i # 1
               PROVE  UnresolvedBefore(s, i) # None <=> Kind(s, i - 1) = "DECISION"
    OBVIOUS
  <2>1. s[i - 1] = LedgerEntry((i - 1) - 1, Kind(s, i - 1), PreviousHash(s, i - 1),
                               s[i - 1].payload)
    BY <1>1, <1>3 DEF ChainValid, n
  <2>2. s[i - 1].entry_hash # None
    <3>1. \A a, b, c, e : LedgerEntry(a, b, c, e).entry_hash # None
      BY DEF LedgerEntry, EntryHash, NoneIsNoDigest
    <3> QED
      BY <2>1, <3>1
  <2> QED
    BY <1>1, <2>2 DEF UnresolvedBefore
<1>4. UnresolvedBefore(s, 1) = None
  BY <1>1 DEF UnresolvedBefore
<1>5. ASSUME ChainValid(s)
      PROVE  (\A i \in 1 .. n : Placed(s, i)) /\ Kind(s, n) = "TERMINAL" <=> Grammatical(s)
  <2>1. ASSUME \A i \in 1 .. n : Placed(s, i), Kind(s, n) = "TERMINAL"
        PROVE  Grammatical(s)
    <3>1. \A i \in 1 .. n : Kind(s, i) \in Kinds
      BY <2>1 DEF Placed
    <3> SUFFICES ASSUME NEW i \in 1 .. n
                 PROVE  /\ (Kind(s, i) = "EPISODE_START") = (i = 1)
                        /\ (Kind(s, i) = "TERMINAL") = (i = n)
                        /\ Kind(s, i) = "DECISION" =>
                              Kind(s, i + 1) \in {"ACTION_RESULT", "TERMINAL"}
                        /\ Kind(s, i) = "ACTION_RESULT" => Kind(s, i - 1) = "DECISION"
      BY <1>1, <3>1 DEF Grammatical, n
    <3>2. (Kind(s, i) = "EPISODE_START") = (i = 1)
      BY <2>1 DEF Placed
    <3>3. (Kind(s, i) = "TERMINAL") = (i = n)
      BY <1>1, <2>1 DEF Placed
    <3>4. ASSUME Kind(s, i) = "DECISION"
          PROVE  Kind(s, i + 1) \in {"ACTION_RESULT", "TERMINAL"}
      <4>1. i + 1 \in 1 .. n /\ i + 1 # 1 /\ (i + 1) - 1 = i
        BY <1>1, <2>1, <3>4
      <4>2. UnresolvedBefore(s, i + 1) # None
        BY <1>3, <1>5, <3>4, <4>1
      <4>3. Placed(s, i + 1)
        BY <2>1, <4>1
      <4> QED
        BY <4>1, <4>2, <4>3 DEF Placed, Kinds
    <3>5. ASSUME Kind(s, i) = "ACTION_RESULT"
          PROVE  Kind(s, i - 1) = "DECISION"
      BY <1>3, <1>4, <1>5, <2>1, <3>5 DEF Placed
    <3> QED
      BY <3>2, <3>3, <3>4, <3>5
  <2>2. ASSUME Grammatical(s)
        PROVE  (\A i \in 1 .. n : Placed(s, i)) /\ Kind(s, n) = "TERMINAL"
    <3>1. \A i \in 1 .. n :
             /\ Kind(s, i) \in Kinds
             /\ (Kind(s, i) = "EPISODE_START") = (i = 1)
             /\ (Kind(s, i) = "TERMINAL") = (i = n)
             /\ Kind(s, i) = "DECISION" => Kind(s, i + 1) \in {"ACTION_RESULT", "TERMINAL"}
             /\ Kind(s, i) = "ACTION_RESULT" => Kind(s, i - 1) = "DECISION"
      BY <1>1, <2>2 DEF Grammatical, n
    <3>2. ASSUME NEW i \in 1 .. n PROVE Placed(s, i)
      <4>1. CASE i = 1
        BY <1>1, <1>4, <3>1, <4>1 DEF Placed
      <4>2. CASE i # 1
        <5>1. i - 1 \in 1 .. n /\ i - 1 # n /\ (i - 1) + 1 = i
          BY <1>1, <4>2
        <5>2. UnresolvedBefore(s, i) # None <=> Kind(s, i - 1) = "DECISION"
          BY <1>3, <1>5, <4>2
        <5> QED
          BY <3>1, <5>1, <5>2 DEF Placed
      <4> QED
        BY <4>1, <4>2
    <3> QED
      BY <1>1, <3>1, <3>2
  <2> QED
    BY <2>1, <2>2
<1> QED
  BY <1>2, <1>5 DEF n

(* verify_ledger_document accepts exactly the records of an episode: for   *)
(* every document, of any length, whose entries have the fields of ledger  *)
(* entries, the verifier's single pass neither misses a misplaced,         *)
(* missing, duplicated or wrongly bound entry nor refuses a ledger that    *)
(* has none.                                                               *)
THEOREM VerifierDecides ==
  ASSUME NoneIsNoDigest, NEW d, NEW S, d.entries \in Seq(S),
         \A i \in DOMAIN d.entries : EntryShaped(d.entries[i])
  PROVE  VerifyLedgerDocument(d) <=> EpisodeRecord(d)
BY VerifierMeans, AcceptedMeans DEF EpisodeRecord

-----------------------------------------------------------------------------
(* What a root digest commits to. *)

\* An entry hash fixes the entry's place, its kind, its predecessor's hash
\* and its payload.
LEMMA EntryHashInjective ==
  ASSUME NEW i, NEW k, NEW h, NEW p, NEW j, NEW l, NEW g, NEW q,
         LedgerEntry(i, k, h, p).entry_hash = LedgerEntry(j, l, g, q).entry_hash
  PROVE  i = j /\ k = l /\ h = g /\ p = q
<1>1. EntryHash(i, k, h, Sha256(p)) = EntryHash(j, l, g, Sha256(q))
  BY DEF LedgerEntry
<1>2. [index |-> i, kind |-> k, previous_hash |-> h, payload_sha256 |-> Sha256(p)] =
      [index |-> j, kind |-> l, previous_hash |-> g, payload_sha256 |-> Sha256(q)]
  BY <1>1 DEF EntryHash, Sha256
<1>3. i = j /\ k = l /\ h = g /\ Sha256(p) = Sha256(q)
  BY <1>2
<1> QED
  BY <1>3 DEF Sha256

\* The hash of an entry is never the hash before the first.
LEMMA EntryHashNotZero ==
  ASSUME NEW i, NEW k, NEW h, NEW p
  PROVE  LedgerEntry(i, k, h, p).entry_hash # ZERO_HASH
BY DEF LedgerEntry, EntryHash, Sha256, ZERO_HASH

(* The root digest commits to the whole ledger: two chains with the same   *)
(* root are the same sequence of entries, so a stored document that        *)
(* differs from the ledger whose root was recorded cannot be a valid chain *)
(* with that root.                                                         *)
THEOREM RootCommitsToLedger ==
  ASSUME NEW S, NEW a \in Seq(S), NEW b \in Seq(S),
         ChainValid(a), ChainValid(b), RootSha256(a) = RootSha256(b)
  PROVE  a = b
<1>1. Len(a) \in Nat /\ Len(b) \in Nat
  OBVIOUS
<1>2. (a = <<>>) = (b = <<>>)
  <2>1. \A c \in Seq(S) : c # <<>> /\ ChainValid(c) => RootSha256(c) # ZERO_HASH
    <3> SUFFICES ASSUME NEW c \in Seq(S), c # <<>>, ChainValid(c)
                 PROVE  RootSha256(c) # ZERO_HASH
      OBVIOUS
    <3>1. Len(c) \in 1 .. Len(c)
      BY EmptySeq
    <3>2. c[Len(c)].entry_hash # ZERO_HASH
      BY <3>1, EntryHashNotZero DEF ChainValid
    <3> QED
      BY <3>2 DEF RootSha256
  <2> QED
    BY <2>1 DEF RootSha256
<1>3. CASE a = <<>>
  BY <1>2, <1>3
<1>4. CASE a # <<>>
  <2>1. /\ b # <<>>
        /\ Len(a) \in 1 .. Len(a)
        /\ Len(b) \in 1 .. Len(b)
    BY <1>2, <1>4, EmptySeq
  <2>2. a[Len(a)].entry_hash = b[Len(b)].entry_hash
    BY <2>1, <1>4 DEF RootSha256
  <2>3. Len(a) = Len(b)
    <3>1. Len(a) - 1 = Len(b) - 1
      BY <2>1, <2>2, EntryHashInjective DEF ChainValid
    <3> QED
      BY <3>1, <1>1
  <2> DEFINE n == Len(a)
             Differs == {k \in 0 .. (n - 1) : a[n - k] # b[n - k]}
  <2>4. Differs = {}
    <3> SUFFICES ASSUME Differs # {} PROVE FALSE
      OBVIOUS
    <3>1. PICK k \in Differs : \A j \in Differs : k <= j
      <4>1. Differs \subseteq Nat
        BY <1>1
      <4> HIDE DEF Differs
      <4> QED
        BY <4>1, Scan!LeastNatural
    <3>2. k \in 0 .. (n - 1) /\ a[n - k] # b[n - k] /\ n - k \in 1 .. n
      BY <3>1, <1>1
    <3>3. a[n - k].entry_hash = b[n - k].entry_hash
      <4>1. CASE k = 0
        BY <4>1, <2>2, <2>3, <1>1
      <4>2. CASE k > 0
        <5> DEFINE m == n - (k - 1)
        <5>1. /\ k - 1 \in 0 .. (n - 1) /\ k - 1 \notin Differs
              /\ m \in 1 .. n /\ m # 1 /\ m - 1 = n - k
          <6>1. k \in 0 .. (n - 1) /\ k - 1 \in 0 .. (n - 1)
            BY <3>2, <4>2, <1>1
          <6>2. k - 1 \notin Differs
            <7> HIDE DEF Differs
            <7>1. ~(k <= k - 1)
              BY <6>1
            <7> QED
              BY <7>1, <3>1
          <6> HIDE DEF Differs
          <6>3. m \in 1 .. n /\ m # 1 /\ m - 1 = n - k
            BY <6>1, <4>2, <1>1
          <6> QED
            BY <6>1, <6>2, <6>3
        <5>2. a[m] = b[m]
          BY <5>1
        <5> HIDE DEF m
        <5>3. /\ a[m] = LedgerEntry(m - 1, a[m].kind, a[m - 1].entry_hash, a[m].payload)
              /\ b[m] = LedgerEntry(m - 1, b[m].kind, b[m - 1].entry_hash, b[m].payload)
          BY <5>1, <2>3 DEF ChainValid, PreviousHash, Kind
        <5>4. a[m - 1].entry_hash = b[m - 1].entry_hash
          BY <5>2, <5>3, EntryHashInjective
        <5> QED
          BY <5>1, <5>4
      <4> QED
        BY <4>1, <4>2, <3>2
    <3> DEFINE i == n - k
    <3>4. i \in 1 .. n /\ a[i] # b[i] /\ a[i].entry_hash = b[i].entry_hash
      BY <3>2, <3>3
    <3> HIDE DEF i
    <3>5. /\ a[i] = LedgerEntry(i - 1, a[i].kind, PreviousHash(a, i), a[i].payload)
          /\ b[i] = LedgerEntry(i - 1, b[i].kind, PreviousHash(b, i), b[i].payload)
      BY <3>4, <2>3 DEF ChainValid, Kind
    <3>6. /\ a[i].kind = b[i].kind
          /\ PreviousHash(a, i) = PreviousHash(b, i)
          /\ a[i].payload = b[i].payload
      BY <3>4, <3>5, EntryHashInjective
    <3> QED
      BY <3>4, <3>5, <3>6
  <2>5. \A i \in 1 .. n : a[i] = b[i]
    <3> SUFFICES ASSUME NEW i \in 1 .. n PROVE a[i] = b[i]
      OBVIOUS
    <3>1. n - i \in 0 .. (n - 1) /\ n - (n - i) = i
      BY <1>1
    <3> QED
      BY <3>1, <2>4
  <2> QED
    BY <2>3, <2>5, SeqEqual
<1> QED
  BY <1>3, <1>4

(* A stored copy that differs from the recorded ledger but keeps its root  *)
(* digest is refused, whatever was altered, dropped, moved or added, and   *)
(* however the digests inside the copy were mended.                        *)
THEOREM AlterationRefused ==
  ASSUME NoneIsNoDigest, NEW S, NEW entries \in Seq(S), ChainValid(entries),
         NEW document, document.entries \in Seq(S),
         \A i \in DOMAIN document.entries : EntryShaped(document.entries[i]),
         document.root_sha256 = RootSha256(entries),
         document.entries # entries
  PROVE  ~VerifyLedgerDocument(document)
<1>1. SUFFICES ASSUME VerifyLedgerDocument(document) PROVE FALSE
  OBVIOUS
<1>2. EpisodeRecord(document)
  BY <1>1, VerifierDecides
<1>3. ChainValid(document.entries) /\ RootSha256(document.entries) = RootSha256(entries)
  BY <1>2 DEF EpisodeRecord
<1> QED
  BY <1>3, RootCommitsToLedger

-----------------------------------------------------------------------------
(* Appending to a ledger. *)

\* A sequence of anything, and what Append makes of it.
LEMMA Appended ==
  ASSUME NEW s, NEW e, s \in Seq(ToSet(s))
  PROVE  /\ Append(s, e) \in Seq(ToSet(Append(s, e)))
         /\ s \in Seq(ToSet(s) \cup {e})
         /\ e \in ToSet(s) \cup {e}
         /\ Len(s) \in Nat
         /\ DOMAIN s = 1 .. Len(s)
         /\ Append(s, e) # <<>>
         /\ Len(Append(s, e)) = Len(s) + 1
         /\ DOMAIN Append(s, e) = 1 .. (Len(s) + 1)
         /\ \A i \in 1 .. Len(s) : Append(s, e)[i] = s[i]
         /\ Append(s, e)[Len(s) + 1] = e
<1> DEFINE t == Append(s, e)
<1>1. s \in Seq(ToSet(s) \cup {e})
  OBVIOUS
<1>2. /\ t \in Seq(ToSet(s) \cup {e})
      /\ Len(s) \in Nat /\ Len(t) \in Nat
      /\ DOMAIN s = 1 .. Len(s)
      /\ DOMAIN t = 1 .. Len(t) /\ Len(t) = Len(s) + 1
      /\ \A i \in 1 .. Len(s) : t[i] = s[i]
      /\ t[Len(s) + 1] = e
  BY <1>1
<1> HIDE DEF t
<1>3. t \in [1 .. Len(t) -> ToSet(s) \cup {e}]
  BY <1>2
<1>4. t \in [1 .. Len(t) -> ToSet(t)]
  BY <1>2, <1>3 DEF ToSet
<1>5. t \in Seq(ToSet(t))
  BY <1>2, <1>4
<1>6. t # <<>>
  BY <1>2, EmptySeq
<1> QED
  BY <1>1, <1>2, <1>5, <1>6 DEF t

\* A sequence keeps its prefix when something is appended.
LEMMA PrefixKept ==
  ASSUME NEW s, NEW e, s \in Seq(ToSet(s)), NEW n \in 0 .. Len(s)
  PROVE  SubSeq(Append(s, e), 1, n) = SubSeq(s, 1, n)
<1> DEFINE S == ToSet(s) \cup {e}
           t == Append(s, e)
<1>1. /\ s \in Seq(S) /\ t \in Seq(S) /\ Len(t) = Len(s) + 1 /\ Len(s) \in Nat
      /\ \A i \in 1 .. Len(s) : t[i] = s[i]
  <2>1. s \in Seq(S) /\ e \in S
    BY Appended
  <2> HIDE DEF S
  <2> QED
    BY <2>1, Appended
<1> HIDE DEF S, t
<1>2. n \in 0 .. Len(t)
  BY <1>1
<1>3. /\ SubSeq(s, 1, n) \in Seq(S) /\ SubSeq(t, 1, n) \in Seq(S)
      /\ Len(SubSeq(s, 1, n)) = n /\ Len(SubSeq(t, 1, n)) = n
      /\ \A i \in 1 .. n : SubSeq(s, 1, n)[i] = s[i]
      /\ \A i \in 1 .. n : SubSeq(t, 1, n)[i] = t[i]
  BY <1>1, <1>2
<1>4. \A i \in 1 .. n : SubSeq(s, 1, n)[i] = SubSeq(t, 1, n)[i]
  BY <1>1, <1>3
<1> QED
  BY <1>3, <1>4, SeqEqual DEF t

-----------------------------------------------------------------------------
(* What an appended entry does to what is known of a ledger. *)

NextEntry(entries, kind, payload) ==
    LedgerEntry(Len(entries), kind, RootSha256(entries), payload)

\* What is known of a ledger with one more entry.
LEMMA EntryAppended ==
  ASSUME NEW s, NEW k, NEW p, s \in Seq(ToSet(s))
  PROVE  LET t == AppendEntry(s, k, p)
             n == Len(s) + 1
         IN  /\ t \in Seq(ToSet(t))
             /\ t # <<>>
             /\ Len(t) = n /\ n \in Nat \ {0}
             /\ DOMAIN t = 1 .. n /\ DOMAIN s = 1 .. Len(s)
             /\ \A i \in 1 .. Len(s) : t[i] = s[i]
             /\ t[n] = NextEntry(s, k, p)
             /\ Kind(t, n) = k /\ t[n].payload = p
             /\ RootSha256(t) = NextEntry(s, k, p).entry_hash
             /\ UnresolvedBefore(t, n + 1) = IF k = "DECISION" THEN RootSha256(t) ELSE None
<1> DEFINE e == NextEntry(s, k, p)
           t == AppendEntry(s, k, p)
           n == Len(s) + 1
<1>1. t = Append(s, e)
  BY DEF AppendEntry, NextEntry
<1>2. e.kind = k /\ e.payload = p
  BY DEF NextEntry, LedgerEntry
<1> HIDE DEF e, t
<1>3. /\ t \in Seq(ToSet(t))
      /\ t # <<>>
      /\ Len(t) = n /\ Len(s) \in Nat
      /\ DOMAIN t = 1 .. n /\ DOMAIN s = 1 .. Len(s)
      /\ \A i \in 1 .. Len(s) : t[i] = s[i]
      /\ t[n] = e
  <2>1. s \in Seq(ToSet(s) \cup {e})
    OBVIOUS
  <2>2. t \in Seq(ToSet(t)) /\ t # <<>>
    BY <1>1, Appended
  <2> QED
    BY <1>1, <2>1, <2>2
<1>4. n \in Nat \ {0} /\ n + 1 > 1 /\ (n + 1) - 1 = n
  BY <1>3
<1> HIDE DEF n
<1>5. Kind(t, n) = k /\ t[n].payload = p /\ RootSha256(t) = e.entry_hash
  BY <1>2, <1>3 DEF Kind, RootSha256
<1>6. UnresolvedBefore(t, n + 1) = IF k = "DECISION" THEN RootSha256(t) ELSE None
  BY <1>3, <1>4, <1>5 DEF UnresolvedBefore, RootSha256
<1> QED
  BY <1>3, <1>4, <1>5, <1>6 DEF n, t, e

\* One more entry of its kind, and the same of every other.
LEMMA EntriesCounted ==
  ASSUME NEW s, NEW k, NEW p, s \in Seq(ToSet(s)), NEW kind
  PROVE  LET t == AppendEntry(s, k, p) IN
         /\ IsFiniteSet(EntriesOf(s, kind)) /\ IsFiniteSet(EntriesOf(t, kind))
         /\ EntriesOf(s, kind) \subseteq 1 .. Len(s)
         /\ Cardinality(EntriesOf(s, kind)) \in Nat
         /\ k = kind => /\ EntriesOf(t, kind) = EntriesOf(s, kind) \cup {Len(s) + 1}
                        /\ Cardinality(EntriesOf(t, kind)) = Cardinality(EntriesOf(s, kind)) + 1
         /\ k # kind => EntriesOf(t, kind) = EntriesOf(s, kind)
<1> DEFINE t == AppendEntry(s, k, p)
           n == Len(s) + 1
<1>1. /\ Len(s) \in Nat /\ n \in Nat \ {0} /\ DOMAIN t = 1 .. n /\ DOMAIN s = 1 .. Len(s)
      /\ \A i \in 1 .. Len(s) : t[i] = s[i]
      /\ Kind(t, n) = k
  BY EntryAppended, Appended
<1> HIDE DEF t
<1>2. 1 .. n = (1 .. Len(s)) \cup {n} /\ n \notin 1 .. Len(s)
  BY <1>1
<1> HIDE DEF n
<1>3. EntriesOf(s, kind) \subseteq 1 .. Len(s)
  BY <1>1 DEF EntriesOf
<1>4. EntriesOf(t, kind) = EntriesOf(s, kind) \cup IF k = kind THEN {n} ELSE {}
  BY <1>1, <1>2 DEF EntriesOf, Kind
<1>5. IsFiniteSet(EntriesOf(s, kind)) /\ Cardinality(EntriesOf(s, kind)) \in Nat
  <2>1. IsFiniteSet(1 .. Len(s))
    BY <1>1, FS_Interval
  <2> QED
    BY <1>3, <2>1, FS_Subset, FS_CardinalityType, Zenon
<1>6. n \notin EntriesOf(s, kind)
  BY <1>2, <1>3
<1>7. /\ IsFiniteSet(EntriesOf(s, kind) \cup {n})
      /\ Cardinality(EntriesOf(s, kind) \cup {n}) = Cardinality(EntriesOf(s, kind)) + 1
  BY <1>5, <1>6, FS_AddElement
<1>8. /\ k = kind => EntriesOf(t, kind) = EntriesOf(s, kind) \cup {n}
      /\ k # kind => EntriesOf(t, kind) = EntriesOf(s, kind)
  BY <1>4
<1> QED
  BY <1>3, <1>5, <1>7, <1>8 DEF t, n

\* Earlier entries see the same observations as before.
LEMMA ObservedKept ==
  ASSUME NEW s, NEW k, NEW p, s \in Seq(ToSet(s)), NEW i \in 1 .. Len(s) + 1
  PROVE  ObservedBefore(AppendEntry(s, k, p), i) = ObservedBefore(s, i)
<1>1. Len(s) \in Nat
  BY Appended
<1>2. i - 1 \in 0 .. Len(s)
  BY <1>1
<1> QED
  BY <1>2, PrefixKept DEF ObservedBefore, AppendEntry

\* After one more entry, its observations have been seen too.
LEMMA ObservedNext ==
  ASSUME NEW s, NEW k, NEW p, s \in Seq(ToSet(s))
  PROVE  ObservedBefore(AppendEntry(s, k, p), Len(s) + 2) =
           IF k \in {"OBSERVATION_BATCH", "ACTION_RESULT"}
           THEN ObservedBefore(s, Len(s) + 1) \o p.observations
           ELSE ObservedBefore(s, Len(s) + 1)
<1> DEFINE t == AppendEntry(s, k, p)
           n == Len(s) + 1
<1>1. /\ t \in Seq(ToSet(t)) /\ Len(t) = n /\ n \in Nat \ {0}
      /\ t[n].kind = k /\ t[n].payload = p
  BY EntryAppended DEF Kind
<1>2. ObservedBefore(t, n) = ObservedBefore(s, n)
  <2>1. n \in 1 .. Len(s) + 1
    BY <1>1
  <2> QED
    BY <2>1, ObservedKept
<1> HIDE DEF t
<1>3. n \in 1 .. Len(t) /\ n + 1 = Len(s) + 2
  BY <1>1, Appended
<1> HIDE DEF n
<1>4. ObservedBefore(t, n + 1) = ObserveEntry(ObservedBefore(t, n), t[n])
  BY <1>1, <1>3, ObservedStep
<1> QED
  BY <1>1, <1>2, <1>3, <1>4 DEF ObserveEntry, t, n

\* What the verifier knows once one more entry is accepted.
ScannedNext(s, k, p) ==
    LET t == AppendEntry(s, k, p) IN
    [accepted |-> TRUE, index |-> Len(t), previous_hash |-> RootSha256(t),
     frontier |-> IF k \in {"OBSERVATION_BATCH", "ACTION_RESULT"}
                  THEN Scanned(s).frontier \o p.observations
                  ELSE Scanned(s).frontier,
     pending |-> UnresolvedBefore(t, Len(t) + 1),
     terminal_seen |-> k = "TERMINAL"]

\* What the verifier makes of one more entry with the right links.
LEMMA EntryScanned ==
  ASSUME NEW s, NEW k, NEW p, s \in Seq(ToSet(s)),
         Scanned(s).accepted, Scanned(s).index = Len(s),
         Scanned(s).previous_hash = RootSha256(s),
         KindAccepted(Scanned(s), NextEntry(s, k, p))
  PROVE  Scanned(AppendEntry(s, k, p)) = ScannedNext(s, k, p)
<1> DEFINE e == NextEntry(s, k, p)
           t == AppendEntry(s, k, p)
           S == ToSet(s) \cup {e}
<1>1. t = Append(s, e) /\ s \in Seq(S) /\ e \in S
  BY Appended DEF AppendEntry, NextEntry
<1>2. Scanned(t) = ScanEntry(Scanned(s), e)
  <2> HIDE DEF e, t, S
  <2> QED
    BY <1>1, ScanIsFold, Scan!FoldAppend
<1>3. /\ e.index = Len(s) /\ e.kind = k /\ e.previous_hash = RootSha256(s) /\ e.payload = p
      /\ e.payload_sha256 = Sha256(p)
      /\ e.entry_hash = EntryHash(Len(s), k, RootSha256(s), Sha256(p))
  BY DEF NextEntry, LedgerEntry
<1>4. LinkAccepted(Scanned(s), e) /\ ExpectedHash(Scanned(s), e) = e.entry_hash
  BY <1>3 DEF LinkAccepted, ExpectedHash
<1>5. /\ Len(t) = Len(s) + 1
      /\ RootSha256(t) = e.entry_hash
      /\ UnresolvedBefore(t, Len(t) + 1) = IF k = "DECISION" THEN e.entry_hash ELSE None
  BY EntryAppended
<1> HIDE DEF e, t
<1> QED
  BY <1>2, <1>3, <1>4, <1>5 DEF ScanEntry, ScannedNext, t, e

-----------------------------------------------------------------------------
(* The control of run. *)

\* A receipt is made of truth values.
LEMMA ReceiptTyped ==
  ASSUME NEW v, NEW p, Admit(v, p)
  PROVE  /\ receipt' \in Receipts
         /\ receipt'.admitted => AsksVerdict
<1> DEFINE document   == ToDocument(SealedLedger(v))
           semantic   == SemanticValid(v)
           provenance == ProvenanceValid(observations)
           valid      == VerifyLedgerDocument(document)
           integrity  == BundleAccepted(document, semantic, provenance) /\ p
<1>1. receipt' = AdmissionReceipt(semantic, provenance, valid, integrity)
  BY Zenon DEF Admit
<1>2. /\ semantic \in BOOLEAN
      /\ provenance \in BOOLEAN
      /\ valid \in BOOLEAN
      /\ integrity \in BOOLEAN
      /\ (semantic /\ provenance /\ valid /\ integrity) \in BOOLEAN
  BY Zenon DEF SemanticValid, ProvenanceValid, VerifyLedgerDocument
<1>3. semantic => AsksVerdict
  BY Zenon DEF SemanticValid
<1> HIDE DEF document, semantic, provenance, valid, integrity
<1>4. receipt' \in Receipts
  BY <1>1, <1>2, Zenon DEF Receipts, AdmissionReceipt
<1>5. receipt'.admitted = (semantic /\ provenance /\ valid /\ integrity)
  BY <1>1 DEF AdmissionReceipt
<1> QED
  BY <1>3, <1>4, <1>5

\* Every step keeps the types.
LEMMA TypeStep == TypeOK /\ [Next]_vars => TypeOK'
<1> SUFFICES ASSUME TypeOK, [Next]_vars
             PROVE  TypeOK'
  OBVIOUS
<1> USE DEF TypeOK, Phases, Failures
<1>1. ASSUME NEW b \in ResetBatches, Start(b) PROVE TypeOK'
  <2>1. budgetExhausted' \in BOOLEAN
    BY <1>1 DEF Start, Exhaust, verdicts, TypeOK
  <2> QED
    BY <1>1, <2>1 DEF Start, Exhaust, inputs, verdicts, effects, TerminalReasons
<1>2. CASE StartRaises
  BY <1>2 DEF StartRaises, inputs, progress, verdicts, effects
<1>3. CASE SurfaceMismatch
  BY <1>3 DEF SurfaceMismatch, Raise, inputs, progress, verdicts, effects
<1>4. CASE StepBudgetExhausted
  BY <1>4 DEF StepBudgetExhausted, Exhaust, inputs, effects, TerminalReasons
<1>5. CASE PolicyRaises
  BY <1>5 DEF PolicyRaises, Raise, inputs, progress, verdicts, effects
<1>6. ASSUME NEW d \in Decisions, DecideAction(d) PROVE TypeOK'
  BY <1>6 DEF DecideAction, Decided, inputs, verdicts, effects
<1>7. ASSUME NEW d \in Decisions, SelectionInvalid(d) PROVE TypeOK'
  <2>1. budgetExhausted' \in BOOLEAN
    BY <1>7 DEF SelectionInvalid, RefuseDecision
  <2> QED
    BY <1>7, <2>1 DEF SelectionInvalid, Decided, RefuseDecision, inputs, effects, TerminalReasons
<1>8. ASSUME NEW d \in Decisions, GenerationRefused(d) PROVE TypeOK'
  <2>1. budgetExhausted' \in BOOLEAN
    BY <1>8 DEF GenerationRefused, RefuseDecision
  <2> QED
    BY <1>8, <2>1 DEF GenerationRefused, Decided, RefuseDecision, inputs, effects, TerminalReasons
<1>9. ASSUME NEW d \in Decisions, NEW c \in Candidates, Generate(d, c) PROVE TypeOK'
  BY <1>9 DEF Generate, Decided, inputs, verdicts, effects
<1>10. ASSUME NEW d \in Decisions, GeneratorRaises(d) PROVE TypeOK'
  BY <1>10 DEF GeneratorRaises, Decided, Raise, inputs, verdicts, effects
<1>11. ASSUME NEW b \in StepBatches, NEW isDone \in BOOLEAN, HostStep(b, isDone)
       PROVE  TypeOK'
  <2>1. budgetExhausted' \in BOOLEAN /\ done' \in BOOLEAN
    BY <1>11 DEF HostStep, ConcludeStep, Overrun, Finish, GoOn, Exhaust, verdicts, TypeOK
  <2> QED
    BY <1>11, <2>1 DEF HostStep, ConcludeStep, Overrun, Finish, GoOn,
                    Exhaust, inputs, verdicts, effects, TerminalReasons
<1>12. CASE HostRejects
  <2>1. budgetExhausted' \in BOOLEAN
    BY <1>12 DEF HostRejects, RefuseDecision
  <2> QED
    BY <1>12, <2>1 DEF HostRejects, RefuseDecision, inputs, effects, TerminalReasons
<1>13. CASE HostStepRaises
  BY <1>13 DEF HostStepRaises, Raise, inputs, progress, verdicts, effects
<1>14. CASE VerdictRaises
  BY <1>14 DEF VerdictRaises, Raise, inputs, progress, verdicts, effects
<1>15. ASSUME NEW v \in BOOLEAN, VerifierRaises(v) PROVE TypeOK'
  BY <1>15 DEF VerifierRaises, Raise, inputs, verdicts, effects
<1>16. ASSUME NEW v \in BOOLEAN, NEW p \in BOOLEAN, Admit(v, p) PROVE TypeOK'
  <2>1. receipt' \in Receipts
    BY <1>16, ReceiptTyped
  <2> QED
    BY <1>16, <2>1 DEF Admit, inputs, verdicts
<1>17. CASE Learn
  BY <1>17 DEF Learn, inputs, progress, verdicts
<1>18. CASE SinkRaises
  BY <1>18 DEF SinkRaises, Raise, inputs, progress, verdicts
<1>19. CASE Close
  BY <1>19 DEF Close, inputs, progress, verdicts, effects
<1>20. CASE CloseRaises
  BY <1>20 DEF CloseRaises, inputs, progress, verdicts, effects
<1>21. CASE UNCHANGED vars
  BY <1>21 DEF vars, inputs, progress, verdicts, effects
<1> QED
  BY <1>1, <1>2, <1>3, <1>4, <1>5, <1>6, <1>7, <1>8, <1>9, <1>10, <1>11, <1>12, <1>13,
     <1>14, <1>15, <1>16, <1>17, <1>18, <1>19, <1>20, <1>21 DEF Next

\* The types hold at the start.
LEMMA TypeInit == Init => TypeOK
<1> SUFFICES ASSUME Init PROVE TypeOK
  OBVIOUS
<1>1. done \in BOOLEAN /\ budgetExhausted \in BOOLEAN
  BY DEF Init
<1> QED
  BY <1>1 DEF TypeOK, Init, Phases

(* The state of an episode always has its type. *)
THEOREM TypeCorrect == Spec => []TypeOK
BY TypeInit, TypeStep, PTL DEF Spec

-----------------------------------------------------------------------------
\* What run knows at each phase, without the types.
ControlInv == LoopInv /\ WithinBudgets /\ CostOverrunWins /\ ReceiptInv /\ CreditInv /\ ExitInv

\* The control part holds at the start.
LEMMA ControlInit == Init => ControlInv
<1> SUFFICES ASSUME Init PROVE ControlInv
  OBVIOUS
<1>1. task \in Tasks
  BY DEF Init
<1> QED
  BY <1>1, TasksAssumption, NoneAssumption
  DEF Init, ControlInv, LoopInv, WithinBudgets, CostOverrunWins, ReceiptInv, CreditInv, ExitInv

\* Every step keeps the control part.
LEMMA ControlStep == TypeOK /\ TypeOK' /\ ControlInv /\ [Next]_vars => ControlInv'
<1> SUFFICES ASSUME TypeOK, TypeOK', ControlInv, [Next]_vars
             PROVE  ControlInv'
  OBVIOUS
<1> USE TasksAssumption, NoneAssumption
    DEF TypeOK, ControlInv, LoopInv, WithinBudgets, CostOverrunWins, ReceiptInv, CreditInv,
        ExitInv, Creditable, AsksVerdict, TerminalReasons, Failures, OverBudget, inputs,
        progress, verdicts, effects
<1>1. ASSUME NEW b \in ResetBatches, Start(b) PROVE ControlInv'
  BY <1>1 DEF Start, Exhaust
<1>2. CASE StartRaises
  BY <1>2 DEF StartRaises
<1>3. CASE SurfaceMismatch
  BY <1>3 DEF SurfaceMismatch, Raise
<1>4. CASE StepBudgetExhausted
  BY <1>4 DEF StepBudgetExhausted, Exhaust
<1>5. CASE PolicyRaises
  BY <1>5 DEF PolicyRaises, Raise
<1>6. ASSUME NEW d \in Decisions, DecideAction(d) PROVE ControlInv'
  BY <1>6 DEF DecideAction, Decided
<1>7. ASSUME NEW d \in Decisions, SelectionInvalid(d) PROVE ControlInv'
  BY <1>7 DEF SelectionInvalid, Decided, RefuseDecision
<1>8. ASSUME NEW d \in Decisions, GenerationRefused(d) PROVE ControlInv'
  BY <1>8 DEF GenerationRefused, Decided, RefuseDecision
<1>9. ASSUME NEW d \in Decisions, NEW c \in Candidates, Generate(d, c) PROVE ControlInv'
  BY <1>9 DEF Generate, Decided, MayGenerate
<1>10. ASSUME NEW d \in Decisions, GeneratorRaises(d) PROVE ControlInv'
  BY <1>10 DEF GeneratorRaises, Decided, MayGenerate, Raise
<1>11. ASSUME NEW b \in StepBatches, NEW isDone \in BOOLEAN, HostStep(b, isDone) PROVE ControlInv'
  BY <1>11 DEF HostStep, ConcludeStep, Overrun, Finish, GoOn, Exhaust
<1>12. CASE HostRejects
  BY <1>12 DEF HostRejects, RefuseDecision
<1>13. CASE HostStepRaises
  BY <1>13 DEF HostStepRaises, Raise
<1>14. CASE VerdictRaises
  BY <1>14 DEF VerdictRaises, Raise
<1>15. ASSUME NEW v \in BOOLEAN, VerifierRaises(v) PROVE ControlInv'
  BY <1>15 DEF VerifierRaises, Raise
<1>16. ASSUME NEW v \in BOOLEAN, NEW p \in BOOLEAN, Admit(v, p) PROVE ControlInv'
  <2>1. receipt' \in Receipts /\ (receipt'.admitted => AsksVerdict)
    BY <1>16, ReceiptTyped
  <2>2. /\ phase = "seal" /\ phase' = "learn"
        /\ UNCHANGED <<inputs, session, observations, generativeCalls, stepsTaken,
                      verdicts, updates, failure, outcome>>
    BY <1>16, Zenon DEF Admit
  <2> QED
    BY <2>1, <2>2
<1>17. CASE Learn
  BY <1>17 DEF Learn
<1>18. CASE SinkRaises
  BY <1>18 DEF SinkRaises, Raise
<1>19. CASE Close
  BY <1>19 DEF Close
<1>20. CASE CloseRaises
  BY <1>20 DEF CloseRaises
<1>21. CASE UNCHANGED vars
  BY <1>21 DEF vars
<1> QED
  BY <1>1, <1>2, <1>3, <1>4, <1>5, <1>6, <1>7, <1>8, <1>9, <1>10, <1>11,
     <1>12, <1>13, <1>14, <1>15, <1>16, <1>17, <1>18, <1>19, <1>20, <1>21 DEF Next

\* The types and the control part hold throughout.
LEMMA Invariance == Spec => []EpisodeInv
<1>1. Init => TypeOK /\ ControlInv
  BY TypeInit, ControlInit
<1>2. (TypeOK /\ ControlInv) /\ [Next]_vars => (TypeOK /\ ControlInv)'
  BY TypeStep, ControlStep
<1>3. (TypeOK /\ ControlInv) => EpisodeInv
  BY DEF ControlInv, EpisodeInv
<1> QED
  BY <1>1, <1>2, <1>3, PTL DEF Spec

(* max_steps, max_generative_calls and max_tool_cost bound every episode:  *)
(* run is never about to decide or to act over any of them.                *)
THEOREM BudgetsHold == Spec => []WithinBudgets
BY Invariance, PTL DEF EpisodeInv

(* A tool-cost overrun always decides how the episode ends.                *)
THEOREM CostOverrunDecides == Spec => []CostOverrunWins
BY Invariance, PTL DEF EpisodeInv

(* Learning state changes at most once, from admitted train evidence of an *)
(* episode within its budgets.                                             *)
THEOREM LearningGated == Spec => []LearningGate
<1>1. EpisodeInv => LearningGate
  BY DEF EpisodeInv, ReceiptInv, CreditInv, LearningGate, Creditable, AsksVerdict
<1> QED
  BY <1>1, Invariance, PTL

(* Unless host.start raised, leaving run closes the host session.          *)
THEOREM SessionIsReleased == Spec => []SessionReleased
<1>1. EpisodeInv => SessionReleased
  BY DEF EpisodeInv, TypeOK, ExitInv, SessionReleased, Phases
<1> QED
  BY <1>1, Invariance, PTL

(* No step replaces a failure or learns after one.                         *)
THEOREM FailureSurvives == Spec => PrimaryFailureSurvives
<1>1. EpisodeInv /\ [Next]_vars =>
        [failure # None => failure' = failure /\ updates' = updates]_vars
  <2> SUFFICES ASSUME EpisodeInv, [Next]_vars, failure # None
               PROVE  failure' = failure /\ updates' = updates
    OBVIOUS
  <2>1. phase \in {"close", "end"}
    BY DEF EpisodeInv, ExitInv
  <2>2. CASE UNCHANGED vars
    BY <2>2 DEF vars, effects
  <2>3. CASE Close \/ CloseRaises
    BY <2>3 DEF Close, CloseRaises, effects
  <2>4. CASE Next /\ ~Close /\ ~CloseRaises
    BY <2>1, <2>4
    DEF Next, Start, StartRaises, SurfaceMismatch, StepBudgetExhausted, PolicyRaises,
        DecideAction, SelectionInvalid, GenerationRefused, Generate, GeneratorRaises, Decided,
        HostStep, ConcludeStep, Overrun, Finish, GoOn, HostRejects, HostStepRaises,
        VerdictRaises, VerifierRaises, Admit, Learn, SinkRaises
  <2> QED
    BY <2>2, <2>3, <2>4
<1> QED
  BY <1>1, Invariance, PTL DEF Spec, PrimaryFailureSurvives

-----------------------------------------------------------------------------
(* What run's steps do to the ledger. *)

Quiet ==
    \/ StartRaises \/ SurfaceMismatch \/ StepBudgetExhausted \/ PolicyRaises \/ HostRejects
    \/ HostStepRaises \/ VerdictRaises \/ Learn \/ SinkRaises \/ Close \/ CloseRaises
    \/ UNCHANGED vars

Decides(d) ==
    \/ DecideAction(d) \/ SelectionInvalid(d) \/ GenerationRefused(d) \/ GeneratorRaises(d)
    \/ \E c \in Candidates : Generate(d, c)

Seals(v) == VerifierRaises(v) \/ \E p \in BOOLEAN : Admit(v, p)

\* Every step is of one of five sorts.
LEMMA NextCases ==
  ASSUME [Next]_vars
  PROVE  \/ Quiet
         \/ \E b \in ResetBatches : Start(b)
         \/ \E d \in Decisions : Decides(d)
         \/ \E b \in StepBatches, isDone \in BOOLEAN : HostStep(b, isDone)
         \/ \E v \in BOOLEAN : Seals(v)
BY Zenon DEF Next, Quiet, Decides, Seals

\* A quiet step writes nothing; it may end the loop, the episode or run.
LEMMA QuietEffect ==
  ASSUME TypeOK, ControlInv, Quiet
  PROVE  /\ UNCHANGED <<task, sink, ledger, observations, stepsTaken, generativeCalls, candidate,
                        done, receipt>>
         /\ phase' = phase \/ phase' \in {"seal", "close", "end"}
         /\ \/ cause' = cause /\ (phase' = "seal" => phase \in {"loop", "seal"})
            \/ phase = "step" /\ phase' = "seal" /\ cause' = RootSha256(ledger)
         /\ phase' = "seal" /\ phase = "loop" => cause = None
         /\ phase' = "close" /\ failure' = None =>
              \/ phase = "close" /\ failure = None /\ updates' = updates
              \/ phase = "learn" /\ updates = 0 /\ updates' = IF Creditable THEN 1 ELSE 0
<1> USE DEF inputs, progress, verdicts, effects
<1>1. CASE StartRaises
  BY <1>1 DEF StartRaises
<1>2. CASE SurfaceMismatch
  BY <1>2, NoneAssumption DEF SurfaceMismatch, Raise, Failures
<1>3. CASE StepBudgetExhausted
  BY <1>3 DEF StepBudgetExhausted, Exhaust, ControlInv, LoopInv
<1>4. CASE PolicyRaises
  BY <1>4, NoneAssumption DEF PolicyRaises, Raise, Failures
<1>5. CASE HostRejects
  BY <1>5 DEF HostRejects, RefuseDecision
<1>6. CASE HostStepRaises \/ VerdictRaises
  BY <1>6, NoneAssumption DEF HostStepRaises, VerdictRaises, Raise, Failures
<1>7. CASE Learn
  <2>1. updates = 0
    BY <1>7 DEF Learn, ControlInv, CreditInv
  <2> QED
    BY <1>7, <2>1 DEF Learn
<1>8. CASE SinkRaises
  BY <1>8, NoneAssumption DEF SinkRaises, Raise, Failures
<1>9. CASE Close \/ CloseRaises
  BY <1>9 DEF Close, CloseRaises
<1>10. CASE UNCHANGED vars
  BY <1>10, Zenon DEF vars, TypeOK, ControlInv, CreditInv, ReceiptInv
<1> QED
  BY <1>1, <1>2, <1>3, <1>4, <1>5, <1>6, <1>7, <1>8, <1>9, <1>10 DEF Quiet

\* A decision is recorded over the observations it was taken on.
LEMMA DecidesEffect ==
  ASSUME TypeOK, ControlInv, NEW d \in Decisions, Decides(d)
  PROVE  /\ phase = "loop"
         /\ UNCHANGED <<task, sink, observations, done, receipt, updates, outcome>>
         /\ ledger' = RecordDecision(ledger, d, observations)
         /\ stepsTaken' = stepsTaken + 1
         /\ \/ phase' = "step" /\ cause' = cause
            \/ phase' = "seal" /\ cause' = RootSha256(ledger')
            \/ phase' = "close" /\ cause' = cause
         /\ phase' = "close" => failure' # None
         /\ \/ phase' = "step" /\ candidate' # None /\ generativeCalls' = generativeCalls + 1
            \/ /\ ~(phase' = "step" /\ candidate' # None)
               /\ generativeCalls' \in {generativeCalls, generativeCalls + 1}
<1> USE DEF inputs, verdicts, effects, Decided
<1>1. CASE DecideAction(d)
  BY <1>1 DEF DecideAction
<1>2. CASE SelectionInvalid(d)
  BY <1>2 DEF SelectionInvalid, RefuseDecision
<1>3. CASE GenerationRefused(d)
  BY <1>3 DEF GenerationRefused, RefuseDecision
<1>4. CASE GeneratorRaises(d)
  BY <1>4, NoneAssumption DEF GeneratorRaises, Raise, Failures
<1>5. CASE \E c \in Candidates : Generate(d, c)
  BY <1>5 DEF Generate
<1> QED
  BY <1>1, <1>2, <1>3, <1>4, <1>5 DEF Decides

\* A result is recorded; the loop goes on or is over.
LEMMA HostStepEffect ==
  ASSUME TypeOK, ControlInv, NEW b \in StepBatches, NEW isDone \in BOOLEAN, HostStep(b, isDone)
  PROVE  /\ phase = "step" /\ phase' \in {"loop", "seal"}
         /\ UNCHANGED <<task, sink, stepsTaken, generativeCalls, candidate, cause, receipt, updates,
                        outcome>>
         /\ cause = None /\ ~done
         /\ observations' = observations \o b
         /\ ledger' = RecordActionResult(ledger, RootSha256(ledger), action, b, isDone, candidate)
         /\ done' => isDone
         /\ phase' = "loop" => ~isDone
<1>1. cause = None /\ ~done /\ phase = "step"
  BY DEF HostStep, ControlInv, LoopInv
<1> QED
  BY <1>1 DEF HostStep, ConcludeStep, Overrun, Finish, GoOn, Exhaust, inputs, verdicts, effects

\* The terminal receipt is recorded, with or without a verdict on it.
LEMMA SealsEffect ==
  ASSUME TypeOK, ControlInv, NEW v \in BOOLEAN, Seals(v)
  PROVE  /\ phase = "seal" /\ phase' \in {"learn", "close"}
         /\ UNCHANGED <<task, sink, observations, stepsTaken, generativeCalls, candidate, done,
                        cause,
                        updates, outcome>>
         /\ ledger' = SealedLedger(v)
         /\ phase' = "close" => failure' # None
         /\ \/ receipt' = None
            \/ /\ receipt'.trajectory_valid = VerifyLedgerDocument(ToDocument(ledger'))
               /\ receipt'.admitted => ProvenanceValid(observations)
<1>1. CASE VerifierRaises(v)
  BY <1>1, NoneAssumption
  DEF VerifierRaises, Raise, Failures, inputs, verdicts, effects, ControlInv, ReceiptInv
<1>2. ASSUME NEW p \in BOOLEAN, Admit(v, p)
      PROVE  /\ phase = "seal" /\ phase' = "learn"
             /\ UNCHANGED <<task, sink, observations, stepsTaken, generativeCalls, candidate, done, cause,
                            updates, outcome>>
             /\ ledger' = SealedLedger(v)
             /\ receipt' \in Receipts
             /\ receipt'.trajectory_valid = VerifyLedgerDocument(ToDocument(ledger'))
             /\ receipt'.admitted => ProvenanceValid(observations)
  <2> DEFINE valid == VerifyLedgerDocument(ToDocument(SealedLedger(v)))
             good  == ProvenanceValid(observations)
             whole == BundleAccepted(ToDocument(SealedLedger(v)), SemanticValid(v), good) /\ p
  <2>1. receipt' = AdmissionReceipt(SemanticValid(v), good, valid, whole)
    BY <1>2, Zenon DEF Admit
  <2>2. valid \in BOOLEAN /\ good \in BOOLEAN
    BY Zenon DEF VerifyLedgerDocument, ProvenanceValid
  <2>3. receipt'.trajectory_valid = valid /\ (receipt'.admitted => good)
    <3> HIDE DEF valid, good, whole
    <3> QED
      BY <2>1, <2>2 DEF AdmissionReceipt
  <2>4. receipt' \in Receipts
    BY <1>2, ReceiptTyped
  <2>5. /\ phase = "seal" /\ phase' = "learn"
        /\ ledger' = SealedLedger(v)
        /\ UNCHANGED <<inputs, session, observations, trajectory, generativeCalls, stepsTaken,
                   action, candidate, verdicts, updates, failure, outcome>>
    BY <1>2, Zenon DEF Admit
  <2> QED
    BY <2>3, <2>4, <2>5 DEF inputs, verdicts
<1>3. phase = "seal" => receipt = None
  BY DEF ControlInv, ReceiptInv
<1> QED
  BY <1>1, <1>2, <1>3 DEF Seals

\* The first observations are recorded, and the loop begins or is over.
LEMMA StartEffect ==
  ASSUME TypeOK, ControlInv, NEW b \in ResetBatches, Start(b)
  PROVE  /\ phase = "start" /\ phase' \in {"loop", "seal"}
         /\ UNCHANGED <<task, sink, generativeCalls, stepsTaken, candidate, done, cause,
                        receipt, updates, outcome>>
         /\ cause = None /\ ~done /\ receipt = None
         /\ observations' = b
         /\ ledger' = RecordObservationBatch(NewLedger(AgentView(task), Sha256(task)), b)
<1>1. phase = "start" /\ cause = None /\ ~done /\ receipt = None
  BY DEF Start, ControlInv, LoopInv, ReceiptInv
<1> QED
  BY <1>1 DEF Start, Exhaust, inputs, verdicts, effects

\* The last entry is an unanswered decision exactly when it is a decision.
LEMMA UnansweredMeans ==
  ASSUME ShapeInv, Unanswered # None
  PROVE  Unanswered = RootSha256(ledger) /\ ~Sealed
<1>1. Len(ledger) \in Nat
  BY DEF ShapeInv
<1>2. (Len(ledger) + 1) - 1 = Len(ledger) /\ (Len(ledger) + 1 > 1 => ledger # <<>>)
  BY <1>1
<1> QED
  BY <1>2 DEF Unanswered, UnresolvedBefore, RootSha256, Sealed, Kind

\* Counting is possible: there are finitely many entries of each kind.
LEMMA RecordedFinite ==
  ASSUME ShapeInv, NEW kind
  PROVE  /\ IsFiniteSet(Recorded(kind))
         /\ Recorded(kind) \subseteq 1 .. Len(ledger)
         /\ \A T \in SUBSET Recorded(kind) : IsFiniteSet(T) /\ Cardinality(T) \in Nat
<1>1. IsFiniteSet(Recorded(kind)) /\ Recorded(kind) \subseteq 1 .. Len(ledger)
  BY EntriesCounted DEF ShapeInv, Recorded
<1> QED
  BY <1>1, FS_Subset, FS_CardinalityType

\* A step that writes nothing keeps the ledger part.
LEMMA QuietLedger ==
  ASSUME TypeOK, ControlInv, LedgerInv, Quiet
  PROVE  LedgerInv'
<1> USE DEF LedgerInv
<1>1. /\ UNCHANGED <<task, sink, ledger, observations, stepsTaken, generativeCalls, candidate,
                     done, receipt>>
      /\ phase' = phase \/ phase' \in {"seal", "close", "end"}
      /\ \/ cause' = cause /\ (phase' = "seal" => phase \in {"loop", "seal"})
         \/ phase = "step" /\ phase' = "seal" /\ cause' = RootSha256(ledger)
      /\ phase' = "seal" /\ phase = "loop" => cause = None
      /\ phase' = "close" /\ failure' = None =>
           \/ phase = "close" /\ failure = None /\ updates' = updates
           \/ phase = "learn" /\ updates = 0 /\ updates' = IF Creditable THEN 1 ELSE 0
  BY QuietEffect
<1>2. /\ UNCHANGED <<Unanswered, Sealed, OfCandidate, Finished>>
      /\ \A kind : Recorded(kind)' = Recorded(kind)
  BY <1>1 DEF Unanswered, Sealed, Recorded, OfCandidate, Finished
<1>3. ShapeInv' /\ ScanInv' /\ FrontierInv' /\ CostInv'
  BY <1>1, <1>2 DEF ShapeInv, ScanInv, FrontierInv, CostInv, OverBudget
<1>4. SealInv'
  BY <1>1, <1>2 DEF SealInv
<1>5. PendingInv'
  <2>1. phase = "step" => Unanswered # None /\ Unanswered = RootSha256(ledger) /\ ~done
    BY UnansweredMeans DEF PendingInv, ControlInv, LoopInv
  <2> QED
    BY <1>1, <1>2, <2>1 DEF PendingInv
<1>6. CountInv'
  <2>1. phase = "step" => Unanswered # None /\ ~Sealed
    BY UnansweredMeans DEF PendingInv
  <2> QED
    BY <1>1, <1>2, <2>1 DEF CountInv
<1>7. CandidateInv'
  <2>1. Cardinality(OfCandidate) \in Nat
    BY RecordedFinite DEF OfCandidate
  <2> QED
    BY <1>1, <1>2, <2>1 DEF CandidateInv, TypeOK
<1>8. DoneInv'
  BY <1>1, <1>2 DEF DoneInv
<1>9. JudgedInv'
  BY <1>1 DEF JudgedInv
<1>10. ReturnInv'
  <2>1. phase = "learn" => receipt # None
    BY DEF ControlInv, ReceiptInv
  <2> QED
    BY <1>1, <2>1 DEF ReturnInv, Creditable
<1> QED
  BY <1>3, <1>4, <1>5, <1>6, <1>7, <1>8, <1>9, <1>10

\* One more entry of the ledger.
LEMMA LedgerGrows ==
  ASSUME NoneIsNoDigest, ShapeInv, NEW k, NEW p, ledger' = AppendEntry(ledger, k, p)
  PROVE  /\ ledger' \in Seq(ToSet(ledger')) /\ ledger' # <<>>
         /\ \A i \in DOMAIN ledger' : EntryShaped(ledger'[i])
         /\ Len(ledger) \in Nat /\ Len(ledger') = Len(ledger) + 1
         /\ \A i \in 1 .. Len(ledger) : ledger'[i] = ledger[i]
         /\ ledger'[Len(ledger')].payload = p
         /\ Sealed' = (k = "TERMINAL")
         /\ Unanswered' = IF k = "DECISION" THEN RootSha256(ledger') ELSE None
         /\ RootSha256(ledger') # None
         /\ Recorded(k)' = Recorded(k) \cup {Len(ledger')}
         /\ Cardinality(Recorded(k)') = Cardinality(Recorded(k)) + 1
         /\ \A kind : kind # k => Recorded(kind)' = Recorded(kind)
<1>1. /\ ledger \in Seq(ToSet(ledger))
      /\ Len(ledger) \in Nat
  BY DEF ShapeInv
<1>2. /\ ledger' \in Seq(ToSet(ledger'))
      /\ ledger' # <<>>
      /\ Len(ledger') = Len(ledger) + 1
      /\ \A i \in 1 .. Len(ledger) : ledger'[i] = ledger[i]
      /\ ledger'[Len(ledger')] = NextEntry(ledger, k, p)
      /\ Kind(ledger', Len(ledger')) = k /\ ledger'[Len(ledger')].payload = p
      /\ RootSha256(ledger') = NextEntry(ledger, k, p).entry_hash
      /\ UnresolvedBefore(ledger', Len(ledger') + 1) =
           IF k = "DECISION" THEN RootSha256(ledger') ELSE None
  BY <1>1, EntryAppended
<1>3. NextEntry(ledger, k, p).entry_hash # None
  BY DEF NextEntry, LedgerEntry, EntryHash, NoneIsNoDigest
<1>4. /\ Recorded(k)' = Recorded(k) \cup {Len(ledger) + 1}
      /\ Cardinality(Recorded(k)') = Cardinality(Recorded(k)) + 1
      /\ \A kind : kind # k => Recorded(kind)' = Recorded(kind)
  BY <1>1, EntriesCounted DEF Recorded
<1>5. \A i \in DOMAIN ledger' : EntryShaped(ledger'[i])
  <2>1. EntryShaped(NextEntry(ledger, k, p))
    BY DEF EntryShaped, NextEntry, LedgerEntry
  <2>2. DOMAIN ledger' = 1 .. Len(ledger) + 1 /\ DOMAIN ledger = 1 .. Len(ledger)
    BY <1>1, <1>2
  <2>3. \A i \in 1 .. Len(ledger) : EntryShaped(ledger'[i])
    BY <1>2, <2>2 DEF ShapeInv
  <2>4. 1 .. Len(ledger) + 1 = 1 .. Len(ledger) \cup {Len(ledger')}
    BY <1>1, <1>2
  <2> QED
    BY <1>2, <2>1, <2>2, <2>3, <2>4
<1> QED
  BY <1>1, <1>2, <1>3, <1>4, <1>5 DEF Sealed, Unanswered

\* The observations of an entry are seen by run and by the ledger's reader.
LEMMA LedgerObserved ==
  ASSUME NoneIsNoDigest, ShapeInv, FrontierInv, NEW k, NEW p, ledger' = AppendEntry(ledger, k, p),
         observations' = IF k \in {"OBSERVATION_BATCH", "ACTION_RESULT"}
                         THEN observations \o p.observations ELSE observations
  PROVE  FrontierInv'
<1>1. ledger \in Seq(ToSet(ledger)) /\ Len(ledger) \in Nat /\ Len(ledger') = Len(ledger) + 1
  BY LedgerGrows DEF ShapeInv
<1>2. Len(ledger') + 1 = Len(ledger) + 2
  BY <1>1
<1>3. ObservedBefore(ledger', Len(ledger) + 2) =
        IF k \in {"OBSERVATION_BATCH", "ACTION_RESULT"}
        THEN ObservedBefore(ledger, Len(ledger) + 1) \o p.observations
        ELSE ObservedBefore(ledger, Len(ledger) + 1)
  BY <1>1, ObservedNext
<1> QED
  BY <1>2, <1>3 DEF FrontierInv

\* What the verifier knows of the ledger so far.
Known ==
    [accepted |-> TRUE, index |-> Len(ledger), previous_hash |-> RootSha256(ledger),
     frontier |-> observations, pending |-> Unanswered, terminal_seen |-> Sealed]

\* An entry the verifier accepts leaves it knowing what run knows.
LEMMA LedgerScanned ==
  ASSUME NoneIsNoDigest, ShapeInv, ScanInv, NEW k, NEW p, ledger' = AppendEntry(ledger, k, p),
         KindAccepted(Known, NextEntry(ledger, k, p)),
         observations' = IF k \in {"OBSERVATION_BATCH", "ACTION_RESULT"}
                         THEN observations \o p.observations ELSE observations
  PROVE  ScanInv'
<1>1. Scanned(ledger) = Known
  BY DEF ScanInv, Known
<1>2. /\ Known.accepted /\ Known.index = Len(ledger)
      /\ Known.previous_hash = RootSha256(ledger)
      /\ Known.frontier = observations
  BY DEF Known
<1>3. /\ ledger \in Seq(ToSet(ledger))
      /\ Scanned(ledger).accepted /\ Scanned(ledger).index = Len(ledger)
      /\ Scanned(ledger).previous_hash = RootSha256(ledger)
      /\ KindAccepted(Scanned(ledger), NextEntry(ledger, k, p))
  BY <1>1, <1>2 DEF ShapeInv
<1> DEFINE t == AppendEntry(ledger, k, p)
<1>4. Scanned(t) = ScannedNext(ledger, k, p)
  BY <1>3, EntryScanned
<1> HIDE DEF t
<1>5. Scanned(t) =
        [accepted |-> TRUE, index |-> Len(t), previous_hash |-> RootSha256(t),
         frontier |-> observations', pending |-> UnresolvedBefore(t, Len(t) + 1),
         terminal_seen |-> k = "TERMINAL"]
  BY <1>1, <1>2, <1>4 DEF ScannedNext, t
<1>6. ledger' = t /\ Sealed' = (k = "TERMINAL")
  BY LedgerGrows DEF t
<1> QED
  BY <1>5, <1>6 DEF ScanInv, Unanswered

\* An entry that is no result changes nothing of the results.
LEMMA ResultsKept ==
  ASSUME NoneIsNoDigest, ShapeInv, NEW k, NEW p, ledger' = AppendEntry(ledger, k, p),
         k # "ACTION_RESULT"
  PROVE  /\ Recorded("ACTION_RESULT")' = Recorded("ACTION_RESULT")
         /\ OfCandidate' = OfCandidate
         /\ Finished' = Finished
         /\ CostInv /\ task' = task => CostInv'
<1>1. /\ Recorded("ACTION_RESULT")' = Recorded("ACTION_RESULT")
      /\ \A i \in 1 .. Len(ledger) : ledger'[i] = ledger[i]
      /\ Len(ledger) \in Nat
  BY LedgerGrows
<1>2. Recorded("ACTION_RESULT") \subseteq 1 .. Len(ledger)
  BY RecordedFinite
<1>3. \A i \in Recorded("ACTION_RESULT") : ledger'[i] = ledger[i]
  BY <1>1, <1>2
<1>4. OfCandidate' = OfCandidate /\ Finished' = Finished
  BY <1>1, <1>3 DEF OfCandidate, Finished
<1>5. \A i \in Recorded("ACTION_RESULT") : ObservedBefore(ledger', i) = ObservedBefore(ledger, i)
  BY <1>1, <1>2, ObservedKept DEF ShapeInv
<1>6. ASSUME CostInv, task' = task PROVE CostInv'
  BY <1>1, <1>5, <1>6 DEF CostInv, OverBudget
<1> QED
  BY <1>1, <1>4, <1>6

\* Before the seal no entry is terminal.
LEMMA NothingTerminal ==
  ASSUME SealInv, ~Sealed, ShapeInv, ledger # <<>>
  PROVE  Recorded("TERMINAL") = {}
<1>1. Recorded("TERMINAL") \subseteq {Len(ledger)}
  BY DEF SealInv
<1>2. \A i \in Recorded("TERMINAL") : Kind(ledger, i) = "TERMINAL"
  BY DEF Recorded, EntriesOf
<1> QED
  BY <1>1, <1>2 DEF Sealed

\* A complete ledger whose scan succeeds is accepted as a document.
LEMMA SealAccepted ==
  ASSUME NEW l, l # <<>>, Scanned(l).accepted, Scanned(l).terminal_seen,
         Scanned(l).previous_hash = RootSha256(l)
  PROVE  VerifyLedgerDocument(ToDocument(l))
<1>1. /\ ToDocument(l).format = LEDGER_FORMAT
      /\ ToDocument(l).entries = l
      /\ ToDocument(l).entry_count = Len(l)
      /\ ToDocument(l).root_sha256 = RootSha256(l)
  BY DEF ToDocument
<1> QED
  BY <1>1 DEF VerifyLedgerDocument

\* A decision keeps the ledger part.
LEMMA DecidesLedger ==
  ASSUME NoneIsNoDigest, TypeOK, ControlInv, LedgerInv, NEW d \in Decisions, Decides(d)
  PROVE  LedgerInv'
<1> USE DEF LedgerInv
<1> DEFINE p == [decision |-> d, observation_frontier_sha256 |-> Sha256(observations)]
<1>1. /\ phase = "loop"
      /\ UNCHANGED <<task, sink, observations, done, receipt, updates>>
      /\ ledger' = RecordDecision(ledger, d, observations)
      /\ stepsTaken' = stepsTaken + 1
      /\ \/ phase' = "step" /\ cause' = cause
         \/ phase' = "seal" /\ cause' = RootSha256(ledger')
         \/ phase' = "close" /\ cause' = cause
      /\ phase' = "close" => failure' # None
      /\ \/ phase' = "step" /\ candidate' # None /\ generativeCalls' = generativeCalls + 1
         \/ /\ ~(phase' = "step" /\ candidate' # None)
            /\ generativeCalls' \in {generativeCalls, generativeCalls + 1}
  BY DecidesEffect
<1>2. ledger' = AppendEntry(ledger, "DECISION", p)
  BY <1>1 DEF RecordDecision
<1>3. cause = None /\ ~done /\ receipt = None
  BY <1>1 DEF ControlInv, LoopInv, ReceiptInv
<1>4. ledger # <<>> /\ ~Sealed /\ Unanswered = None /\ Finished = {}
  BY <1>1 DEF SealInv, PendingInv, DoneInv
<1> HIDE DEF p
<1>5. /\ ledger' \in Seq(ToSet(ledger')) /\ ledger' # <<>>
      /\ \A i \in DOMAIN ledger' : EntryShaped(ledger'[i])
      /\ Len(ledger) \in Nat /\ Len(ledger') = Len(ledger) + 1
      /\ ~Sealed'
      /\ Unanswered' = RootSha256(ledger') /\ Unanswered' # None
      /\ Cardinality(Recorded("DECISION")') = Cardinality(Recorded("DECISION")) + 1
      /\ Recorded("TERMINAL")' = Recorded("TERMINAL")
  BY <1>2, LedgerGrows
<1>6. /\ Recorded("ACTION_RESULT")' = Recorded("ACTION_RESULT")
      /\ OfCandidate' = OfCandidate /\ Finished' = Finished
      /\ CostInv'
  BY <1>1, <1>2, ResultsKept
<1>7. ShapeInv'
  BY <1>1, <1>5 DEF ShapeInv
<1>8. SealInv'
  <2>1. Recorded("TERMINAL") = {}
    BY <1>4, NothingTerminal
  <2> QED
    BY <1>1, <1>3, <1>5, <2>1 DEF SealInv
<1>9. ScanInv'
  <2>1. Len(ledger) > 0
    BY <1>4, <1>5, EmptySeq DEF ShapeInv
  <2>2. /\ NextEntry(ledger, "DECISION", p).kind = "DECISION"
        /\ NextEntry(ledger, "DECISION", p).payload = p
    BY DEF NextEntry, LedgerEntry
  <2>3. /\ Get(p, "decision") # None
        /\ Get(p, "observation_frontier_sha256") = Sha256(observations)
    BY DecisionsAssumption DEF Get, p
  <2>4. KindAccepted(Known, NextEntry(ledger, "DECISION", p))
    BY <1>4, <2>1, <2>2, <2>3 DEF KindAccepted, FrontierBound, Known
  <2> QED
    BY <1>1, <1>2, <2>4, LedgerScanned
<1>10. PendingInv' /\ FrontierInv'
  <2>1. FrontierInv'
    BY <1>1, <1>2, LedgerObserved
  <2> QED
    BY <2>1, <1>1, <1>3, <1>5 DEF PendingInv
<1>11. CountInv'
  <2>1. Cardinality(Recorded("ACTION_RESULT")) \in Nat
    BY RecordedFinite
  <2> QED
    BY <1>1, <1>4, <1>5, <1>6, <2>1 DEF CountInv, TypeOK
<1>12. CandidateInv'
  <2>1. Cardinality(OfCandidate) \in Nat
    BY RecordedFinite DEF OfCandidate
  <2> QED
    BY <1>1, <1>6, <2>1 DEF CandidateInv, TypeOK
<1>13. DoneInv'
  BY <1>1, <1>3, <1>4, <1>6 DEF DoneInv
<1>14. JudgedInv' /\ ReturnInv'
  BY <1>1, <1>3 DEF JudgedInv, ReturnInv
<1> QED
  BY <1>6, <1>7, <1>8, <1>9, <1>10, <1>11, <1>12, <1>13, <1>14

\* Observations appended to observations.
LEMMA Concatenated ==
  ASSUME NEW s, NEW b, s \in Seq(ToSet(s)), b \in Seq(ToSet(b)),
         \A i \in DOMAIN s : s[i].cost \in Int \cup {NaN},
         \A i \in DOMAIN b : b[i].cost \in Int \cup {NaN}
  PROVE  /\ s \o b \in Seq(ToSet(s \o b))
         /\ \A i \in DOMAIN (s \o b) : (s \o b)[i].cost \in Int \cup {NaN}
<1> DEFINE T == ToSet(s) \cup ToSet(b)
           t == s \o b
<1>1. s \in Seq(T) /\ b \in Seq(T)
  OBVIOUS
<1> HIDE DEF T
<1>2. /\ t \in Seq(T) /\ Len(t) \in Nat /\ DOMAIN t = 1 .. Len(t)
      /\ \A i \in DOMAIN t : \/ i \in DOMAIN s /\ t[i] = s[i]
                             \/ i - Len(s) \in DOMAIN b /\ t[i] = b[i - Len(s)]
  BY <1>1
<1> HIDE DEF t
<1>3. t \in [1 .. Len(t) -> ToSet(t)]
  BY <1>2 DEF ToSet
<1>4. t \in Seq(ToSet(t))
  BY <1>2, <1>3
<1>5. \A i \in DOMAIN t : t[i].cost \in Int \cup {NaN}
  BY <1>2
<1> QED
  BY <1>4, <1>5 DEF t

\* A result keeps the ledger part.
LEMMA HostStepLedger ==
  ASSUME NoneIsNoDigest, TypeOK, ControlInv, LedgerInv,
         NEW b \in StepBatches, NEW isDone \in BOOLEAN, HostStep(b, isDone)
  PROVE  LedgerInv'
<1> USE DEF LedgerInv
<1> DEFINE p == [decision_entry_hash |-> RootSha256(ledger), action |-> action, done |-> isDone,
                 observations |-> b, observations_sha256 |-> Sha256(b),
                 candidate_sha256 |-> IF candidate = None THEN None ELSE Sha256(candidate)]
<1>1. /\ phase = "step" /\ phase' \in {"loop", "seal"}
      /\ UNCHANGED <<task, sink, stepsTaken, generativeCalls, candidate, cause, receipt, updates>>
      /\ cause = None /\ ~done
      /\ observations' = observations \o b
      /\ ledger' = RecordActionResult(ledger, RootSha256(ledger), action, b, isDone, candidate)
      /\ done' => isDone
      /\ phase' = "loop" => ~isDone
  BY HostStepEffect
<1>2. ledger' = AppendEntry(ledger, "ACTION_RESULT", p)
  BY <1>1 DEF RecordActionResult
<1>3. receipt = None /\ ~OverBudget(task, observations)
  BY <1>1 DEF ControlInv, ReceiptInv, WithinBudgets
<1>4. /\ ledger # <<>> /\ ~Sealed
      /\ Unanswered # None /\ Unanswered = RootSha256(ledger)
      /\ Finished = {}
  BY <1>1, UnansweredMeans DEF SealInv, PendingInv, DoneInv
<1>5. /\ p.observations = b /\ p.done = isDone
      /\ p.candidate_sha256 # None => candidate # None
  OBVIOUS
<1> HIDE DEF p
<1>6. /\ ledger' \in Seq(ToSet(ledger')) /\ ledger' # <<>>
      /\ \A i \in DOMAIN ledger' : EntryShaped(ledger'[i])
      /\ Len(ledger) \in Nat /\ Len(ledger') = Len(ledger) + 1
      /\ \A i \in 1 .. Len(ledger) : ledger'[i] = ledger[i]
      /\ ledger'[Len(ledger')].payload = p
      /\ ~Sealed'
      /\ Unanswered' = None
      /\ Recorded("ACTION_RESULT")' = Recorded("ACTION_RESULT") \cup {Len(ledger')}
      /\ Cardinality(Recorded("ACTION_RESULT")') = Cardinality(Recorded("ACTION_RESULT")) + 1
      /\ Recorded("TERMINAL")' = Recorded("TERMINAL")
      /\ Recorded("DECISION")' = Recorded("DECISION")
  <2>1. /\ Unanswered' = IF "ACTION_RESULT" = "DECISION" THEN RootSha256(ledger') ELSE None
        /\ Sealed' = ("ACTION_RESULT" = "TERMINAL")
    BY <1>2, LedgerGrows
  <2>2. \A kind : kind # "ACTION_RESULT" => Recorded(kind)' = Recorded(kind)
    BY <1>2, LedgerGrows
  <2>3. /\ Recorded("TERMINAL")' = Recorded("TERMINAL")
        /\ Recorded("DECISION")' = Recorded("DECISION")
    BY <2>2
  <2> QED
    BY <1>2, <2>1, <2>3, LedgerGrows
<1> DEFINE n == Len(ledger')
<1>0. /\ n = Len(ledger) + 1 /\ n \in Nat /\ ledger'[n].payload = p
      /\ Recorded("ACTION_RESULT")' = Recorded("ACTION_RESULT") \cup {n}
  BY <1>6
<1> HIDE DEF n
<1>7. /\ Recorded("ACTION_RESULT") \subseteq 1 .. Len(ledger)
      /\ n \notin 1 .. Len(ledger)
      /\ \A i \in Recorded("ACTION_RESULT") : ledger'[i] = ledger[i]
  BY <1>0, <1>6, RecordedFinite
<1>8. /\ Finished' = Finished \cup (IF isDone THEN {n} ELSE {})
      /\ OfCandidate' = OfCandidate \cup (IF p.candidate_sha256 # None THEN {n} ELSE {})
  <2>1. Finished' = {i \in Recorded("ACTION_RESULT") \cup {n} : ledger'[i].payload.done}
    BY <1>0 DEF Finished
  <2>2. OfCandidate' = {i \in Recorded("ACTION_RESULT") \cup {n} :
                            ledger'[i].payload.candidate_sha256 # None}
    BY <1>0 DEF OfCandidate
  <2> QED
    BY <1>0, <1>5, <1>6, <1>7, <2>1, <2>2 DEF Finished, OfCandidate
<1>9. ShapeInv'
  <2>1. b \in Seq(ToSet(b)) /\ \A i \in DOMAIN b : b[i].cost \in Int \cup {NaN}
    BY BatchesAssumption
  <2>2. /\ observations \in Seq(ToSet(observations))
        /\ \A i \in DOMAIN observations : observations[i].cost \in Int \cup {NaN}
    BY DEF ShapeInv
  <2>3. /\ observations' \in Seq(ToSet(observations'))
        /\ \A i \in DOMAIN observations' : observations'[i].cost \in Int \cup {NaN}
    BY <1>1, <2>1, <2>2, Concatenated
  <2> QED
    BY <1>6, <2>3 DEF ShapeInv
<1>10. SealInv'
  <2>1. Recorded("TERMINAL") = {}
    BY <1>4, NothingTerminal
  <2> QED
    BY <1>1, <1>3, <1>6, <2>1 DEF SealInv
<1>11. ScanInv'
  <2>1. Len(ledger) > 0
    BY <1>4, <1>6, EmptySeq DEF ShapeInv
  <2>2. /\ NextEntry(ledger, "ACTION_RESULT", p).kind = "ACTION_RESULT"
        /\ NextEntry(ledger, "ACTION_RESULT", p).payload = p
    BY DEF NextEntry, LedgerEntry
  <2>3. /\ Get(p, "decision_entry_hash") = RootSha256(ledger)
        /\ Get(p, "observations") # None
        /\ Get(p, "observations_sha256") = Sha256(Get(p, "observations"))
    BY BatchesAssumption DEF Get, p
  <2>4. KindAccepted(Known, NextEntry(ledger, "ACTION_RESULT", p))
    BY <1>4, <2>1, <2>2, <2>3 DEF KindAccepted, DigestBound, Known
  <2> QED
    BY <1>1, <1>2, <1>5, <2>4, LedgerScanned
<1>12. PendingInv' /\ FrontierInv'
  <2>1. FrontierInv'
    BY <1>1, <1>2, <1>5, LedgerObserved
  <2> QED
    BY <2>1, <1>1, <1>6 DEF PendingInv
<1>13. CountInv'
  <2>1. Cardinality(Recorded("ACTION_RESULT")) \in Nat
    BY RecordedFinite
  <2> QED
    BY <1>1, <1>4, <1>6, <2>1 DEF CountInv, TypeOK
<1>14. CandidateInv'
  <2>1. /\ IsFiniteSet(OfCandidate) /\ Cardinality(OfCandidate) \in Nat
        /\ OfCandidate \subseteq 1 .. Len(ledger)
    BY RecordedFinite DEF OfCandidate
  <2>2. Cardinality(OfCandidate \cup {n}) = Cardinality(OfCandidate) + 1
    BY <1>7, <2>1, FS_AddElement
  <2>3. OfCandidate' = OfCandidate \/ (candidate # None /\ OfCandidate' = OfCandidate \cup {n})
    BY <1>5, <1>8
  <2>4. Cardinality(OfCandidate) + (IF candidate # None THEN 1 ELSE 0) <= generativeCalls
    BY <1>1 DEF CandidateInv
  <2>5. Cardinality(OfCandidate)' = Cardinality(OfCandidate')
    OBVIOUS
  <2>6. phase' # "step" /\ generativeCalls' = generativeCalls
    BY <1>1
  <2> QED
    <3>1. CASE OfCandidate' = OfCandidate
      <4>1. Cardinality(OfCandidate) <= generativeCalls
        BY <2>1, <2>4 DEF TypeOK
      <4> QED
        BY <3>1, <4>1, <2>1, <2>6 DEF CandidateInv
    <3>2. CASE candidate # None /\ OfCandidate' = OfCandidate \cup {n}
      <4>1. Cardinality(OfCandidate') <= generativeCalls
        BY <2>2, <2>4, <3>2
      <4>2. Cardinality(OfCandidate') \in Nat
        BY <2>1, <2>2, <3>2
      <4> QED
        BY <4>1, <4>2, <2>6 DEF CandidateInv
    <3> QED
      BY <2>3, <3>1, <3>2
<1>15. DoneInv'
  BY <1>1, <1>4, <1>6, <1>8 DEF DoneInv, n
<1>16. CostInv'
  <2>1. ObservedBefore(ledger, n) = observations
    BY <1>0 DEF FrontierInv
  <2>2. \A i \in 1 .. n : ObservedBefore(ledger', i) = ObservedBefore(ledger, i)
    BY <1>0, <1>2, ObservedKept DEF ShapeInv
  <2>3. \A i \in Recorded("ACTION_RESULT") : ~OverBudget(task, ObservedBefore(ledger', i))
    BY <1>0, <1>7, <2>2 DEF CostInv
  <2>4. ~OverBudget(task, ObservedBefore(ledger', n))
    BY <1>0, <1>3, <2>1, <2>2
  <2> QED
    BY <1>0, <1>1, <2>3, <2>4 DEF CostInv
<1>17. JudgedInv' /\ ReturnInv'
  BY <1>1, <1>3 DEF JudgedInv, ReturnInv
<1> QED
  BY <1>9, <1>10, <1>11, <1>12, <1>13, <1>14, <1>15, <1>16, <1>17

\* The terminal receipt keeps the ledger part.
LEMMA SealsLedger ==
  ASSUME NoneIsNoDigest, TypeOK, ControlInv, LedgerInv, NEW v \in BOOLEAN, Seals(v)
  PROVE  LedgerInv'
<1> USE DEF LedgerInv
<1> DEFINE p == [terminal_reason |-> terminalReason, semantic_valid |-> SemanticValid(v),
                 provenance_valid |-> ProvenanceValid(observations),
                 budget_exhausted |-> budgetExhausted,
                 observation_frontier_sha256 |-> Sha256(observations),
                 caused_by_decision_entry_hash |-> cause]
<1>1. /\ phase = "seal" /\ phase' \in {"learn", "close"}
      /\ UNCHANGED <<task, sink, observations, stepsTaken, generativeCalls, candidate, done, cause>>
      /\ ledger' = SealedLedger(v)
      /\ phase' = "close" => failure' # None
      /\ \/ receipt' = None
         \/ /\ receipt'.trajectory_valid = VerifyLedgerDocument(ToDocument(ledger'))
            /\ receipt'.admitted => ProvenanceValid(observations)
  BY SealsEffect
<1>2. ledger' = AppendEntry(ledger, "TERMINAL", p)
  BY <1>1 DEF SealedLedger, RecordTerminal
<1>3. /\ Get(p, "observation_frontier_sha256") = Sha256(observations)
      /\ Get(p, "caused_by_decision_entry_hash") = cause
  BY DEF Get
<1> HIDE DEF p
<1>4. ledger # <<>> /\ ~Sealed /\ cause = Unanswered
  BY <1>1 DEF SealInv, PendingInv
<1>5. /\ ledger' \in Seq(ToSet(ledger')) /\ ledger' # <<>>
      /\ \A i \in DOMAIN ledger' : EntryShaped(ledger'[i])
      /\ Len(ledger) \in Nat /\ Len(ledger') = Len(ledger) + 1
      /\ Sealed'
      /\ Recorded("TERMINAL")' = Recorded("TERMINAL") \cup {Len(ledger')}
      /\ Recorded("DECISION")' = Recorded("DECISION")
  <2>1. Sealed' = ("TERMINAL" = "TERMINAL")
    BY <1>2, LedgerGrows
  <2>2. \A kind : kind # "TERMINAL" => Recorded(kind)' = Recorded(kind)
    BY <1>2, LedgerGrows
  <2>3. Recorded("DECISION")' = Recorded("DECISION")
    BY <2>2
  <2> QED
    BY <1>2, <2>1, <2>3, LedgerGrows
<1>6. /\ Recorded("ACTION_RESULT")' = Recorded("ACTION_RESULT")
      /\ OfCandidate' = OfCandidate /\ Finished' = Finished
      /\ CostInv'
  BY <1>1, <1>2, ResultsKept
<1>7. ShapeInv'
  BY <1>1, <1>5 DEF ShapeInv
<1>8. SealInv'
  <2>1. Recorded("TERMINAL") = {}
    BY <1>4, NothingTerminal
  <2> QED
    BY <1>1, <1>5, <2>1 DEF SealInv
<1>9. ScanInv'
  <2>1. Len(ledger) > 0
    BY <1>4, <1>5, EmptySeq DEF ShapeInv
  <2>2. /\ NextEntry(ledger, "TERMINAL", p).kind = "TERMINAL"
        /\ NextEntry(ledger, "TERMINAL", p).payload = p
    BY DEF NextEntry, LedgerEntry
  <2>3. KindAccepted(Known, NextEntry(ledger, "TERMINAL", p))
    BY <1>3, <1>4, <2>1, <2>2 DEF KindAccepted, FrontierBound, Known
  <2> QED
    BY <1>1, <1>2, <2>3, LedgerScanned
<1>10. PendingInv' /\ FrontierInv'
  <2>1. FrontierInv'
    BY <1>1, <1>2, LedgerObserved
  <2> QED
    BY <2>1, <1>1 DEF PendingInv
<1>11. CountInv'
  BY <1>1, <1>4, <1>5, <1>6 DEF CountInv
<1>12. CandidateInv'
  BY <1>1, <1>6 DEF CandidateInv
<1>13. DoneInv'
  <2>1. Len(ledger') - 1 = Len(ledger)
    BY <1>5
  <2> QED
    BY <1>1, <1>4, <1>5, <1>6, <2>1 DEF DoneInv
<1>14. JudgedInv'
  <2>1. VerifyLedgerDocument(ToDocument(ledger'))
    <3>1. /\ Scanned(ledger').accepted
          /\ Scanned(ledger').terminal_seen
          /\ Scanned(ledger').previous_hash = RootSha256(ledger')
      <4>1. Scanned(ledger') =
              [accepted |-> TRUE, index |-> Len(ledger'), previous_hash |-> RootSha256(ledger'),
               frontier |-> observations', pending |-> Unanswered', terminal_seen |-> Sealed']
        BY <1>9 DEF ScanInv
      <4> QED
        BY <4>1, <1>5
    <3> QED
      BY <1>5, <3>1, SealAccepted
  <2> QED
    BY <1>1, <2>1 DEF JudgedInv, ProvenanceValid
<1>15. ReturnInv'
  BY <1>1 DEF ReturnInv
<1> QED
  BY <1>6, <1>7, <1>8, <1>9, <1>10, <1>11, <1>12, <1>13, <1>14, <1>15

\* Nothing is known of an empty ledger.
LEMMA EmptyLedger ==
  /\ <<>> \in Seq(ToSet(<<>>)) /\ Len(<<>>) = 0 /\ DOMAIN <<>> = {}
  /\ Scanned(<<>>) = ScanStart
  /\ ObservedBefore(<<>>, 1) = <<>>
  /\ \A kind : EntriesOf(<<>>, kind) = {}
  /\ UnresolvedBefore(<<>>, 1) = None
<1>1. <<>> \in Seq(ToSet(<<>>)) /\ Len(<<>>) = 0 /\ DOMAIN <<>> = {}
  OBVIOUS
<1>2. Scanned(<<>>) = ScanStart
  BY ScanIsFold, Scan!FoldEmpty
<1>3. ObservedBefore(<<>>, 1) = <<>>
  BY <1>1, ObservedNone
<1>4. \A kind : EntriesOf(<<>>, kind) = {}
  BY <1>1 DEF EntriesOf
<1>5. UnresolvedBefore(<<>>, 1) = None
  <2>1. ~(1 > 1)
    OBVIOUS
  <2> QED
    BY <2>1 DEF UnresolvedBefore
<1> QED
  BY <1>1, <1>2, <1>3, <1>4, <1>5

\* The ledger part holds at the start.
LEMMA LedgerInit ==
  ASSUME Init
  PROVE  LedgerInv
<1>1. /\ ledger = <<>> /\ observations = <<>> /\ phase = "start" /\ ~Sealed
      /\ stepsTaken = 0 /\ generativeCalls = 0 /\ receipt = None /\ done = FALSE /\ cause = None
  BY DEF Init, Sealed
<1>2. Unanswered = None /\ \A kind : Recorded(kind) = {}
  <2>1. Len(ledger) + 1 = 1
    BY <1>1
  <2> QED
    BY <1>1, <2>1, EmptyLedger DEF Unanswered, Recorded
<1>3. OfCandidate = {} /\ Finished = {}
  BY <1>2 DEF OfCandidate, Finished
<1>4. Cardinality({}) = 0
  BY FS_EmptySet
<1>5. ShapeInv
  BY <1>1, EmptyLedger DEF ShapeInv
<1>6. ScanInv
  <2>1. RootSha256(ledger) = ZERO_HASH /\ Len(ledger) = 0 /\ Sealed = FALSE
    BY <1>1, EmptyLedger DEF RootSha256, Sealed
  <2>2. Scanned(ledger) = ScanStart
    BY <1>1, EmptyLedger
  <2> QED
    BY <1>1, <1>2, <2>1, <2>2 DEF ScanInv, ScanStart
<1>7. FrontierInv
  <2>1. Len(ledger) + 1 = 1
    BY <1>1
  <2> QED
    BY <1>1, <2>1, EmptyLedger DEF FrontierInv
<1>8. SealInv /\ PendingInv /\ CostInv /\ JudgedInv /\ ReturnInv /\ DoneInv
  BY <1>1, <1>2, <1>3 DEF SealInv, PendingInv, CostInv, JudgedInv, ReturnInv, DoneInv
<1>9. CountInv /\ CandidateInv
  <2>1. Recorded("DECISION") = {} /\ Recorded("ACTION_RESULT") = {}
    BY <1>2
  <2>2. CountInv
    BY <1>1, <1>2, <1>4, <2>1 DEF CountInv
  <2>3. CandidateInv
    BY <1>1, <1>3, <1>4 DEF CandidateInv
  <2> QED
    BY <2>2, <2>3
<1> QED
  BY <1>5, <1>6, <1>7, <1>8, <1>9 DEF LedgerInv

\* A new ledger has one entry, which the verifier accepts.
LEMMA LedgerOpened ==
  ASSUME NoneIsNoDigest, NEW view, NEW commitment, commitment # None
  PROVE  LET l == NewLedger(view, commitment)
         IN  /\ l \in Seq(ToSet(l)) /\ Len(l) = 1 /\ DOMAIN l = 1 .. 1 /\ EntryShaped(l[1])
             /\ Scanned(l).accepted /\ Scanned(l).index = 1
             /\ Scanned(l).previous_hash = RootSha256(l)
             /\ Scanned(l).frontier = <<>> /\ Scanned(l).pending = None
             /\ Scanned(l).terminal_seen = FALSE
             /\ ObservedBefore(l, 2) = <<>>
             /\ \A kind : kind # "EPISODE_START" => EntriesOf(l, kind) = {}
<1> DEFINE p == [agent_task_view_sha256 |-> Sha256(view), host_task_commitment |-> commitment]
           nil == <<>>
           l == AppendEntry(nil, "EPISODE_START", p)
           e == NextEntry(nil, "EPISODE_START", p)
<1>1. Get(p, "host_task_commitment") # None /\ Get(p, "agent_task_view_sha256") # None
  BY DEF Get, NoneIsNoDigest
<1>2. e.kind = "EPISODE_START" /\ e.payload = p /\ EntryShaped(e)
  BY DEF NextEntry, LedgerEntry, EntryShaped
<1>3. NewLedger(view, commitment) = l
  BY DEF NewLedger
<1> HIDE DEF p, e, l, nil
<1>4. /\ nil \in Seq(ToSet(nil)) /\ Len(nil) = 0 /\ RootSha256(nil) = ZERO_HASH
      /\ Scanned(nil) = ScanStart
      /\ ObservedBefore(nil, 1) = <<>>
      /\ \A kind : EntriesOf(nil, kind) = {}
      /\ 0 + 1 = 1 /\ 0 + 2 = 2
  BY EmptyLedger DEF RootSha256, nil
<1>5. /\ l \in Seq(ToSet(l)) /\ Len(l) = 1 /\ DOMAIN l = 1 .. 1 /\ l[1] = e
      /\ UnresolvedBefore(l, 1 + 1) = None
  <2> DEFINE n == Len(nil) + 1
  <2>0. nil \in Seq(ToSet(nil))
    BY <1>4
  <2>1. UnresolvedBefore(l, n + 1) = IF "EPISODE_START" = "DECISION" THEN RootSha256(l) ELSE None
    BY <2>0, EntryAppended DEF l
  <2>2. l \in Seq(ToSet(l)) /\ Len(l) = n /\ DOMAIN l = 1 .. n /\ l[n] = e
    BY <2>0, EntryAppended DEF l, e
  <2>3. n = 1
    BY <1>4
  <2> HIDE DEF n
  <2> QED
    BY <2>1, <2>2, <2>3
<1>6. KindAccepted(ScanStart, e)
  BY <1>1, <1>2 DEF KindAccepted, ScanStart
<1>7. Scanned(l) = ScannedNext(nil, "EPISODE_START", p)
  <2>1. /\ ScanStart.accepted /\ ScanStart.index = 0 /\ ScanStart.previous_hash = ZERO_HASH
    BY DEF ScanStart
  <2> QED
    BY <1>4, <1>6, <2>1, EntryScanned DEF l, e
<1>8. /\ Scanned(l).accepted /\ Scanned(l).index = 1
      /\ Scanned(l).previous_hash = RootSha256(l)
      /\ Scanned(l).frontier = <<>> /\ Scanned(l).pending = None
      /\ Scanned(l).terminal_seen = FALSE
  <2>1. Scanned(l) =
          [accepted |-> TRUE, index |-> 1, previous_hash |-> RootSha256(l),
           frontier |-> Scanned(nil).frontier, pending |-> None,
           terminal_seen |-> FALSE]
    BY <1>5, <1>7 DEF ScannedNext, l
  <2>2. Scanned(nil).frontier = <<>>
    BY <1>4 DEF ScanStart
  <2> QED
    BY <2>1, <2>2
<1>9. ObservedBefore(l, 2) = <<>>
  <2>1. ObservedBefore(l, Len(nil) + 2) = ObservedBefore(nil, Len(nil) + 1)
    BY <1>4, ObservedNext DEF l
  <2> QED
    BY <1>4, <2>1
<1>10. \A kind : kind # "EPISODE_START" => EntriesOf(l, kind) = {}
  <2> SUFFICES ASSUME NEW kind, kind # "EPISODE_START" PROVE EntriesOf(l, kind) = {}
    OBVIOUS
  <2>1. EntriesOf(l, kind) = EntriesOf(nil, kind)
    <3>1. nil \in Seq(ToSet(nil))
      BY <1>4
    <3> QED
      BY <3>1, EntriesCounted DEF l
  <2> QED
    BY <1>4, <2>1
<1> QED
  BY <1>2, <1>3, <1>5, <1>8, <1>9, <1>10

\* The first two entries establish the ledger part.
LEMMA StartLedger ==
  ASSUME NoneIsNoDigest, TypeOK, ControlInv, LedgerInv, NEW b \in ResetBatches, Start(b)
  PROVE  LedgerInv'
<1> USE DEF LedgerInv
<1> DEFINE l == NewLedger(AgentView(task), Sha256(task))
           p == [observations |-> b, observations_sha256 |-> Sha256(b)]
<1>1. /\ phase = "start" /\ phase' \in {"loop", "seal"}
      /\ UNCHANGED <<task, sink, generativeCalls, stepsTaken, candidate, done, cause,
                     receipt, updates, outcome>>
      /\ cause = None /\ ~done /\ receipt = None
      /\ observations' = b
      /\ ledger' = RecordObservationBatch(NewLedger(AgentView(task), Sha256(task)), b)
  BY StartEffect
<1>2. /\ ledger' = AppendEntry(l, "OBSERVATION_BATCH", p)
      /\ p.observations = b
      /\ Get(p, "observations") # None
      /\ Get(p, "observations_sha256") = Sha256(Get(p, "observations"))
  BY <1>1, BatchesAssumption DEF RecordObservationBatch, Get
<1>3. /\ l \in Seq(ToSet(l)) /\ Len(l) = 1 /\ DOMAIN l = 1 .. 1 /\ EntryShaped(l[1])
      /\ Scanned(l).accepted /\ Scanned(l).index = 1
      /\ Scanned(l).previous_hash = RootSha256(l)
      /\ Scanned(l).frontier = <<>> /\ Scanned(l).pending = None
      /\ Scanned(l).terminal_seen = FALSE
      /\ ObservedBefore(l, 2) = <<>>
      /\ \A kind : kind # "EPISODE_START" => EntriesOf(l, kind) = {}
  <2>1. Sha256(task) # None
    BY DEF NoneIsNoDigest
  <2> QED
    BY <2>1, LedgerOpened
<1> HIDE DEF l, p
<1> DEFINE e == NextEntry(l, "OBSERVATION_BATCH", p)
<1>4. e.kind = "OBSERVATION_BATCH" /\ e.payload = p /\ EntryShaped(e)
  BY DEF NextEntry, LedgerEntry, EntryShaped
<1> HIDE DEF e
<1>5. /\ ledger' \in Seq(ToSet(ledger')) /\ ledger' # <<>> /\ Len(ledger') = 2
      /\ DOMAIN ledger' = 1 .. 2
      /\ ledger'[1] = l[1] /\ ledger'[2] = e /\ Kind(ledger', 2) = "OBSERVATION_BATCH"
      /\ UnresolvedBefore(ledger', 2 + 1) = None
  <2>1. 1 + 1 = 2 /\ 1 \in 1 .. 1
    OBVIOUS
  <2> DEFINE t == AppendEntry(l, "OBSERVATION_BATCH", p)
             n == Len(l) + 1
  <2>2. /\ t \in Seq(ToSet(t)) /\ t # <<>> /\ Len(t) = n
        /\ DOMAIN t = 1 .. n
        /\ \A i \in 1 .. Len(l) : t[i] = l[i]
        /\ t[n] = e /\ Kind(t, n) = "OBSERVATION_BATCH"
        /\ UnresolvedBefore(t, n + 1) = None
    <3>0. l \in Seq(ToSet(l))
      BY <1>3
    <3>1. UnresolvedBefore(t, n + 1) =
            IF "OBSERVATION_BATCH" = "DECISION" THEN RootSha256(t) ELSE None
      BY <3>0, EntryAppended
    <3> QED
      BY <3>0, <3>1, EntryAppended DEF e
  <2>3. n = 2 /\ ledger' = t
    BY <1>2, <1>3
  <2> HIDE DEF t, n
  <2> QED
    BY <1>3, <2>1, <2>2, <2>3
<1>6. ~Sealed' /\ Unanswered' = None
  <2>1. ~Sealed'
    BY <1>5 DEF Sealed
  <2>2. Len(ledger') + 1 = 2 + 1
    BY <1>5
  <2> QED
    BY <1>5, <2>1, <2>2 DEF Unanswered
<1>7. \A kind \in {"DECISION", "ACTION_RESULT", "TERMINAL"} : Recorded(kind)' = {}
  BY <1>2, <1>3, EntriesCounted DEF Recorded
<1>8. OfCandidate' = {} /\ Finished' = {} /\ Recorded("DECISION")' = {}
      /\ Recorded("ACTION_RESULT")' = {} /\ Recorded("TERMINAL")' = {}
  BY <1>7 DEF OfCandidate, Finished
<1>9. ShapeInv'
  <2>1. \A i \in DOMAIN ledger' : EntryShaped(ledger'[i])
    <3>1. 1 .. 2 = {1, 2}
      OBVIOUS
    <3> QED
      BY <1>3, <1>4, <1>5, <3>1
  <2>2. b \in Seq(ToSet(b)) /\ \A i \in DOMAIN b : b[i].cost \in Int \cup {NaN}
    BY BatchesAssumption
  <2> QED
    BY <1>1, <1>5, <2>1, <2>2 DEF ShapeInv
<1>10. <<>> \o b = b
  <2>1. b \in Seq(ToSet(b))
    BY BatchesAssumption
  <2> QED
    BY <2>1
<1>11. ScanInv'
  <2>1. KindAccepted(Scanned(l), e)
    BY <1>2, <1>3, <1>4 DEF KindAccepted, DigestBound
  <2>2. Scanned(ledger') = ScannedNext(l, "OBSERVATION_BATCH", p)
    BY <1>2, <1>3, <2>1, EntryScanned DEF e
  <2>3. Scanned(ledger') =
          [accepted |-> TRUE, index |-> Len(ledger'), previous_hash |-> RootSha256(ledger'),
           frontier |-> <<>> \o b,
           pending |-> UnresolvedBefore(ledger', Len(ledger') + 1),
           terminal_seen |-> FALSE]
    BY <1>2, <1>3, <2>2 DEF ScannedNext
  <2>4. Sealed' = FALSE
    BY <1>6 DEF Sealed
  <2> QED
    BY <1>1, <1>10, <2>3, <2>4 DEF ScanInv, Unanswered
<1>12. FrontierInv'
  <2>1. ObservedBefore(ledger', Len(l) + 2) = ObservedBefore(l, Len(l) + 1) \o p.observations
    BY <1>2, <1>3, ObservedNext
  <2>2. Len(l) + 2 = Len(ledger') + 1 /\ Len(l) + 1 = 2
    BY <1>3, <1>5
  <2> QED
    BY <1>1, <1>2, <1>3, <1>10, <2>1, <2>2 DEF FrontierInv
<1>13. CountInv' /\ CandidateInv'
  <2>1. stepsTaken = 0 /\ Cardinality({}) = 0
    <3>1. Recorded("DECISION") = {} /\ Recorded("ACTION_RESULT") = {} /\ ledger = <<>>
      BY <1>1, EmptyLedger DEF SealInv, Recorded
    <3>2. Cardinality({}) = 0
      BY FS_EmptySet
    <3> QED
      BY <3>1, <3>2 DEF CountInv
  <2>2. CountInv'
    <3>1. /\ Cardinality(Recorded("DECISION")') = 0
          /\ Cardinality(Recorded("ACTION_RESULT")') = 0
          /\ stepsTaken' = 0
      BY <1>1, <1>8, <2>1
    <3> QED
      BY <1>6, <3>1 DEF CountInv
  <2>3. CandidateInv'
    BY <1>1, <1>8, <2>1 DEF CandidateInv, TypeOK
  <2> QED
    BY <2>2, <2>3
<1>14. SealInv' /\ PendingInv'
  BY <1>1, <1>5, <1>6, <1>8 DEF SealInv, PendingInv
<1>15. CostInv' /\ DoneInv' /\ JudgedInv' /\ ReturnInv'
  BY <1>1, <1>8 DEF CostInv, DoneInv, JudgedInv, ReturnInv
<1> QED
  BY <1>9, <1>11, <1>12, <1>13, <1>14, <1>15

-----------------------------------------------------------------------------
\* All that run knows at each phase, of its control and of its ledger.
LEMMA LedgerInvariance ==
  ASSUME NoneIsNoDigest
  PROVE  Spec => [](EpisodeInv /\ LedgerInv)
<1>1. Init => TypeOK /\ ControlInv /\ LedgerInv
  BY TypeInit, ControlInit, LedgerInit
<1>2. ASSUME TypeOK, ControlInv, LedgerInv, [Next]_vars
      PROVE  TypeOK' /\ ControlInv' /\ LedgerInv'
  <2>1. TypeOK' /\ ControlInv'
    BY <1>2, TypeStep, ControlStep
  <2>2. LedgerInv'
    BY <1>2, NextCases, QuietLedger, StartLedger, DecidesLedger, HostStepLedger, SealsLedger, Zenon
  <2> QED
    BY <2>1, <2>2
<1>3. TypeOK /\ ControlInv /\ LedgerInv => EpisodeInv /\ LedgerInv
  BY DEF ControlInv, EpisodeInv
<1> QED
  BY <1>1, <1>2, <1>3, PTL DEF Spec

\* A ledger with a terminal entry is sealed.
LEMMA TerminalSeals ==
  ASSUME ShapeInv, SealInv, Recorded("TERMINAL") # {}
  PROVE  Sealed
<1>1. /\ Recorded("TERMINAL") \subseteq {Len(ledger)}
      /\ Recorded("TERMINAL") \subseteq 1 .. Len(ledger)
  BY RecordedFinite DEF SealInv
<1>2. \A i \in Recorded("TERMINAL") : Kind(ledger, i) = "TERMINAL"
  BY DEF Recorded, EntriesOf
<1>3. Len(ledger) \in 1 .. Len(ledger) /\ Kind(ledger, Len(ledger)) = "TERMINAL"
  BY <1>1, <1>2
<1>4. ledger # <<>>
  <2>1. Len(<<>>) = 0
    OBVIOUS
  <2> QED
    BY <1>3, <2>1
<1> QED
  BY <1>3, <1>4 DEF Sealed

(* An honest episode is never refused for its trajectory: whatever the     *)
(* policy, the host and the generator did, the ledger that run has sealed  *)
(* is one its own verifier accepts.                                        *)
THEOREM HonestLedgersAccepted ==
  ASSUME NoneIsNoDigest
  PROVE  Spec => []HonestLedgerAccepted
<1>1. ASSUME EpisodeInv, LedgerInv PROVE HonestLedgerAccepted
  <2> USE <1>1 DEF LedgerInv
  <2> SUFFICES ASSUME Recorded("TERMINAL") # {}
               PROVE  /\ VerifyLedgerDocument(ToDocument(ledger))
                      /\ receipt # None => receipt.trajectory_valid
    BY DEF HonestLedgerAccepted
  <2>1. Sealed
    BY TerminalSeals
  <2>2. /\ Scanned(ledger).accepted /\ Scanned(ledger).terminal_seen
        /\ Scanned(ledger).previous_hash = RootSha256(ledger)
    BY <2>1 DEF ScanInv
  <2>3. VerifyLedgerDocument(ToDocument(ledger))
    BY <2>1, <2>2, SealAccepted DEF Sealed
  <2> QED
    BY <2>3 DEF JudgedInv
<1> QED
  BY <1>1, LedgerInvariance, PTL

(* Budgets bound what an episode has done, as its ledger records it: no    *)
(* action was executed once the observations before it cost more than the  *)
(* task allows, and decisions and candidates are never more than allowed.  *)
THEOREM WorkWithinBudget ==
  ASSUME NoneIsNoDigest
  PROVE  Spec => []WorkStaysInBudget
<1>1. ASSUME EpisodeInv, LedgerInv PROVE WorkStaysInBudget
  <2> USE <1>1 DEF LedgerInv, EpisodeInv
  <2>1. \A i \in Recorded("ACTION_RESULT") : ~OverBudget(task, ObservedBefore(ledger, i))
    BY DEF CostInv
  <2>2. Cardinality(Recorded("DECISION")) <= task.max_steps
    BY DEF CountInv, WithinBudgets
  <2>3. Cardinality(OfCandidate) <= generativeCalls
    <3>1. Cardinality(OfCandidate) \in Nat
      BY RecordedFinite DEF OfCandidate
    <3> QED
      BY <3>1 DEF CandidateInv, TypeOK
  <2> QED
    BY <2>1, <2>2, <2>3 DEF WorkStaysInBudget, WithinBudgets
<1> QED
  BY <1>1, LedgerInvariance, PTL

-----------------------------------------------------------------------------
Cost == INSTANCE FoldFacts WITH Op <- AddCost, Base <- 0

\* The tool cost as a fold.
LEMMA CostIsFold == \A s : ToolCost(s) = Cost!Fold(s)
BY DEF ToolCost, Cost!Fold, FoldLeft, Cost!FoldLeft, MapThenFoldSet, Cost!MapThenFoldSet,
       Max, Cost!Max

\* The cost of observations with finite costs is finite.
LEMMA CostIsFinite ==
  ASSUME NEW S, NEW s \in Seq(S), \A i \in 1 .. Len(s) : s[i].cost \in Int
  PROVE  ToolCost(s) \in Int
<1> DEFINE Upto(k) == ToolCost(SubSeq(s, 1, k))
           Wrong == {k \in 0 .. Len(s) : Upto(k) \notin Int}
<1>1. SUFFICES ASSUME Wrong # {} PROVE FALSE
  <2>1. Len(s) \in 0 .. Len(s) /\ SubSeq(s, 1, Len(s)) = s
    <3>1. Len(s) \in 0 .. Len(s)
      OBVIOUS
    <3> QED
      BY <3>1, Scan!Prefix
  <2>2. Upto(Len(s)) = ToolCost(s)
    BY <2>1
  <2> QED
    BY <2>1, <2>2
<1>2. PICK k \in Wrong : \A j \in Wrong : k <= j
  <2>1. Wrong \subseteq Nat
    OBVIOUS
  <2> HIDE DEF Wrong
  <2> QED
    BY <1>1, <2>1, Cost!LeastNatural
<1>3. k \in 0 .. Len(s) /\ Upto(k) \notin Int
  BY <1>2
<1>4. k # 0
  <2>1. 0 \in 0 .. Len(s)
    OBVIOUS
  <2>2. SubSeq(s, 1, 0) = <<>>
    BY <2>1, Scan!Prefix
  <2>3. Upto(0) = 0
    BY <2>2, CostIsFold, Cost!FoldEmpty
  <2> QED
    BY <1>3, <2>3
<1>5. k - 1 \in 0 .. Len(s) /\ k > 0 /\ k \in 1 .. Len(s) /\ s[k] \in S
  BY <1>3, <1>4
<1>6. Upto(k - 1) \in Int
  <2>1. k - 1 \notin Wrong
    <3> HIDE DEF Wrong
    <3>1. ~(k <= k - 1)
      BY <1>5
    <3> QED
      BY <1>2, <3>1
  <2> QED
    BY <1>5, <2>1
<1>7. Upto(k) = AddCost(Upto(k - 1), s[k])
  <2>1. /\ SubSeq(s, 1, k) = Append(SubSeq(s, 1, k - 1), s[k])
        /\ SubSeq(s, 1, k - 1) \in Seq(S)
    BY <1>3, <1>5, Scan!Prefix
  <2> QED
    BY <1>5, <2>1, CostIsFold, Cost!FoldAppend
<1>8. AddCost(Upto(k - 1), s[k]) \in Int
  <2> HIDE DEF Upto
  <2>1. s[k].cost \in Int
    BY <1>5
  <2> QED
    BY <1>6, <2>1, NaNAssumption DEF AddCost
<1> QED
  BY <1>3, <1>7, <1>8

(* Admitted evidence is sound over the whole episode: its ledger is the    *)
(* record of one, the environment ended it with its last result, every     *)
(* decision was answered, the provenance of every observation holds, every *)
(* cost is finite and their sum is within the task's budget.               *)
THEOREM AdmissionSound ==
  ASSUME NoneIsNoDigest
  PROVE  Spec => []AdmissionIsSound
<1>1. ASSUME EpisodeInv, LedgerInv PROVE AdmissionIsSound
  <2> USE <1>1 DEF LedgerInv, EpisodeInv
  <2> SUFFICES ASSUME receipt # None, receipt.admitted
               PROVE  /\ EpisodeRecord(ToDocument(ledger))
                      /\ Cardinality(Recorded("DECISION")) = Cardinality(Recorded("ACTION_RESULT"))
                      /\ Finished = {Len(ledger) - 1}
                      /\ ProvenanceValid(observations)
                      /\ task.max_tool_cost # None =>
                            /\ ToolCost(observations) # NaN
                            /\ ToolCost(observations) <= task.max_tool_cost
    BY DEF AdmissionIsSound
  <2>1. /\ Sealed /\ done /\ cause = None
        /\ terminalReason = "ENVIRONMENT_DONE"
        /\ ProvenanceValid(observations)
    BY DEF SealInv, ReceiptInv, AsksVerdict, PendingInv, JudgedInv
  <2>2. EpisodeRecord(ToDocument(ledger))
    <3>1. /\ Scanned(ledger).accepted /\ Scanned(ledger).terminal_seen
          /\ Scanned(ledger).previous_hash = RootSha256(ledger)
      BY <2>1 DEF ScanInv
    <3>2. VerifyLedgerDocument(ToDocument(ledger))
      BY <2>1, <3>1, SealAccepted DEF Sealed
    <3>3. /\ ToDocument(ledger).entries \in Seq(ToSet(ledger))
          /\ \A i \in DOMAIN ToDocument(ledger).entries : EntryShaped(ToDocument(ledger).entries[i])
      <4>1. ToDocument(ledger).entries = ledger
        BY DEF ToDocument
      <4> QED
        BY <4>1 DEF ShapeInv
    <3> DEFINE d == ToDocument(ledger)
    <3> HIDE DEF d
    <3> QED
      BY <3>2, <3>3, VerifierDecides DEF d
  <2>3. Cardinality(Recorded("DECISION")) = Cardinality(Recorded("ACTION_RESULT"))
    <3>1. Cardinality(Recorded("ACTION_RESULT")) \in Nat
      BY RecordedFinite
    <3> QED
      BY <2>1, <3>1 DEF CountInv
  <2>4. Finished = {Len(ledger) - 1}
    BY <2>1 DEF DoneInv
  <2>5. ASSUME task.max_tool_cost # None
        PROVE  ToolCost(observations) # NaN /\ ToolCost(observations) <= task.max_tool_cost
    <3>1. ToolCost(observations) \in Int
      <4>1. /\ observations \in Seq(ToSet(observations))
            /\ DOMAIN observations = 1 .. Len(observations)
        BY DEF ShapeInv
      <4>2. \A i \in 1 .. Len(observations) : observations[i].cost \in Int
        BY <2>1, <4>1 DEF ShapeInv, ProvenanceValid, ValidCost
      <4> QED
        BY <4>1, <4>2, CostIsFinite
    <3>2. ~OverBudget(task, observations)
      BY <2>1, NoneAssumption DEF CostOverrunWins, TerminalReasons
    <3>3. task.max_tool_cost \in Int
      BY <2>5, TasksAssumption DEF TypeOK
    <3> QED
      BY <2>5, <3>1, <3>2, <3>3, NaNAssumption DEF OverBudget
  <2> QED
    BY <2>1, <2>2, <2>3, <2>4, <2>5
<1> QED
  BY <1>1, LedgerInvariance, PTL

\* A ledger with one more entry extends the ledger.
LEMMA LedgerExtends ==
  ASSUME ShapeInv, NEW k, NEW p, ledger' = AppendEntry(ledger, k, p)
  PROVE  /\ Promise!Extends(ledger', ledger)
         /\ ledger' # <<>> /\ Kind(ledger', Len(ledger')) = k
<1>1. ledger \in Seq(ToSet(ledger)) /\ Len(ledger) \in Nat
  BY DEF ShapeInv
<1>2. Len(ledger') = Len(ledger) + 1 /\ ledger' # <<>> /\ Kind(ledger', Len(ledger')) = k
  BY <1>1, EntryAppended
<1>3. SubSeq(ledger', 1, Len(ledger)) = SubSeq(ledger, 1, Len(ledger))
  <2>1. Len(ledger) \in 0 .. Len(ledger)
    BY <1>1
  <2> QED
    BY <1>1, <2>1, PrefixKept DEF AppendEntry
<1>4. SubSeq(ledger, 1, Len(ledger)) = ledger
  <2>1. Len(ledger) \in 0 .. Len(ledger)
    BY <1>1
  <2> QED
    BY <1>1, <2>1, Scan!Prefix
<1> QED
  BY <1>1, <1>2, <1>3, <1>4 DEF Promise!Extends

\* The log of the promise is sealed with the ledger.
LEMMA PromiseSealed == Promise!Sealed <=> Sealed
BY DEF Promise!Sealed, Sealed, Kind

\* An episode starts as its promise does.
LEMMA PromiseInit == Init => Promise!Init
<1> SUFFICES ASSUME Init PROVE Promise!Init
  OBVIOUS
<1>1. Verdict = "none"
  BY DEF Init, Verdict
<1>2. Eligible \in BOOLEAN
  BY DEF Init, Eligible
<1> QED
  BY <1>1, <1>2 DEF Init, Promise!Init

\* Steps that write no entry and judge nothing.
LEMMA PromiseQuiet ==
  ASSUME EpisodeInv, LedgerInv, Quiet
  PROVE  [Promise!Next]_(Promise!vars)
<1> USE DEF inputs, progress, verdicts, effects
<1>1. phase # "end" => outcome = "running"
  BY DEF EpisodeInv, ExitInv
<1>2. CASE StartRaises
  <2>1. /\ outcome = "running" /\ outcome' = "raised"
        /\ UNCHANGED <<task, sink, ledger, receipt, updates>>
    BY <1>1, <1>2 DEF StartRaises
  <2>2. UNCHANGED <<Eligible, Verdict>>
    BY <2>1 DEF Eligible, Verdict
  <2> QED
    BY <2>1, <2>2 DEF Promise!Next, Promise!Raise
<1>3. CASE \/ SurfaceMismatch \/ StepBudgetExhausted \/ PolicyRaises \/ HostRejects
           \/ HostStepRaises \/ VerdictRaises \/ UNCHANGED vars
  <2>1. UNCHANGED <<task, sink, ledger, receipt, updates, outcome>>
    BY <1>3 DEF SurfaceMismatch, StepBudgetExhausted, PolicyRaises, HostRejects, HostStepRaises,
                VerdictRaises, vars
  <2>2. UNCHANGED <<Eligible, Verdict>>
    BY <2>1 DEF Eligible, Verdict
  <2> QED
    BY <2>1, <2>2 DEF Promise!vars
<1>4. CASE Learn \/ SinkRaises
  <2>1. /\ outcome = "running" /\ updates = 0 /\ receipt # None
        /\ UNCHANGED <<task, sink, ledger, receipt, outcome>>
        /\ updates' = 0 \/ (Creditable /\ updates' = 1)
    BY <1>1, <1>4 DEF Learn, SinkRaises, EpisodeInv, CreditInv, ReceiptInv
  <2>2. UNCHANGED <<Eligible, Verdict>>
    BY <2>1 DEF Eligible, Verdict
  <2>3. Creditable => Eligible /\ Verdict = "admitted"
    BY <2>1 DEF Creditable, Eligible, Verdict
  <2> QED
    BY <2>1, <2>2, <2>3 DEF Promise!Next, Promise!Credit, Promise!vars
<1>5. CASE Close \/ CloseRaises
  <2>1. /\ outcome = "running" /\ outcome' \in {"returned", "raised"}
        /\ outcome' = "returned" => phase = "close" /\ failure = None
        /\ UNCHANGED <<task, sink, ledger, receipt, updates>>
    BY <1>1, <1>5 DEF Close, CloseRaises
  <2>2. UNCHANGED <<Eligible, Verdict>>
    BY <2>1 DEF Eligible, Verdict
  <2>3. outcome' = "returned" =>
          Verdict # "none" /\ updates = IF Eligible /\ Verdict = "admitted" THEN 1 ELSE 0
    BY <2>1 DEF LedgerInv, ReturnInv, Creditable, Eligible, Verdict
  <2> QED
    BY <2>1, <2>2, <2>3 DEF Promise!Next, Promise!Return, Promise!Raise
<1> QED
  BY <1>2, <1>3, <1>4, <1>5 DEF Quiet

\* Steps that record one or two entries.
LEMMA PromiseRecord ==
  ASSUME NoneIsNoDigest, EpisodeInv, LedgerInv,
         \/ \E b \in ResetBatches : Start(b)
         \/ \E d \in Decisions : Decides(d)
         \/ \E b \in StepBatches, isDone \in BOOLEAN : HostStep(b, isDone)
  PROVE  Promise!Record
<1> USE DEF LedgerInv
<1>0. TypeOK /\ ControlInv
  BY DEF EpisodeInv, ControlInv
<1>1. phase \in {"start", "loop", "step"} =>
        outcome = "running" /\ ~Promise!Sealed /\ Verdict = "none"
  BY PromiseSealed DEF EpisodeInv, ExitInv, SealInv, ReceiptInv, Verdict
<1>2. ASSUME NEW b \in ResetBatches, Start(b) PROVE Promise!Record
  <2>1. /\ phase = "start" /\ ledger = <<>>
        /\ UNCHANGED <<task, sink, receipt, updates, outcome>>
        /\ ledger' = RecordObservationBatch(NewLedger(AgentView(task), Sha256(task)), b)
    BY <1>0, <1>2, StartEffect DEF SealInv
  <2>2. Promise!Extends(ledger', ledger)
    <3> DEFINE l == NewLedger(AgentView(task), Sha256(task))
    <3>1. l \in Seq(ToSet(l)) /\ Len(l) \in Nat
      <4>1. Sha256(task) # None
        BY DEF NoneIsNoDigest
      <4>2. l \in Seq(ToSet(l)) /\ Len(l) = 1
        BY <4>1, LedgerOpened
      <4> QED
        BY <4>2
    <3>2. ledger' = AppendEntry(l, "OBSERVATION_BATCH",
                              [observations |-> b, observations_sha256 |-> Sha256(b)])
      BY <2>1 DEF RecordObservationBatch
    <3> HIDE DEF l
    <3>3. Len(ledger') \in Nat \ {0} /\ ledger' \in Seq(ToSet(ledger'))
      BY <3>1, <3>2, EntryAppended
    <3>4. SubSeq(ledger', 1, 0) = <<>>
      <4>1. 0 \in 0 .. Len(ledger')
        BY <3>3
      <4> QED
        BY <3>3, <4>1, Scan!Prefix
    <3>5. Len(<<>>) = 0
      OBVIOUS
    <3> QED
      BY <2>1, <3>3, <3>4, <3>5 DEF Promise!Extends
  <2>3. UNCHANGED <<Eligible, Verdict>>
    BY <2>1 DEF Eligible, Verdict
  <2> QED
    BY <1>1, <2>1, <2>2, <2>3 DEF Promise!Record
<1>3. ASSUME NEW d \in Decisions, Decides(d) PROVE Promise!Record
  <2>1. /\ phase = "loop"
        /\ UNCHANGED <<task, sink, receipt, updates, outcome>>
        /\ ledger' = RecordDecision(ledger, d, observations)
    BY <1>0, <1>3, DecidesEffect
  <2>2. Promise!Extends(ledger', ledger)
    BY <2>1, LedgerExtends DEF RecordDecision
  <2>3. UNCHANGED <<Eligible, Verdict>>
    BY <2>1 DEF Eligible, Verdict
  <2> QED
    BY <1>1, <2>1, <2>2, <2>3 DEF Promise!Record
<1>4. ASSUME NEW b \in StepBatches, NEW isDone \in BOOLEAN, HostStep(b, isDone) PROVE Promise!Record
  <2>1. /\ phase = "step"
        /\ UNCHANGED <<task, sink, receipt, updates, outcome>>
        /\ ledger' = RecordActionResult(ledger, RootSha256(ledger), action, b, isDone, candidate)
    BY <1>0, <1>4, HostStepEffect
  <2>2. Promise!Extends(ledger', ledger)
    BY <2>1, LedgerExtends DEF RecordActionResult
  <2>3. UNCHANGED <<Eligible, Verdict>>
    BY <2>1 DEF Eligible, Verdict
  <2> QED
    BY <1>1, <2>1, <2>2, <2>3 DEF Promise!Record
<1> QED
  BY <1>2, <1>3, <1>4

\* The step that seals the ledger, and judges it unless the verifier raises.
LEMMA PromiseSeal ==
  ASSUME EpisodeInv, LedgerInv, NEW v \in BOOLEAN, Seals(v)
  PROVE  Promise!Record \/ Promise!Judge
<1> USE DEF LedgerInv
<1>0. TypeOK /\ ControlInv
  BY DEF EpisodeInv, ControlInv
<1>1. /\ phase = "seal"
      /\ UNCHANGED <<task, sink, updates, outcome>>
      /\ ledger' = SealedLedger(v)
  BY <1>0, SealsEffect
<1>2. outcome = "running" /\ ~Promise!Sealed /\ Verdict = "none"
  BY <1>1, PromiseSealed DEF EpisodeInv, ExitInv, SealInv, ReceiptInv, Verdict
<1>3. Promise!Extends(ledger', ledger) /\ ledger' # <<>> /\ Kind(ledger', Len(ledger')) = "TERMINAL"
  BY <1>1, LedgerExtends DEF SealedLedger, RecordTerminal
<1>4. Promise!Sealed'
  BY <1>3 DEF Promise!Sealed, Kind
<1>5. UNCHANGED Eligible
  BY <1>1 DEF Eligible
<1>6. CASE receipt' = None
  <2>1. Verdict' = "none"
    BY <1>6 DEF Verdict
  <2> QED
    BY <1>1, <1>2, <1>3, <1>5, <2>1 DEF Promise!Record
<1>7. CASE receipt' # None
  <2>1. Verdict' \in {"admitted", "rejected"}
    BY <1>7 DEF Verdict
  <2> QED
    BY <1>1, <1>2, <1>3, <1>4, <1>5, <2>1 DEF Promise!Judge
<1> QED
  BY <1>6, <1>7

(* run keeps the promise of EpisodePromise: its log only grows and is      *)
(* sealed once, it is judged once and only sealed, credited at most once   *)
(* and only admitted, and it returns only judged and, where due, credited. *)
THEOREM PromiseKept ==
  ASSUME NoneIsNoDigest
  PROVE  Spec => KeepsPromise
<1>1. EpisodeInv /\ LedgerInv /\ [Next]_vars => [Promise!Next]_(Promise!vars)
  <2> SUFFICES ASSUME EpisodeInv, LedgerInv, [Next]_vars
               PROVE  [Promise!Next]_(Promise!vars)
    OBVIOUS
  <2>1. CASE Quiet
    BY <2>1, PromiseQuiet
  <2>2. ASSUME NEW v \in BOOLEAN, Seals(v) PROVE Promise!Next
    BY <2>2, PromiseSeal DEF Promise!Next
  <2>3. CASE \/ \E b \in ResetBatches : Start(b)
             \/ \E d \in Decisions : Decides(d)
             \/ \E b \in StepBatches, isDone \in BOOLEAN : HostStep(b, isDone)
    BY <2>3, PromiseRecord DEF Promise!Next
  <2> QED
    BY <2>1, <2>2, <2>3, NextCases, Zenon
<1> QED
  BY <1>1, PromiseInit, LedgerInvariance, PTL DEF Spec, KeepsPromise, Promise!Spec
=============================================================================
