---------------------------- MODULE LedgerLanguage ----------------------------
(***************************************************************************)
(* What a verified ledger document promises, stated without the verifier's *)
(* loop: which sequences of entries are the record of an episode.          *)
(***************************************************************************)
EXTENDS TrajectoryLedger

Kind(entries, i) == entries[i].kind

EntriesOf(entries, kind) == {i \in DOMAIN entries : Kind(entries, i) = kind}

PreviousHash(entries, i) == IF i = 1 THEN ZERO_HASH ELSE entries[i - 1].entry_hash

\* Every entry sits at its index, digests its own payload and points at its
\* predecessor.
ChainValid(entries) ==
    \A i \in 1 .. Len(entries) :
        entries[i] = LedgerEntry(i - 1, Kind(entries, i), PreviousHash(entries, i),
                                 entries[i].payload)

\* EPISODE_START first and only first, TERMINAL last and only last; a
\* DECISION is followed by its result or by the terminal receipt, and only a
\* DECISION is followed by a result.
Grammatical(entries) ==
    /\ \A i \in DOMAIN entries : Kind(entries, i) \in Kinds
    /\ \A i \in DOMAIN entries :
        /\ (Kind(entries, i) = "EPISODE_START") = (i = 1)
        /\ (Kind(entries, i) = "TERMINAL") = (i = Len(entries))
        /\ Kind(entries, i) = "DECISION" =>
              Kind(entries, i + 1) \in {"ACTION_RESULT", "TERMINAL"}
        /\ Kind(entries, i) = "ACTION_RESULT" => Kind(entries, i - 1) = "DECISION"

\* What has been observed once an entry is added.
ObserveEntry(seen, entry) ==
    IF entry.kind \in {"OBSERVATION_BATCH", "ACTION_RESULT"}
    THEN seen \o entry.payload.observations
    ELSE seen

\* The observations made before entry i, in order.
ObservedBefore(entries, i) == FoldLeft(ObserveEntry, <<>>, SubSeq(entries, 1, i - 1))

\* The decision entry i answers: the entry before it, if that is a DECISION.
UnresolvedBefore(entries, i) ==
    IF i > 1 /\ Kind(entries, i - 1) = "DECISION" THEN entries[i - 1].entry_hash ELSE None

Carries(payload, fields) == \A f \in fields : Get(payload, f) # None

\* What an entry of a given kind carries and is bound to.
BoundAt(entries, i) ==
    LET payload == entries[i].payload
        kind    == Kind(entries, i)
    IN  /\ kind = "EPISODE_START" =>
             Carries(payload, {"agent_task_view_sha256", "host_task_commitment"})
        /\ kind = "DECISION" => Carries(payload, {"decision"})
        /\ kind \in {"OBSERVATION_BATCH", "ACTION_RESULT"} =>
             /\ Carries(payload, {"observations"})
             /\ Get(payload, "observations_sha256") = Sha256(payload.observations)
        /\ kind \in {"DECISION", "TERMINAL"} =>
             Get(payload, "observation_frontier_sha256") = Sha256(ObservedBefore(entries, i))
        /\ kind = "ACTION_RESULT" =>
             Get(payload, "decision_entry_hash") = UnresolvedBefore(entries, i)
        /\ kind = "TERMINAL" =>
             Get(payload, "caused_by_decision_entry_hash") = UnresolvedBefore(entries, i)

Bound(entries) == \A i \in DOMAIN entries : BoundAt(entries, i)

EpisodeRecord(document) ==
    /\ document.format = LEDGER_FORMAT
    /\ document.entries # <<>>
    /\ document.entry_count = Len(document.entries)
    /\ document.root_sha256 = RootSha256(document.entries)
    /\ ChainValid(document.entries)
    /\ Grammatical(document.entries)
    /\ Bound(document.entries)

\* An entry has the fields of a ledger entry and no others.
EntryShaped(raw) ==
    raw = [index |-> raw.index, kind |-> raw.kind, previous_hash |-> raw.previous_hash,
           payload_sha256 |-> raw.payload_sha256, payload |-> raw.payload,
           entry_hash |-> raw.entry_hash]

\* JSON's null is not the digest of anything.
NoneIsNoDigest == \A v : Sha256(v) # None
=============================================================================
