--------------------------- MODULE TrajectoryLedger ---------------------------
(***************************************************************************)
(* The trajectory ledger of gym/ledger.py: an append-only hash chain that  *)
(* binds observations, decisions, action results and the terminal receipt  *)
(* of one episode, and the verifier that replays a stored document.        *)
(*                                                                         *)
(* SHA-256 over canonical JSON is taken to be injective: Sha256(v) wraps v *)
(* and two digests are equal exactly when what they digest is.             *)
(***************************************************************************)
EXTENDS Naturals, SequencesExt

CONSTANT None            \* Python's None

LEDGER_FORMAT == "proof-gym-trajectory-ledger-v1"

Kinds == {"EPISODE_START", "OBSERVATION_BATCH", "DECISION", "ACTION_RESULT", "TERMINAL"}

Sha256(v) == <<"sha256", v>>

ZERO_HASH == <<"zero">>

\* payload.get(field)
Get(payload, field) == IF field \in DOMAIN payload THEN payload[field] ELSE None

EntryHash(index, kind, previous_hash, payload_sha256) ==
    Sha256([index |-> index, kind |-> kind, previous_hash |-> previous_hash,
            payload_sha256 |-> payload_sha256])

RootSha256(entries) == IF entries = <<>> THEN ZERO_HASH ELSE entries[Len(entries)].entry_hash

-----------------------------------------------------------------------------
(* Recording *)

LedgerEntry(index, kind, previous_hash, payload) ==
    [index |-> index, kind |-> kind, previous_hash |-> previous_hash,
     payload_sha256 |-> Sha256(payload), payload |-> payload,
     entry_hash |-> EntryHash(index, kind, previous_hash, Sha256(payload))]

AppendEntry(entries, kind, payload) ==
    Append(entries, LedgerEntry(Len(entries), kind, RootSha256(entries), payload))

NewLedger(agentTaskView, hostTaskCommitment) ==
    AppendEntry(<<>>, "EPISODE_START",
                [agent_task_view_sha256 |-> Sha256(agentTaskView),
                 host_task_commitment |-> hostTaskCommitment])

RecordObservationBatch(entries, batch) ==
    AppendEntry(entries, "OBSERVATION_BATCH",
                [observations |-> batch, observations_sha256 |-> Sha256(batch)])

RecordDecision(entries, decision, visible) ==
    AppendEntry(entries, "DECISION",
                [decision |-> decision, observation_frontier_sha256 |-> Sha256(visible)])

RecordActionResult(entries, decisionHash, action, batch, done, candidate) ==
    AppendEntry(entries, "ACTION_RESULT",
                [decision_entry_hash |-> decisionHash, action |-> action, done |-> done,
                 observations |-> batch, observations_sha256 |-> Sha256(batch),
                 candidate_sha256 |-> IF candidate = None THEN None ELSE Sha256(candidate)])

RecordTerminal(entries, reason, semantic, provenance, exhausted, observations, cause) ==
    AppendEntry(entries, "TERMINAL",
                [terminal_reason |-> reason, semantic_valid |-> semantic,
                 provenance_valid |-> provenance, budget_exhausted |-> exhausted,
                 observation_frontier_sha256 |-> Sha256(observations),
                 caused_by_decision_entry_hash |-> cause])

ToDocument(entries) ==
    [format |-> LEDGER_FORMAT, root_sha256 |-> RootSha256(entries),
     entry_count |-> Len(entries), entries |-> entries]

-----------------------------------------------------------------------------
(* Verification: one pass over the entries, carrying the loop's locals. *)

ScanStart ==
    [accepted |-> TRUE, index |-> 0, previous_hash |-> ZERO_HASH,
     frontier |-> <<>>, pending |-> None, terminal_seen |-> FALSE]

ExpectedHash(scan, raw) ==
    EntryHash(scan.index, raw.kind, scan.previous_hash, Sha256(raw.payload))

\* The index and the three hashes of one raw entry.
LinkAccepted(scan, raw) ==
    /\ raw.index = scan.index
    /\ raw.previous_hash = scan.previous_hash
    /\ raw.payload_sha256 = Sha256(raw.payload)
    /\ raw.entry_hash = ExpectedHash(scan, raw)

DigestBound(payload) ==
    /\ Get(payload, "observations") # None
    /\ Get(payload, "observations_sha256") = Sha256(Get(payload, "observations"))

\* Faulty: any frontier digest will do.
FrontierUnbound(scan, payload) == Get(payload, "observation_frontier_sha256") # None

FrontierBound(scan, payload) ==
    Get(payload, "observation_frontier_sha256") = Sha256(scan.frontier)

\* What one entry must satisfy given what came before it.
KindAccepted(scan, raw) ==
    /\ ~scan.terminal_seen
    /\ \/ /\ scan.index = 0
          /\ raw.kind = "EPISODE_START"
          /\ Get(raw.payload, "host_task_commitment") # None
          /\ Get(raw.payload, "agent_task_view_sha256") # None
       \/ /\ scan.index > 0
          /\ raw.kind = "OBSERVATION_BATCH"
          /\ scan.pending = None
          /\ DigestBound(raw.payload)
       \/ /\ scan.index > 0
          /\ raw.kind = "DECISION"
          /\ scan.pending = None
          /\ Get(raw.payload, "decision") # None
          /\ FrontierBound(scan, raw.payload)
       \/ /\ scan.index > 0
          /\ raw.kind = "ACTION_RESULT"
          /\ scan.pending # None
          /\ Get(raw.payload, "decision_entry_hash") = scan.pending
          /\ DigestBound(raw.payload)
       \/ /\ scan.index > 0
          /\ raw.kind = "TERMINAL"
          /\ FrontierBound(scan, raw.payload)
          /\ Get(raw.payload, "caused_by_decision_entry_hash") = scan.pending

ScanEntry(scan, raw) ==
    IF scan.accepted /\ LinkAccepted(scan, raw) /\ KindAccepted(scan, raw)
    THEN [accepted |-> TRUE,
          index |-> scan.index + 1,
          previous_hash |-> ExpectedHash(scan, raw),
          frontier |-> IF raw.kind \in {"OBSERVATION_BATCH", "ACTION_RESULT"}
                       THEN scan.frontier \o raw.payload.observations
                       ELSE scan.frontier,
          pending |-> IF raw.kind = "DECISION" THEN ExpectedHash(scan, raw) ELSE None,
          terminal_seen |-> raw.kind = "TERMINAL"]
    ELSE [scan EXCEPT !.accepted = FALSE]

Scanned(entries) == FoldLeft(ScanEntry, ScanStart, entries)

\* Faulty: the root digest is not compared.
VerifyUnrooted(document) ==
    /\ document.format = LEDGER_FORMAT
    /\ document.entries # <<>>
    /\ document.entry_count = Len(document.entries)
    /\ LET end == Scanned(document.entries)
       IN  end.accepted /\ end.terminal_seen

VerifyLedgerDocument(document) ==
    /\ document.format = LEDGER_FORMAT
    /\ document.entries # <<>>
    /\ document.entry_count = Len(document.entries)
    /\ LET end == Scanned(document.entries)
       IN  /\ end.accepted
           /\ end.terminal_seen
           /\ document.root_sha256 = end.previous_hash
=============================================================================
