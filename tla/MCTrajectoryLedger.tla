-------------------------- MODULE MCTrajectoryLedger --------------------------
(***************************************************************************)
(* A corpus of stored ledgers: sequences of entries recorded through the   *)
(* TrajectoryLedger API in any order, with right and wrong bindings, and   *)
(* every single alteration of the stored copy.                             *)
(***************************************************************************)
EXTENDS LedgerLanguage

CONSTANTS Observations, \* observation payloads
          MaxEntries    \* longest ledger of the corpus

VARIABLES entries,      \* the ledger as recorded
          document      \* the stored document, altered at most once

vars == <<entries, document>>

Batches == {<<>>} \cup {<<o>> : o \in Observations}

Hashes == {None} \cup {entries[i].entry_hash : i \in {1, Len(entries)}}

Visible == {<<>>, ObservedBefore(entries, Len(entries) + 1)}

Init ==
    /\ entries = NewLedger("view", Sha256("task"))
    /\ document = ToDocument(entries)

\* Recording goes on only while what is recorded is the beginning of an
\* episode: an entry after the first fault adds nothing to the corpus.
Record(next) ==
    /\ document = ToDocument(entries)
    /\ Scanned(entries).accepted
    /\ Len(entries) < MaxEntries
    /\ entries' = next
    /\ document' = ToDocument(next)

RecordBatch == \E b \in Batches : Record(RecordObservationBatch(entries, b))

RecordChoice == \E v \in Visible : Record(RecordDecision(entries, "decision", v))

RecordResult ==
    \E h \in Hashes, b \in Batches :
        Record(RecordActionResult(entries, h, "action", b, FALSE, None))

RecordEnd ==
    \E h \in Hashes, v \in Visible :
        Record(RecordTerminal(entries, "reason", FALSE, TRUE, FALSE, v, h))

\* The stored copy no longer is what was recorded.
Store(copy) ==
    /\ document = ToDocument(entries)
    /\ copy # entries
    /\ document' = [document EXCEPT !.entries = copy, !.entry_count = Len(copy)]
    /\ UNCHANGED entries

Edited(payload) ==
    CASE "observations" \in DOMAIN payload ->
            {[payload EXCEPT !.observations = b] : b \in Batches}
      [] "decision" \in DOMAIN payload -> {[payload EXCEPT !.decision = "other"]}
      [] "semantic_valid" \in DOMAIN payload -> {[payload EXCEPT !.semantic_valid = TRUE]}
      [] OTHER -> {}

\* A payload edited alone, with its digest, or with its entry hash too.
AlterPayload ==
    \E i \in DOMAIN entries : \E p \in Edited(entries[i].payload) :
        LET raw == entries[i] IN
        \E new \in {[raw EXCEPT !.payload = p],
                    [raw EXCEPT !.payload = p, !.payload_sha256 = Sha256(p)],
                    LedgerEntry(raw.index, raw.kind, raw.previous_hash, p)} :
            Store(ReplaceAt(entries, i, new))

AlterKind ==
    \E i \in DOMAIN entries : \E k \in Kinds :
        Store(ReplaceAt(entries, i, [entries[i] EXCEPT !.kind = k]))

AlterLink ==
    \E i \in DOMAIN entries : \E h \in Hashes \ {None} :
        Store(ReplaceAt(entries, i, [entries[i] EXCEPT !.previous_hash = h]))

DropEntry == \E i \in DOMAIN entries : Store(RemoveAt(entries, i))

SwapEntries ==
    \E i \in 1 .. (Len(entries) - 1) :
        Store([entries EXCEPT ![i] = entries[i + 1], ![i + 1] = entries[i]])

DuplicateLast == Store(Append(entries, entries[Len(entries)]))

Next ==
    \/ RecordBatch \/ RecordChoice \/ RecordResult \/ RecordEnd
    \/ AlterPayload \/ AlterKind \/ AlterLink \/ DropEntry \/ SwapEntries \/ DuplicateLast

Spec == Init /\ [][Next]_vars

-----------------------------------------------------------------------------
(* The verifier's single pass accepts exactly the records of an episode:   *)
(* verify_ledger_document neither misses a misplaced, missing, duplicated  *)
(* or wrongly bound entry nor refuses a ledger that has none.              *)
VerifierDecidesEpisodeRecord == VerifyLedgerDocument(document) <=> EpisodeRecord(document)

(* A stored copy that differs from the recorded ledger but keeps its root  *)
(* digest is refused, whatever entry was altered, dropped, moved or added. *)
AlterationDetected ==
    /\ document.root_sha256 = RootSha256(entries)
    /\ document.entries # entries
    => ~VerifyLedgerDocument(document)
=============================================================================
