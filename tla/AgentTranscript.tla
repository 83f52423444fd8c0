---------------------------- MODULE AgentTranscript ----------------------------
(***************************************************************************)
(* gym/agent_transcript.py and gym/external_training.py: the hash chain    *)
(* the controller keeps of what an agent was shown and what it answered,   *)
(* its verification, alone and against the episode's ledger, and the       *)
(* receipt an external agent may train on.  Entries are made and chained   *)
(* like those of the trajectory ledger.                                    *)
(***************************************************************************)
EXTENDS LedgerLanguage

TranscriptFormat == "proof-gym-agent-boundary-transcript-v1"
ReceiptFormat == "proof-gym-external-training-receipt-v1"

-----------------------------------------------------------------------------
(* Recording *)

NewTranscript(view, session) ==
    AppendEntry(<<>>, "AGENT_START",
                [session_id |-> session, agent_task_view_sha256 |-> Sha256(view)])

RecordAgentDecision(entries, turn, observations, trajectory, decision) ==
    AppendEntry(entries, "AGENT_DECISION",
                [turn |-> turn, observation_frontier_sha256 |-> Sha256(observations),
                 trajectory_sha256 |-> Sha256(trajectory), decision |-> decision])

RecordAgentGeneration(entries, turn, observations, attempt, candidate) ==
    AppendEntry(entries, "AGENT_GENERATION",
                [turn |-> turn, observation_frontier_sha256 |-> Sha256(observations),
                 attempt |-> attempt, candidate_sha256 |-> Sha256(candidate)])

RecordClose(entries, session) ==
    AppendEntry(entries, "AGENT_CLOSE", [session_id |-> session, closed |-> TRUE])

ToTranscript(entries) ==
    [format |-> TranscriptFormat, root_sha256 |-> RootSha256(entries),
     entry_count |-> Len(entries), entries |-> entries]

-----------------------------------------------------------------------------
(* verify_agent_transcript_document *)

Before(entries, i) == SubSeq(entries, 1, i - 1)

Turns == {"AGENT_DECISION", "AGENT_GENERATION"}

\* What a transcript tells: its turns, and the payloads of its decisions and
\* of its generations.
NothingTold == [turns |-> <<>>, decisions |-> <<>>, generations |-> <<>>]

Tell(told, e) ==
    [turns |-> IF e.kind \in Turns THEN Append(told.turns, e) ELSE told.turns,
     decisions |-> IF e.kind = "AGENT_DECISION" THEN Append(told.decisions, e.payload)
                   ELSE told.decisions,
     generations |-> IF e.kind = "AGENT_GENERATION" THEN Append(told.generations, e.payload)
                     ELSE told.generations]

Told(entries) == FoldLeft(Tell, NothingTold, entries)

\* Turns and attempts count up from 1 over the whole transcript.
TurnDue(entries, i) == Len(Told(Before(entries, i)).turns) + 1

AttemptDue(entries, i) == Len(Told(Before(entries, i)).generations) + 1

\* A generation answers the decision right before it, on what that one saw.
FollowsCall(entries, i) ==
    LET asked == entries[i - 1] IN
    /\ asked.kind = "AGENT_DECISION"
    /\ asked.payload.decision.kind = "CALL_GENERATIVE"
    /\ entries[i].payload.observation_frontier_sha256
           = asked.payload.observation_frontier_sha256

EntryAccepted(entries, i) ==
    LET payload == entries[i].payload
        kind == entries[i].kind
    IN  \/ i = 1 /\ kind = "AGENT_START"
        \/ /\ i > 1 /\ kind = "AGENT_DECISION"
           /\ payload.turn = TurnDue(entries, i)
           /\ payload.decision.kind = "SELECT" <=> payload.decision.action # None
        \/ /\ i > 1 /\ kind = "AGENT_GENERATION"
           /\ payload.turn = TurnDue(entries, i)
           /\ payload.attempt = AttemptDue(entries, i)
           /\ FollowsCall(entries, i)
        \/ /\ i > 1 /\ kind = "AGENT_CLOSE"
           /\ i = Len(entries)
           /\ payload.closed
           /\ payload.session_id = entries[1].payload.session_id

VerifyTranscript(document) ==
    LET entries == document.entries IN
    /\ document.format = TranscriptFormat
    /\ Len(entries) >= 2
    /\ document.entry_count = Len(entries)
    /\ \A i \in DOMAIN entries :
        /\ entries[i] = LedgerEntry(i - 1, entries[i].kind, PreviousHash(entries, i),
                                    entries[i].payload)
        /\ EntryAccepted(entries, i)
    /\ entries[Len(entries)].kind = "AGENT_CLOSE"
    /\ document.root_sha256 = RootSha256(entries)

-----------------------------------------------------------------------------
(* verify_agent_transcript_against_episode.  An episode is its ledger, its *)
(* count of generative calls and its generated candidates.                 *)

\* What a ledger says of the agent: its decisions, each with the actions that
\* had results by then, and the candidates acted upon.
NothingDone == [actions |-> <<>>, decisions |-> <<>>, candidates |-> <<>>]

Do(done, e) ==
    LET result == e.kind = "ACTION_RESULT" IN
    [actions |-> IF result THEN Append(done.actions, e.payload.action) ELSE done.actions,
     decisions |-> IF e.kind = "DECISION"
                   THEN Append(done.decisions,
                               [payload |-> e.payload,
                                trajectory_sha256 |-> Sha256(done.actions)])
                   ELSE done.decisions,
     candidates |-> IF result /\ e.payload.candidate_sha256 # None
                    THEN Append(done.candidates, e.payload.candidate_sha256)
                    ELSE done.candidates]

Done(ledger) == FoldLeft(Do, NothingDone, ledger)

DecisionBound(said, done) ==
    /\ said.observation_frontier_sha256 = done.payload.observation_frontier_sha256
    /\ said.decision = done.payload.decision
    /\ said.trajectory_sha256 = done.trajectory_sha256

DecisionsBound(entries, ledger) ==
    LET said == Told(entries).decisions
        done == Done(ledger).decisions
    IN  /\ Len(said) = Len(done)
        /\ \A n \in DOMAIN said : DecisionBound(said[n], done[n])

\* Faulty: the candidates are counted, not compared.
CandidatesCounted(entries, episode) ==
    /\ Len(Told(entries).generations) = episode.generative_calls
    /\ Len(episode.generated_candidates) = episode.generative_calls

CandidatesBound(entries, episode) ==
    LET answers == Told(entries).generations
        hashes == [n \in DOMAIN episode.generated_candidates |->
                    Sha256(episode.generated_candidates[n])]
    IN  /\ Len(answers) = episode.generative_calls
        /\ Len(episode.generated_candidates) = episode.generative_calls
        /\ [n \in DOMAIN answers |-> answers[n].candidate_sha256] = hashes
        /\ Done(episode.ledger).candidates = hashes

VerifyAgainstEpisode(document, view, episode) ==
    /\ VerifyTranscript(document)
    /\ document.entries[1].payload.agent_task_view_sha256 = Sha256(view)
    /\ DecisionsBound(document.entries, episode.ledger)
    /\ CandidatesBound(document.entries, episode)

-----------------------------------------------------------------------------
(* gym/external_training.py *)

ProofValid(admission) ==
    admission.provenance_valid /\ admission.trajectory_valid /\ admission.integrity_valid

Positive(episode) == episode.admission.admitted

\* Faulty: an episode that ran out of its budget is a rejection, too.
TypedNegativeOverBudget(episode) ==
    ~episode.admission.semantic_valid /\ ProofValid(episode.admission)

TypedNegative(episode) ==
    /\ ~episode.admission.semantic_valid
    /\ ProofValid(episode.admission)
    /\ ~episode.budget_exhausted
    /\ episode.terminal_reason = "ENVIRONMENT_DONE"

ExperienceKind(episode) ==
    CASE Positive(episode)      -> "positive"
      [] TypedNegative(episode) -> "typed_negative"
      [] OTHER                  -> "none"

Digested(body) ==
    [f \in DOMAIN body \cup {"receipt_sha256"} |->
        IF f = "receipt_sha256" THEN Sha256(body) ELSE body[f]]

TrainingReceipt(split, entries, episode) ==
    Digested([format |-> ReceiptFormat, split |-> split,
              experience_kind |-> ExperienceKind(episode),
              learning_admissible |-> ExperienceKind(episode) # "none",
              accepted |-> episode.admission.admitted,
              terminal_reason |-> episode.terminal_reason,
              budget_exhausted |-> episode.budget_exhausted,
              admission |-> [d \in DOMAIN episode.admission \ {"admitted"} |->
                                episode.admission[d]],
              ledger_root_sha256 |-> RootSha256(episode.ledger),
              agent_transcript_root_sha256 |-> RootSha256(entries),
              agent_task_view_sha256 |-> entries[1].payload.agent_task_view_sha256,
              decision_trace |-> Told(entries).turns,
              gym_applied_learning |-> FALSE])

VerifyTrainingReceipt(r) ==
    LET proofs == ProofValid(r.admission) IN
    /\ r.format = ReceiptFormat
    /\ r.split = "train"
    /\ ~r.gym_applied_learning
    /\ r = Digested([f \in DOMAIN r \ {"receipt_sha256"} |-> r[f]])
    /\ \/ /\ r.experience_kind = "positive"
          /\ r.learning_admissible /\ r.accepted
          /\ r.admission.semantic_valid /\ proofs
       \/ /\ r.experience_kind = "typed_negative"
          /\ r.learning_admissible /\ ~r.accepted
          /\ ~r.admission.semantic_valid /\ proofs
          /\ ~r.budget_exhausted /\ r.terminal_reason = "ENVIRONMENT_DONE"
       \/ /\ r.experience_kind = "none"
          /\ ~r.learning_admissible
=============================================================================
