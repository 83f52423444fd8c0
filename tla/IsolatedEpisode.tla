---------------------------- MODULE IsolatedEpisode ----------------------------
(***************************************************************************)
(* run_isolated_episode (gym/isolated_agent.py) and the attested run of    *)
(* gym/attested_external.py around it: ReferenceGym.run, which is Episode, *)
(* played by an agent behind an endpoint, with the transcript of what      *)
(* crossed the boundary.  The agent, the host, the attestor and the other  *)
(* holders of a receipt are choices.  Episodes follow one another on one   *)
(* endpoint and under one verifier.                                        *)
(***************************************************************************)
EXTENDS AgentTranscript, Attestation

CONSTANTS NaN, Blank,                    \* see Evidence
          Tasks, Decisions, ResetBatches, StepBatches, Candidates, MaxObservations,
                                         \* see Episode
          Peer, Context,                 \* the endpoint's address, the evaluation's context
          Key, OtherKey,                 \* the verifier's key, and one it does not hold
          Claims,                        \* what an attestor may claim of the endpoint
          MaxEpisodes, MaxFaults, MaxVerdicts \* bounds

\* What a run may raise.
Failures == {"endpoint", "attestation", "attestor", "agent", "gym", "transcript", "binding",
             "sink"}

ASSUME NoneIsNoFailure == None \notin Failures

\* What agent_wire.py lets through: a selection names an action, no other
\* decision does (_validate_decision), and a candidate is a text.
ASSUME WireAssumption ==
    /\ \A d \in Decisions : d.kind = "SELECT" <=> d.action # None
    /\ None \notin Candidates

VARIABLES
    \* of ReferenceGym.run: see Episode
    task, generator, sink, phase, session, observations, trajectory, action, candidate,
    generativeCalls, stepsTaken, done, budgetExhausted, terminalReason, cause, ledger,
    receipt, updates, failure, outcome,
    \* of the run around it
    mode,          \* "isolated" or "attested"
    stage,         \* see Stages
    learningSink,  \* is the run given a learning sink?
    raised,        \* what the run raises, None if nothing
    candidates,    \* the episode's generated_candidates
    \* of the agent's boundary
    endpoint,      \* the transport: "up" or "down"
    agent,         \* the session on it: "none", "open" or "closed"
    turn,          \* the last turn the agent answered
    transcript,    \* entries of the AgentBoundaryTranscript
    \* of the attestation
    request,       \* this run's request, None if there is none
    consumed,      \* the verifier's consumed challenges
    verdicts,      \* history: the challenge of every call of verify, if the receipt was
                   \* the attestor's own for the request, and what verify said
    issued,        \* history: the receipts of earlier runs
    \* of the sequence of runs
    number,        \* of this run
    lessons,       \* history: the runs the learning sink learned from
    faults         \* turns the agent misnumbered in this run

run == <<task, generator, sink, phase, session, observations, trajectory, action,
         candidate, generativeCalls, stepsTaken, done, budgetExhausted, terminalReason,
         cause, ledger, receipt, updates, failure, outcome>>
arguments == <<mode, learningSink, number>>
boundary == <<endpoint, agent, turn, transcript, candidates, faults>>
authority == <<request, consumed, verdicts, issued>>
vars == <<run, arguments, stage, raised, boundary, authority, lessons>>

Gym == INSTANCE Episode

\* See Episode.
ASSUME GymAssumption == None \notin Gym!Failures \cup Gym!Receipts

\* "attest": the request is made; "gym": inside gym.run and the finally clause
\* that closes the agent; "bind": the transcript is complete; "learn": bound.
Stages == {"request", "attest", "open", "gym", "bind", "learn", "over"}

View == Gym!AgentView(task)

EpisodeResult ==
    [ledger |-> ledger, generative_calls |-> generativeCalls,
     generated_candidates |-> candidates, admission |-> receipt,
     terminal_reason |-> terminalReason, budget_exhausted |-> budgetExhausted]

\* The sink run_isolated_episode gives the gym.
WithheldSink(given) == FALSE

NewRun(t) ==
    /\ task' = t
    /\ mode' = mode
    /\ learningSink' \in BOOLEAN
    /\ generator' = TRUE /\ sink' = WithheldSink(learningSink')
    /\ phase' = "start" /\ session' = "none" /\ outcome' = "running"
    /\ observations' = <<>> /\ trajectory' = <<>> /\ ledger' = <<>>
    /\ action' = None /\ candidate' = None /\ terminalReason' = None /\ cause' = None
    /\ receipt' = None /\ failure' = None
    /\ generativeCalls' = 0 /\ stepsTaken' = 0 /\ updates' = 0
    /\ done' = FALSE /\ budgetExhausted' = FALSE
    /\ stage' = IF mode' = "attested" THEN "request" ELSE "open"
    /\ raised' = None
    /\ candidates' = <<>> /\ transcript' = <<>>
    /\ agent' = "none" /\ turn' = 0 /\ request' = None /\ faults' = 0

Init ==
    /\ Gym!Init /\ generator
    /\ mode \in {"isolated", "attested"}
    /\ learningSink \in BOOLEAN
    /\ sink = WithheldSink(learningSink)
    /\ stage = IF mode = "attested" THEN "request" ELSE "open"
    /\ raised = None
    /\ candidates = <<>> /\ transcript = <<>>
    /\ endpoint = "up" /\ agent = "none" /\ turn = 0
    /\ request = None /\ consumed = {} /\ verdicts = <<>> /\ issued = {}
    /\ number = 1 /\ lessons = <<>> /\ faults = 0

Fail(origin) ==
    /\ stage' = "over"
    /\ raised' = origin

-----------------------------------------------------------------------------
(* run_attested_external_episode, up to the episode *)

Request ==
    /\ stage = "request"
    /\ endpoint = "up"
    /\ request' = AttestationRequest(number, Peer, View, task, Context)
    /\ stage' = "attest"
    /\ UNCHANGED <<run, arguments, raised, boundary, consumed, verdicts, issued, lessons>>

\* endpoint.connected_peer raises when the endpoint is not connected.
NotConnected ==
    /\ stage = "request"
    /\ endpoint = "down"
    /\ Fail("endpoint")
    /\ UNCHANGED <<run, arguments, boundary, authority, lessons>>

HonestReceipts == {Attest(Key, ReferenceIssuer, request, c) : c \in Claims}

\* What the verifier may be shown for the request: the attestor's receipt,
\* those of earlier runs, and receipts by another key, by another issuer, for
\* another context, with other claims than the signed ones, or out of shape.
Offers ==
    LET honest == HonestReceipts IN
    honest \cup issued
      \cup {Attest(OtherKey, ReferenceIssuer, request, c) : c \in Claims}
      \cup {Attest(Key, "another-attestor", request, c) : c \in Claims}
      \cup {Attest(Key, ReferenceIssuer, [request EXCEPT !.evaluation_context_sha256 = Peer], c)
                : c \in Claims}
      \cup {[r EXCEPT !.claims = c] : r \in honest, c \in Claims}
      \cup {[r EXCEPT !.evidence_sha256 = None] : r \in honest}

\* verifier.verify(request, r), whoever calls it.
Verify(r) ==
    /\ consumed' = ConsumedAfter(Key, consumed, request, r)
    /\ verdicts' = Append(verdicts, [challenge |-> request.challenge,
                                     own |-> r \in HonestReceipts,
                                     valid |-> Verifies(Key, consumed, request, r)])

Attested(r) ==
    /\ stage = "attest"
    /\ Verifies(Key, consumed, request, r)
    /\ Verify(r)
    /\ stage' = "open"
    /\ UNCHANGED <<run, arguments, raised, boundary, request, issued, lessons>>

NotAttested(r) ==
    /\ stage = "attest"
    /\ ~Verifies(Key, consumed, request, r)
    /\ Verify(r)
    /\ endpoint' = "down"
    /\ Fail("attestation")
    /\ UNCHANGED <<run, arguments, agent, turn, transcript, candidates, faults, request,
                   issued, lessons>>

AttestorRaises ==
    /\ stage = "attest"
    /\ endpoint' = "down"
    /\ Fail("attestor")
    /\ UNCHANGED <<run, arguments, agent, turn, transcript, candidates, faults, authority,
                   lessons>>

\* Another holder of the request shows the verifier a receipt, before the run
\* does or after the run is over.
Presented(r) ==
    /\ stage \in {"attest", "over"}
    /\ request # None
    /\ Len(verdicts) < MaxVerdicts
    /\ Verify(r)
    /\ UNCHANGED <<run, arguments, stage, raised, boundary, request, issued, lessons>>

-----------------------------------------------------------------------------
(* The adapter between the gym and the endpoint *)

OpenAgent ==
    /\ stage = "open"
    /\ endpoint = "up"
    /\ agent' = "open"
    /\ transcript' = NewTranscript(View, number)
    /\ stage' = "gym"
    /\ UNCHANGED <<run, arguments, raised, endpoint, turn, candidates, faults, authority,
                   lessons>>

\* endpoint.start raises, or answers for another task view and is closed.
OpenAgentRaises ==
    /\ stage = "open"
    /\ endpoint' \in {endpoint, "down"}
    /\ agent' \in IF endpoint = "up" THEN {"none", "closed"} ELSE {"none"}
    /\ Fail("agent")
    /\ UNCHANGED <<run, arguments, turn, transcript, candidates, faults, authority, lessons>>

InGym == stage = "gym" /\ outcome = "running"

\* Steps of ReferenceGym.run that do not reach the agent.
GymSteps ==
    /\ InGym
    /\ \/ \E b \in ResetBatches : Gym!Start(b)
       \/ Gym!StartRaises
       \/ Gym!SurfaceMismatch
       \/ Gym!StepBudgetExhausted
       \/ \E b \in StepBatches, isDone \in BOOLEAN : Gym!HostStep(b, isDone)
       \/ Gym!HostRejects
       \/ Gym!HostStepRaises
       \/ Gym!VerdictRaises
       \/ \E verdict \in BOOLEAN : Gym!VerifierRaises(verdict)
       \/ \E verdict, passed \in BOOLEAN : Gym!Admit(verdict, passed)
       \/ Gym!Learn
       \/ Gym!Close
       \/ Gym!CloseRaises
    /\ UNCHANGED <<arguments, stage, raised, boundary, authority, lessons>>

\* The turn of an answer: the next one, or, the endpoint being at fault, the
\* last one again.
Answers(t) ==
    /\ endpoint = "up"
    /\ \/ t = turn + 1 /\ UNCHANGED faults
       \/ t = turn /\ faults < MaxFaults /\ faults' = faults + 1

AgentDecides(d, t) ==
    /\ InGym
    /\ Answers(t)
    /\ Gym!DecideAction(d) \/ Gym!SelectionInvalid(d) \/ Gym!GenerationRefused(d)
    /\ transcript' = RecordAgentDecision(transcript, t, observations, trajectory, d)
    /\ turn' = t
    /\ UNCHANGED <<arguments, stage, raised, endpoint, agent, candidates, authority, lessons>>

AgentGenerates(d, c, t) ==
    /\ InGym
    /\ Answers(t)
    /\ Gym!Generate(d, c)
    /\ transcript' = RecordAgentGeneration(
                         RecordAgentDecision(transcript, t, observations, trajectory, d),
                         t + 1, observations, generativeCalls', c)
    /\ turn' = t + 1
    /\ candidates' = Append(candidates, c)
    /\ UNCHANGED <<arguments, stage, raised, endpoint, agent, authority, lessons>>

\* endpoint.decide or endpoint.generate raises, and may leave it unusable.
AgentDecideRaises ==
    /\ InGym
    /\ Gym!PolicyRaises
    /\ endpoint' \in {endpoint, "down"}
    /\ UNCHANGED <<arguments, stage, raised, agent, turn, transcript, candidates, faults,
                   authority, lessons>>

AgentGenerateRaises(d, t) ==
    /\ InGym
    /\ Answers(t)
    /\ Gym!GeneratorRaises(d)
    /\ transcript' = RecordAgentDecision(transcript, t, observations, trajectory, d)
    /\ turn' = t
    /\ endpoint' \in {endpoint, "down"}
    /\ UNCHANGED <<arguments, stage, raised, agent, candidates, authority, lessons>>

-----------------------------------------------------------------------------
(* Closing, binding and learning *)

CloseAgent ==
    /\ stage = "gym" /\ outcome # "running"
    /\ transcript' = RecordClose(transcript, number)
    /\ agent' = "closed"
    /\ IF outcome = "raised" THEN Fail("gym") ELSE stage' = "bind" /\ UNCHANGED raised
    /\ UNCHANGED <<run, arguments, endpoint, turn, candidates, faults, authority, lessons>>

\* Faulty: the failure of close replaces the gym's.
CloseFailureOf(o) == "agent"

\* endpoint.close raises: the gym's own failure, if there is one, wins.
CloseFailure(o) == IF o = "raised" THEN "gym" ELSE "agent"

CloseAgentRaises ==
    /\ stage = "gym" /\ outcome # "running"
    /\ endpoint' = "down"
    /\ Fail(CloseFailure(outcome))
    /\ UNCHANGED <<run, arguments, agent, turn, transcript, candidates, faults, authority,
                   lessons>>

TranscriptBound == VerifyAgainstEpisode(ToTranscript(transcript), View, EpisodeResult)

\* _verify_episode_binding
EpisodeRequested ==
    /\ ledger[1].payload.host_task_commitment = request.host_task_commitment
    /\ ledger[1].payload.agent_task_view_sha256 = request.agent_task_view_sha256

Bind ==
    /\ stage = "bind"
    /\ IF TranscriptBound /\ (mode = "attested" => EpisodeRequested)
       THEN stage' = "learn" /\ UNCHANGED <<raised, endpoint>>
       ELSE /\ Fail(IF TranscriptBound THEN "binding" ELSE "transcript")
            /\ endpoint' = IF TranscriptBound THEN "down" ELSE endpoint
    /\ UNCHANGED <<run, arguments, agent, turn, transcript, candidates, faults, authority,
                   lessons>>

\* Faulty: rejected evidence is learned from.
LearnableUnadmitted == task.split = "train" /\ learningSink

Learnable == receipt.admitted /\ task.split = "train" /\ learningSink

LearnOrNot ==
    /\ stage = "learn"
    /\ lessons' = IF Learnable THEN Append(lessons, number) ELSE lessons
    /\ stage' = "over"
    /\ UNCHANGED <<run, arguments, raised, boundary, authority>>

\* learning_sink.update raises, with or without having updated anything.
SinkRaises ==
    /\ stage = "learn"
    /\ Learnable
    /\ lessons' \in {lessons, Append(lessons, number)}
    /\ Fail("sink")
    /\ UNCHANGED <<run, arguments, boundary, authority>>

\* The next run, on the same endpoint and under the same verifier.
NextRun ==
    /\ stage = "over"
    /\ number < MaxEpisodes
    /\ number' = number + 1
    /\ issued' = IF request = None THEN issued ELSE issued \cup HonestReceipts
    /\ \E t \in Tasks : NewRun(t)
    /\ UNCHANGED <<endpoint, consumed, verdicts, lessons>>

Next ==
    \/ Request \/ NotConnected \/ AttestorRaises
    \/ request # None /\ \E r \in Offers : Attested(r) \/ NotAttested(r) \/ Presented(r)
    \/ OpenAgent \/ OpenAgentRaises
    \/ GymSteps
    \/ \E t \in {turn, turn + 1}, d \in Decisions :
        \/ AgentDecides(d, t)
        \/ \E c \in Candidates : AgentGenerates(d, c, t)
        \/ AgentGenerateRaises(d, t)
    \/ AgentDecideRaises
    \/ CloseAgent \/ CloseAgentRaises
    \/ Bind
    \/ LearnOrNot \/ SinkRaises
    \/ NextRun

Spec == Init /\ [][Next]_vars

-----------------------------------------------------------------------------
(* Properties *)

\* The calls of verify that accepted this run's challenge.
Acceptances == {i \in DOMAIN verdicts : verdicts[i].valid /\ verdicts[i].challenge = number}

\* The evidence this run learned from.
Taught == updates > 0 \/ number \in {lessons[i] : i \in DOMAIN lessons}

(* Learning needs everything at once: a run teaches at most once, only on  *)
(* a train task, when its episode is admitted, its agent was closed, its   *)
(* transcript tells the episode and, in an attested run, the verifier      *)
(* accepted its request, which names the task of the ledger.               *)
LearningIsEarned ==
    /\ \A i, j \in DOMAIN lessons : lessons[i] = lessons[j] => i = j
    /\ Taught =>
        /\ task.split = "train" /\ learningSink
        /\ receipt.admitted
        /\ agent = "closed" /\ outcome = "returned"
        /\ TranscriptBound
        /\ mode = "attested" => Acceptances # {} /\ EpisodeRequested

(* A run that raises anything but its sink's own failure has taught        *)
(* nothing, even if the failure, of the agent's close or of the binding,   *)
(* comes after the episode was admitted.                                   *)
FailedRunTeachesNothing ==
    (stage = "over" /\ raised \notin {None, "sink"}) => ~Taught

(* The gym's failure is the one the run raises, whatever closing the agent *)
(* does; a run that raises nothing has an episode and a closed agent.      *)
GymFailureSurvivesClose ==
    stage = "over" =>
        /\ failure # None => raised = "gym"
        /\ raised = None => outcome = "returned" /\ agent = "closed"

\* The entries chained anew, with the turns and attempts they come to have.
Numbered(told, payload) ==
    [f \in DOMAIN payload |->
        CASE f = "turn"    -> Len(told.turns) + 1
          [] f = "attempt" -> Len(told.generations) + 1
          [] OTHER         -> payload[f]]

Rechain(chain, e) == AppendEntry(chain, e.kind, Numbered(Told(chain), e.payload))

Rechained(entries) == FoldLeft(Rechain, <<>>, entries)

Without(entries, i) == RemoveAt(entries, i)
Twice(entries, i) == InsertAt(entries, i, entries[i])
Swapped(entries, i) ==
    [entries EXCEPT ![i] = entries[i + 1], ![i + 1] = entries[i]]

\* Another answer, or another view of the episode, in entry i.
Retold(entries, i) ==
    {[entries EXCEPT ![i].payload.decision = d] :
        d \in {d \in Decisions : entries[i].kind = "AGENT_DECISION"}}
    \cup {[entries EXCEPT ![i].payload.candidate_sha256 = Sha256(c)] :
        c \in {c \in Candidates : entries[i].kind = "AGENT_GENERATION"}}
    \cup {[entries EXCEPT ![i].payload.observation_frontier_sha256 = Sha256(b)] :
        b \in {b \in StepBatches : entries[i].kind \in Turns}}

Alterations(entries) ==
    (UNION {{Without(entries, i), Twice(entries, i)} \cup Retold(entries, i) :
               i \in DOMAIN entries})
    \cup {Swapped(entries, i) : i \in 1 .. Len(entries) - 1}

\* What a transcript tells: the decisions in order, the candidates in order,
\* each with what the agent saw.  Which of two generative calls on the same
\* observations a candidate answers, no test of the code can tell.
Unnumbered(payload) == [f \in DOMAIN payload \ {"turn", "attempt"} |-> payload[f]]

Story(entries) ==
    LET told == Told(entries) IN
    [decisions   |-> [n \in DOMAIN told.decisions |-> Unnumbered(told.decisions[n])],
     generations |-> [n \in DOMAIN told.generations |-> Unnumbered(told.generations[n])]]

(* The transcript of an agent that numbers its turns is never refused,     *)
(* however the episode went, and that of one that does not always is; one  *)
(* that tells another story than its episode is refused even when it is    *)
(* chained and numbered anew: no answer of the agent is left out,          *)
(* repeated, reordered or replaced, none is put before other observations  *)
(* than it was given on, and the ends stay where they are.                 *)
TranscriptTellsEpisode ==
    /\ raised \in {"transcript", "binding"} => faults > 0 /\ raised = "transcript"
    /\ stage = "learn" =>
        /\ faults = 0
        /\ \A altered \in {Rechained(e) : e \in Alterations(transcript)} :
            VerifyAgainstEpisode(ToTranscript(altered), View, EpisodeResult) =>
                Story(altered) = Story(transcript) /\ Len(altered) = Len(transcript)

(* No agent session of an attested run exists before the verifier accepted *)
(* a receipt of the attestor for this task, this task view, this endpoint  *)
(* and this context.                                                       *)
NoSessionBeforeAttestation ==
    (mode = "attested" /\ agent # "none") =>
        /\ request = AttestationRequest(number, Peer, View, task, Context)
        /\ \E i \in Acceptances : verdicts[i].own

(* A challenge is accepted at most once, whoever presents it, so a receipt *)
(* opens one run.                                                          *)
ChallengeVerifiesOnce ==
    \A i, j \in DOMAIN verdicts :
        (verdicts[i].valid /\ verdicts[j].valid /\
         verdicts[i].challenge = verdicts[j].challenge) => i = j

(* Refused receipts use nothing up: the attestor's receipt is refused only *)
(* if one was accepted for its challenge before.                           *)
RefusalKeepsChallenge ==
    \A i \in DOMAIN verdicts :
        verdicts[i].own /\ ~verdicts[i].valid =>
            \E j \in 1 .. i - 1 :
                verdicts[j].valid /\ verdicts[j].challenge = verdicts[i].challenge

(* What an external agent may train on is what the gym would have: the     *)
(* receipt of a bound train episode verifies, it is positive exactly when  *)
(* the episode is admitted, and it verifies under no other claim to have   *)
(* something to learn from, even if it is digested anew.                   *)
TrainingReceiptExact ==
    (stage = "learn" /\ task.split = "train") =>
        LET r == TrainingReceipt(task.split, transcript, EpisodeResult)
            body == [f \in DOMAIN r \ {"receipt_sha256"} |-> r[f]]
        IN  /\ VerifyTrainingReceipt(r)
            /\ r.experience_kind = "positive" <=> receipt.admitted
            /\ \A kind \in {"positive", "typed_negative"} \ {r.experience_kind},
                  says \in BOOLEAN :
                ~VerifyTrainingReceipt(Digested(
                    [body EXCEPT !.experience_kind = kind, !.learning_admissible = says]))

-----------------------------------------------------------------------------
(* The inductive invariant behind them: what holds at each stage. *)

\* The gym cannot learn, and what it returns has not failed.
GymInv ==
    /\ ~sink /\ updates = 0
    /\ outcome \in {"running", "returned", "raised"}
    /\ outcome = "returned" => failure = None

StageInv ==
    /\ stage \in Stages
    /\ stage # "over" => raised = None
    /\ stage \in {"request", "attest", "open"} =>
          failure = None /\ agent = "none" /\ outcome = "running"
    /\ stage = "gym" => agent = "open"
    /\ stage \in {"bind", "learn"} => outcome = "returned" /\ agent = "closed"
    /\ stage = "learn" =>
          TranscriptBound /\ (mode = "attested" => Acceptances # {} /\ EpisodeRequested)

Verdicts == [challenge : Nat, own : BOOLEAN, valid : BOOLEAN]

AttestationInv ==
    /\ verdicts \in Seq(Verdicts)
    /\ stage = "attest" \/ request # None => request.challenge = number
    /\ stage \in {"open", "gym", "bind", "learn"} /\ mode = "attested" => Acceptances # {}
    /\ \A i \in DOMAIN verdicts : verdicts[i].valid => verdicts[i].challenge \in consumed
    /\ ChallengeVerifiesOnce

\* The run has made its request.
Requested ==
    \/ request # None
    \/ mode = "attested" /\ (agent # "none" \/ stage \in Stages \ {"request", "over"})

\* A request is this run's own, and a session needs one that was accepted.
SessionInv ==
    /\ Requested => request = AttestationRequest(number, Peer, View, task, Context)
    /\ mode = "attested" /\ agent # "none" => Acceptances # {}

\* Only the attestor's own receipts are accepted, which is what uses a
\* challenge up, and a receipt names the run it was issued in.
VerdictInv ==
    /\ \A i \in DOMAIN verdicts : verdicts[i].valid => verdicts[i].own
    /\ \A c \in consumed :
          \E i \in DOMAIN verdicts : verdicts[i].valid /\ verdicts[i].challenge = c
    /\ \A r \in issued : r.challenge \in Nat /\ r.challenge < number
    /\ RefusalKeepsChallenge

LessonsInv ==
    /\ number \in Nat
    /\ lessons \in Seq(Nat)
    /\ \A i \in DOMAIN lessons :
          lessons[i] < number \/ (lessons[i] = number /\ stage = "over")
    /\ LearningIsEarned
    /\ FailedRunTeachesNothing
    /\ GymFailureSurvivesClose

IsolatedInv == GymInv /\ StageInv /\ AttestationInv /\ LessonsInv

\* The rest of what the attestation promises, on top of IsolatedInv.
AttestedInv == IsolatedInv /\ SessionInv /\ VerdictInv

\* The fields of each kind of entry.
FieldsOf(kind) ==
    CASE kind = "AGENT_START" -> {"session_id", "agent_task_view_sha256"}
      [] kind = "AGENT_DECISION" ->
            {"turn", "observation_frontier_sha256", "trajectory_sha256", "decision"}
      [] kind = "AGENT_GENERATION" ->
            {"turn", "observation_frontier_sha256", "attempt", "candidate_sha256"}
      [] OTHER -> {"session_id", "closed"}

\* Entry i is chained to those before it and has the fields of its kind.
Chained(entries, i) ==
    /\ entries[i] = LedgerEntry(i - 1, entries[i].kind, PreviousHash(entries, i),
                                entries[i].payload)
    /\ entries[i].payload = [f \in FieldsOf(entries[i].kind) |-> entries[i].payload[f]]

\* The transcript: a chain that starts with the agent's session, goes on with
\* its turns and ends with its close.
RecordedInv ==
    LET last == transcript[Len(transcript)] IN
    /\ transcript \in Seq(ToSet(transcript))
    /\ \A i \in DOMAIN transcript : Chained(transcript, i)
    /\ stage \in {"request", "attest", "open"} => transcript = <<>>
    /\ stage \in {"gym", "bind", "learn"} => transcript # <<>>
    /\ transcript # <<>> =>
          /\ transcript[1].kind = "AGENT_START"
          /\ transcript[1].payload =
                [session_id |-> number, agent_task_view_sha256 |-> Sha256(View)]
    /\ \A i \in DOMAIN transcript \ {1} :
          \/ transcript[i].kind \in Turns
          \/ stage # "gym" /\ i = Len(transcript) /\ transcript[i].kind = "AGENT_CLOSE"
    /\ stage \in {"bind", "learn"} =>
          /\ Len(transcript) > 1
          /\ last.kind = "AGENT_CLOSE"
          /\ last.payload = [session_id |-> number, closed |-> TRUE]

TurnsOf(entries) == {i \in DOMAIN entries : entries[i].kind \in Turns}

TurnIsDue(entries, i) == entries[i].payload.turn = TurnDue(entries, i)

\* The turns count up exactly if the agent never misnumbered one.
NumberedInv ==
    /\ turn \in Nat /\ faults \in Nat
    /\ stage = "gym" /\ faults = 0 => turn = Len(Told(transcript).turns)
    /\ stage \in {"request", "attest", "open"} => turn = 0 /\ faults = 0
    /\ faults = 0 => \A i \in TurnsOf(transcript) : TurnIsDue(transcript, i)
    /\ faults > 0 => \E i \in TurnsOf(transcript) : ~TurnIsDue(transcript, i)

\* What the transcript holds besides: decisions of the agent, and generations
\* that count up and answer the call before them.
Said(entries, i) ==
    /\ entries[i].kind = "AGENT_DECISION" => entries[i].payload.decision \in Decisions
    /\ entries[i].kind = "AGENT_GENERATION" =>
          /\ i > 1
          /\ entries[i].payload.attempt = AttemptDue(entries, i)
          /\ FollowsCall(entries, i)

SpokenInv == \A i \in DOMAIN transcript : Said(transcript, i)

CandidatesOf == [n \in DOMAIN candidates |-> Sha256(candidates[n])]

\* The candidate about to be acted upon.
AwaitedCandidates == IF phase = "step" /\ candidate # None THEN <<Sha256(candidate)>> ELSE <<>>

\* While nothing has failed, the transcript, the ledger and the lists of the
\* gym tell the same.
AgreedInv ==
    LET told == Told(transcript)
        did  == Done(ledger)
    IN
    failure = None =>
        /\ DecisionsBound(transcript, ledger)
        /\ candidates \in Seq(ToSet(candidates))
        /\ generativeCalls = Len(candidates)
        /\ Len(told.generations) = Len(candidates)
        /\ \A n \in DOMAIN candidates :
              told.generations[n].candidate_sha256 = Sha256(candidates[n])
        /\ did.candidates \o AwaitedCandidates = CandidatesOf
        /\ phase \in {"start", "loop", "step"} => trajectory = did.actions

\* Where the gym is.
PhaseInv ==
    /\ phase \in Gym!Phases
    /\ failure # None => phase \in {"close", "end"}
    /\ outcome = "running" <=> phase # "end"
    /\ stage \in {"request", "attest", "open"} => phase = "start"
    /\ phase = "start" =>
          /\ ledger = <<>> /\ trajectory = <<>> /\ candidates = <<>> /\ generativeCalls = 0
          /\ Told(transcript) = NothingTold
    /\ ledger \in Seq(ToSet(ledger))
    /\ failure = None /\ phase # "start" =>
          /\ ledger # <<>>
          /\ ledger[1].payload = [agent_task_view_sha256 |-> Sha256(View),
                                  host_task_commitment |-> Sha256(task)]
    /\ phase = "step" /\ candidate # None =>
          action = "CALL_GENERATIVE" /\ action \in task.allowed_actions

\* A judged episode has a receipt, and the receipt says what admission means.
JudgedInv ==
    /\ phase \in {"learn", "close", "end"} /\ failure = None => receipt # None
    /\ receipt # None =>
          /\ receipt \in Gym!Receipts
          /\ receipt.admitted <=> receipt.semantic_valid /\ ProofValid(receipt)

\* Only misnumbered turns are held against an agent.
RefusedInv ==
    raised \in {"transcript", "binding"} => faults > 0 /\ raised = "transcript"

BoundInv ==
    /\ AttestedInv
    /\ RecordedInv /\ NumberedInv /\ SpokenInv /\ AgreedInv /\ PhaseInv /\ JudgedInv
    /\ RefusedInv
=============================================================================
