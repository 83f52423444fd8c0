-------------------------------- MODULE Episode --------------------------------
(***************************************************************************)
(* One episode: ReferenceGym.run (gym/core.py) against a host session, a   *)
(* policy, an optional generator, a proof verifier and an optional         *)
(* learning sink.  Everything outside run is a choice: what the policy     *)
(* decides, what the host observes, accepts and rejects, and every call    *)
(* that may raise.  A step is the code from one outside call to the next.  *)
(***************************************************************************)
EXTENDS Evidence, LedgerLanguage

CONSTANTS Tasks,            \* the tasks an episode may be run on
          Decisions,        \* what Policy.decide may return
          ResetBatches,     \* observations environment.reset may return
          StepBatches,      \* observations environment.step may return
          Candidates,       \* what Generator.generate may return
          MaxObservations   \* bound: the host stops observing here

SelfDeferrals == {"DEFER_TIE", "DEFER_NO_SUPPORT", "DEFER_NO_ADMISSIBLE"}

DecisionKinds == {"SELECT", "CALL_GENERATIVE"} \cup SelfDeferrals

TerminalReasons ==
    {"ENVIRONMENT_DONE", "TOOL_COST_BUDGET_EXHAUSTED", "STEP_BUDGET_EXHAUSTED",
     "GENERATIVE_BUDGET_EXHAUSTED", "GENERATOR_UNAVAILABLE", "ACTION_UNSUPPORTED",
     "INVALID_POLICY_ACTION"}

ASSUME TasksAssumption ==
    \A t \in Tasks :
        /\ t.max_steps \in Nat
        /\ t.max_generative_calls \in Nat
        /\ t.max_tool_cost = None \/ t.max_tool_cost \in Int

Receipts ==
    [semantic_valid : BOOLEAN, provenance_valid : BOOLEAN, trajectory_valid : BOOLEAN,
     integrity_valid : BOOLEAN, admitted : BOOLEAN]

\* The outside call, or the check, whose exception run is propagating.
Failures == {"start", "surface", "policy", "generator", "host", "verifier", "sink", "close"}

ASSUME NoneAssumption ==
    /\ None \notin TerminalReasons
    /\ None \notin Failures
    /\ None \notin Receipts

ASSUME DecisionsAssumption ==
    /\ None \notin Decisions
    /\ \A d \in Decisions : d.kind \in DecisionKinds

\* A batch is a list of observations, each with a cost.
ASSUME BatchesAssumption ==
    /\ None \notin ResetBatches \cup StepBatches
    /\ \A b \in ResetBatches \cup StepBatches :
        /\ b \in Seq(ToSet(b))
        /\ \A i \in DOMAIN b : b[i].cost \in Int \cup {NaN}

VARIABLES
    task, generator, sink,       \* the arguments of run: two of them may be None
    phase,                       \* where run is: see Phases
    session,                     \* the host's session: "none", "open", "closed"
    observations, trajectory,    \* run's lists
    action, candidate,           \* what the next host.step is given
    generativeCalls, stepsTaken, \* run's counters
    done, budgetExhausted, terminalReason, cause,
    ledger,                      \* entries of the TrajectoryLedger
    receipt,                     \* the AdmissionReceipt, None until there is one
    updates,                     \* calls of learning_sink.update that took effect
    failure,                     \* what run is raising, None if nothing
    outcome                      \* "running", "returned" or "raised"

inputs == <<task, generator, sink>>
progress == <<observations, trajectory, generativeCalls, stepsTaken, ledger>>
verdicts == <<done, budgetExhausted, terminalReason, cause>>
effects == <<receipt, updates>>
vars == <<inputs, phase, session, progress, action, candidate, verdicts, effects,
          failure, outcome>>

\* "loop": about to decide; "step": about to call host.step; "seal": the loop
\* is over; "learn": the result is built; "close": in the finally clause.
Phases == {"start", "loop", "step", "seal", "learn", "close", "end"}

AgentView(t) ==
    [allowed_actions |-> t.allowed_actions, max_steps |-> t.max_steps,
     max_generative_calls |-> t.max_generative_calls, max_tool_cost |-> t.max_tool_cost]

\* LocalReferenceHost accepts a typed deferral where the task allows DEFER.
ActionAllowed(t, a) ==
    \/ a \in t.allowed_actions
    \/ a \in SelfDeferrals /\ "DEFER" \in t.allowed_actions

\* A comparison with NaN is false, so a NaN cost never exceeds the budget.
OverBudget(t, items) ==
    /\ t.max_tool_cost # None
    /\ ToolCost(items) # NaN
    /\ ToolCost(items) > t.max_tool_cost

Init ==
    /\ task \in Tasks
    /\ generator \in BOOLEAN
    /\ sink \in BOOLEAN
    /\ phase = "start"
    /\ session = "none"
    /\ observations = <<>>
    /\ trajectory = <<>>
    /\ action = None
    /\ candidate = None
    /\ generativeCalls = 0
    /\ stepsTaken = 0
    /\ done = FALSE
    /\ budgetExhausted = FALSE
    /\ terminalReason = None
    /\ cause = None
    /\ ledger = <<>>
    /\ receipt = None
    /\ updates = 0
    /\ failure = None
    /\ outcome = "running"

-----------------------------------------------------------------------------
(* Ways to leave the loop, and to leave run. *)

\* The loop is over because the task's resources are: no decision is at fault.
\* Faulty: the trajectory's marker is taken for the reason.
ExhaustUnnamed(reason) ==
    /\ phase' = "seal"
    /\ budgetExhausted' = TRUE
    /\ terminalReason' = "BUDGET_EXHAUSTED"
    /\ UNCHANGED <<done, cause>>

Exhaust(reason) ==
    /\ phase' = "seal"
    /\ budgetExhausted' = TRUE
    /\ terminalReason' = reason
    /\ UNCHANGED <<done, cause>>

\* The loop is over because of the last decision, the ledger's last entry.
RefuseDecision(reason, exhausted) ==
    /\ phase' = "seal"
    /\ budgetExhausted' = exhausted
    /\ terminalReason' = reason
    /\ cause' = RootSha256(ledger')
    /\ UNCHANGED done

\* An exception propagates to the finally clause.
\* Faulty: the finally clause is skipped.
RaiseWithoutFinally(origin) ==
    /\ phase' = "end"
    /\ failure' = origin

Raise(origin) ==
    /\ phase' = "close"
    /\ failure' = origin

-----------------------------------------------------------------------------
(* host.start and what precedes the loop *)

Start(batch) ==
    /\ phase = "start"
    /\ Len(batch) <= MaxObservations
    /\ session' = "open"
    /\ observations' = batch
    /\ ledger' = RecordObservationBatch(NewLedger(AgentView(task), Sha256(task)), batch)
    /\ \/ /\ OverBudget(task, batch)
          /\ Exhaust("TOOL_COST_BUDGET_EXHAUSTED")
          /\ trajectory' = <<"BUDGET_EXHAUSTED">>
       \/ /\ ~OverBudget(task, batch)
          /\ phase' = "loop"
          /\ UNCHANGED <<verdicts, trajectory>>
    /\ UNCHANGED <<inputs, action, candidate, generativeCalls, stepsTaken, effects,
                   failure, outcome>>

\* host.start raises, before run's try: its factory fails, or, with the
\* session already in the host's table, its environment's reset does.
StartRaises ==
    /\ phase = "start"
    /\ session' \in {"none", "open"}
    /\ failure' = "start"
    /\ phase' = "end"
    /\ outcome' = "raised"
    /\ UNCHANGED <<inputs, progress, action, candidate, verdicts, effects>>

\* The host serves another task surface than the descriptor's.
SurfaceMismatch ==
    /\ phase = "start"
    /\ session' = "open"
    /\ Raise("surface")
    /\ UNCHANGED <<inputs, progress, action, candidate, verdicts, effects, outcome>>

-----------------------------------------------------------------------------
(* policy.decide, up to the call of host.step *)

StepBudgetExhausted ==
    /\ phase = "loop"
    /\ stepsTaken >= task.max_steps
    /\ Exhaust("STEP_BUDGET_EXHAUSTED")
    /\ trajectory' = Append(trajectory, "BUDGET_EXHAUSTED")
    /\ UNCHANGED <<inputs, session, observations, generativeCalls, stepsTaken, ledger,
                   action, candidate, effects, failure, outcome>>

PolicyRaises ==
    /\ phase = "loop"
    /\ stepsTaken < task.max_steps
    /\ Raise("policy")
    /\ UNCHANGED <<inputs, session, progress, action, candidate, verdicts, effects, outcome>>

\* The policy returns decision d, which is counted and recorded.
Decided(d) ==
    /\ phase = "loop"
    /\ stepsTaken < task.max_steps
    /\ stepsTaken' = stepsTaken + 1
    /\ ledger' = RecordDecision(ledger, d, observations)
    /\ UNCHANGED <<inputs, session, observations, effects, outcome>>

\* An admissible selection, or a typed deferral, goes to the host as it is.
DecideAction(d) ==
    /\ Decided(d)
    /\ \/ d.kind = "SELECT" /\ d.action \in task.allowed_actions /\ action' = d.action
       \/ d.kind \in SelfDeferrals /\ action' = d.kind
    /\ candidate' = None
    /\ phase' = "step"
    /\ UNCHANGED <<trajectory, generativeCalls, verdicts, failure>>

SelectionInvalid(d) ==
    /\ Decided(d)
    /\ d.kind = "SELECT"
    /\ d.action \notin task.allowed_actions
    /\ RefuseDecision("INVALID_POLICY_ACTION", FALSE)
    /\ trajectory' = Append(trajectory, "DEFER_NO_ADMISSIBLE")
    /\ UNCHANGED <<generativeCalls, action, candidate, failure>>

\* Faulty: one call too many.
MayGenerateOnceMore ==
    /\ "CALL_GENERATIVE" \in task.allowed_actions
    /\ generator
    /\ generativeCalls <= task.max_generative_calls

MayGenerate ==
    /\ "CALL_GENERATIVE" \in task.allowed_actions
    /\ generator
    /\ generativeCalls < task.max_generative_calls

\* The three refusals of a generative call, in the order they are tested.
GenerationRefused(d) ==
    /\ Decided(d)
    /\ d.kind = "CALL_GENERATIVE"
    /\ \/ /\ "CALL_GENERATIVE" \notin task.allowed_actions
          /\ RefuseDecision("ACTION_UNSUPPORTED", FALSE)
          /\ trajectory' = Append(trajectory, "DEFER_NO_SUPPORT")
       \/ /\ "CALL_GENERATIVE" \in task.allowed_actions
          /\ ~generator
          /\ RefuseDecision("GENERATOR_UNAVAILABLE", FALSE)
          /\ trajectory' = Append(trajectory, "DEFER_NO_SUPPORT")
       \/ /\ "CALL_GENERATIVE" \in task.allowed_actions
          /\ generator
          /\ generativeCalls >= task.max_generative_calls
          /\ RefuseDecision("GENERATIVE_BUDGET_EXHAUSTED", TRUE)
          /\ trajectory' = Append(trajectory, "BUDGET_EXHAUSTED")
    /\ UNCHANGED <<generativeCalls, action, candidate, failure>>

Generate(d, c) ==
    /\ Decided(d)
    /\ d.kind = "CALL_GENERATIVE"
    /\ MayGenerate
    /\ generativeCalls' = generativeCalls + 1
    /\ candidate' = c
    /\ action' = "CALL_GENERATIVE"
    /\ phase' = "step"
    /\ UNCHANGED <<trajectory, verdicts, failure>>

GeneratorRaises(d) ==
    /\ Decided(d)
    /\ d.kind = "CALL_GENERATIVE"
    /\ MayGenerate
    /\ generativeCalls' = generativeCalls + 1
    /\ Raise("generator")
    /\ UNCHANGED <<trajectory, action, candidate, verdicts>>

-----------------------------------------------------------------------------
(* host.step *)

Finish ==
    /\ phase' = "seal"
    /\ done' = TRUE
    /\ terminalReason' = "ENVIRONMENT_DONE"
    /\ trajectory' = Append(trajectory, action)
    /\ UNCHANGED <<budgetExhausted, cause>>

Overrun ==
    /\ Exhaust("TOOL_COST_BUDGET_EXHAUSTED")
    /\ trajectory' = trajectory \o <<action, "BUDGET_EXHAUSTED">>

GoOn ==
    /\ phase' = "loop"
    /\ trajectory' = Append(trajectory, action)
    /\ UNCHANGED verdicts

\* Faulty: the budget is looked at only if the environment is not done.
ConcludeDoneFirst(isDone) ==
    \/ isDone /\ Finish
    \/ ~isDone /\ OverBudget(task, observations') /\ Overrun
    \/ ~isDone /\ ~OverBudget(task, observations') /\ GoOn

\* The budget is looked at first, then whether the environment is done.
ConcludeStep(isDone) ==
    \/ OverBudget(task, observations') /\ Overrun
    \/ ~OverBudget(task, observations') /\ isDone /\ Finish
    \/ ~OverBudget(task, observations') /\ ~isDone /\ GoOn

\* The host answers, and the result is recorded.
HostStep(batch, isDone) ==
    /\ phase = "step"
    /\ ActionAllowed(task, action)
    /\ Len(observations) + Len(batch) <= MaxObservations
    /\ observations' = observations \o batch
    /\ ledger' = RecordActionResult(ledger, RootSha256(ledger), action, batch, isDone, candidate)
    /\ ConcludeStep(isDone)
    /\ UNCHANGED <<inputs, session, generativeCalls, stepsTaken, action, candidate,
                   effects, failure, outcome>>

HostRejects ==
    /\ phase = "step"
    /\ ~ActionAllowed(task, action)
    /\ trajectory' = Append(trajectory, "DEFER_NO_ADMISSIBLE")
    /\ UNCHANGED ledger
    /\ RefuseDecision("INVALID_POLICY_ACTION", FALSE)
    /\ UNCHANGED <<inputs, session, observations, generativeCalls, stepsTaken,
                   action, candidate, effects, failure, outcome>>

HostStepRaises ==
    /\ phase = "step"
    /\ ActionAllowed(task, action)
    /\ Raise("host")
    /\ UNCHANGED <<inputs, session, progress, action, candidate, verdicts, effects, outcome>>

-----------------------------------------------------------------------------
(* Semantic verdict, provenance, terminal receipt, proof and admission *)

\* host.semantic_verdict is asked only of an episode the environment ended
\* within its budgets.
AsksVerdict == done /\ ~budgetExhausted /\ terminalReason = "ENVIRONMENT_DONE"

\* The checks ProofBundleVerifier makes before it writes and verifies a bundle.
BundleAccepted(document, semantic, provenance) ==
    /\ VerifyLedgerDocument(document)
    /\ LET start == document.entries[1].payload
           end   == document.entries[Len(document.entries)].payload
       IN  /\ start.agent_task_view_sha256 = Sha256(AgentView(task))
           /\ start.host_task_commitment = Sha256(task)
           /\ end.observation_frontier_sha256 = Sha256(observations)
           /\ end.semantic_valid = semantic
           /\ end.provenance_valid = provenance

SemanticValid(verdict) == AsksVerdict /\ verdict

\* Faulty: the terminal receipt names no cause.
SealedWithoutCause(verdict) ==
    RecordTerminal(ledger, terminalReason, SemanticValid(verdict),
                   ProvenanceValid(observations), budgetExhausted, observations, None)

SealedLedger(verdict) ==
    RecordTerminal(ledger, terminalReason, SemanticValid(verdict),
                   ProvenanceValid(observations), budgetExhausted, observations, cause)

AdmissionReceipt(semantic, provenance, trajectoryValid, integrity) ==
    [semantic_valid |-> semantic,
     provenance_valid |-> provenance,
     trajectory_valid |-> trajectoryValid,
     integrity_valid |-> integrity,
     admitted |-> semantic /\ provenance /\ trajectoryValid /\ integrity]

\* `verdict` is the host's, `passed` the proof engine's on the bundle.
Admit(verdict, passed) ==
    /\ phase = "seal"
    /\ verdict => AsksVerdict
    /\ ledger' = SealedLedger(verdict)
    /\ LET document   == ToDocument(SealedLedger(verdict))
           semantic   == SemanticValid(verdict)
           provenance == ProvenanceValid(observations)
       IN  receipt' = AdmissionReceipt(semantic, provenance, VerifyLedgerDocument(document),
                                       BundleAccepted(document, semantic, provenance) /\ passed)
    /\ phase' = "learn"
    /\ UNCHANGED <<inputs, session, observations, trajectory, generativeCalls, stepsTaken,
                   action, candidate, verdicts, updates, failure, outcome>>

VerdictRaises ==
    /\ phase = "seal"
    /\ AsksVerdict
    /\ Raise("host")
    /\ UNCHANGED <<inputs, session, progress, action, candidate, verdicts, effects, outcome>>

\* The proof verifier raises once the terminal entry is written.
VerifierRaises(verdict) ==
    /\ phase = "seal"
    /\ verdict => AsksVerdict
    /\ ledger' = SealedLedger(verdict)
    /\ Raise("verifier")
    /\ UNCHANGED <<inputs, session, observations, trajectory, generativeCalls, stepsTaken,
                   action, candidate, verdicts, effects, outcome>>

-----------------------------------------------------------------------------
(* Learning, and the finally clause *)

\* Faulty: any split is learned from.
CreditableAnySplit == receipt.admitted /\ sink

\* Faulty: rejected evidence is learned from.
CreditableUnadmitted == task.split = "train" /\ sink

Creditable == receipt.admitted /\ task.split = "train" /\ sink

Learn ==
    /\ phase = "learn"
    /\ updates' = IF Creditable THEN updates + 1 ELSE updates
    /\ phase' = "close"
    /\ UNCHANGED <<inputs, session, progress, action, candidate, verdicts, receipt,
                   failure, outcome>>

\* learning_sink.update raises, with or without having updated anything.
SinkRaises ==
    /\ phase = "learn"
    /\ Creditable
    /\ updates' \in {updates, updates + 1}
    /\ Raise("sink")
    /\ UNCHANGED <<inputs, session, progress, action, candidate, verdicts, receipt, outcome>>

Close ==
    /\ phase = "close"
    /\ session' = "closed"
    /\ phase' = "end"
    /\ outcome' = IF failure = None THEN "returned" ELSE "raised"
    /\ UNCHANGED <<inputs, progress, action, candidate, verdicts, effects, failure>>

\* Faulty: the session stays in the table.
CloseRaisesLeaking ==
    /\ phase = "close"
    /\ phase' = "end"
    /\ failure' = IF failure = None THEN "close" ELSE failure
    /\ outcome' = "raised"
    /\ UNCHANGED <<inputs, session, progress, action, candidate, verdicts, effects>>

\* Faulty: the failure of close replaces the one that led to it.
CloseRaisesOverPrimary ==
    /\ phase = "close"
    /\ session' = "closed"
    /\ phase' = "end"
    /\ failure' = "close"
    /\ outcome' = "raised"
    /\ UNCHANGED <<inputs, progress, action, candidate, verdicts, effects>>

\* LocalReferenceHost.close drops the session before it closes its
\* environment, so a close that raises has closed the session.
CloseRaises ==
    /\ phase = "close"
    /\ session' = "closed"
    /\ phase' = "end"
    /\ failure' = IF failure = None THEN "close" ELSE failure
    /\ outcome' = "raised"
    /\ UNCHANGED <<inputs, progress, action, candidate, verdicts, effects>>

Next ==
    \/ \E b \in ResetBatches : Start(b)
    \/ StartRaises
    \/ SurfaceMismatch
    \/ StepBudgetExhausted
    \/ PolicyRaises
    \/ \E d \in Decisions :
        \/ DecideAction(d)
        \/ SelectionInvalid(d)
        \/ GenerationRefused(d)
        \/ \E c \in Candidates : Generate(d, c)
        \/ GeneratorRaises(d)
    \/ \E b \in StepBatches, isDone \in BOOLEAN : HostStep(b, isDone)
    \/ HostRejects
    \/ HostStepRaises
    \/ VerdictRaises
    \/ \E verdict \in BOOLEAN : VerifierRaises(verdict)
    \/ \E verdict, passed \in BOOLEAN : Admit(verdict, passed)
    \/ Learn
    \/ SinkRaises
    \/ Close
    \/ CloseRaises

Spec == Init /\ [][Next]_vars

\* run is one thread of straight-line code: unless an outside call never
\* comes back, it takes its next step.
FairSpec == Spec /\ WF_vars(Next)
-----------------------------------------------------------------------------
(* Properties *)

(* The state of run is what its types say. *)
TypeOK ==
    /\ task \in Tasks
    /\ generator \in BOOLEAN
    /\ sink \in BOOLEAN
    /\ phase \in Phases
    /\ session \in {"none", "open", "closed"}
    /\ generativeCalls \in Nat
    /\ stepsTaken \in Nat
    /\ done \in BOOLEAN
    /\ budgetExhausted \in BOOLEAN
    /\ terminalReason \in TerminalReasons \cup {None}
    /\ receipt \in Receipts \cup {None}
    /\ failure \in Failures \cup {None}
    /\ updates \in Nat
    /\ outcome \in {"running", "returned", "raised"}

Recorded(kind) == EntriesOf(ledger, kind)

\* The results of a candidate, and those that say the environment is done.
OfCandidate == {i \in Recorded("ACTION_RESULT") : ledger[i].payload.candidate_sha256 # None}
Finished == {i \in Recorded("ACTION_RESULT") : ledger[i].payload.done}

(* Budgets are enforced, not documented: no action is executed once the    *)
(* observations cost more than the task allows, no policy is asked for     *)
(* more decisions than max_steps, and no candidate is generated beyond     *)
(* max_generative_calls or without a generator.                            *)
WorkStaysInBudget ==
    /\ \A i \in Recorded("ACTION_RESULT") : ~OverBudget(task, ObservedBefore(ledger, i))
    /\ Cardinality(Recorded("DECISION")) <= task.max_steps
    /\ generativeCalls <= task.max_generative_calls
    /\ generativeCalls > 0 => generator
    /\ Cardinality(OfCandidate) <= generativeCalls

(* A tool-cost overrun decides how the episode ends, even when the same    *)
(* step reports the environment done.                                      *)
CostOverrunWins ==
    terminalReason # None =>
        (terminalReason = "TOOL_COST_BUDGET_EXHAUSTED" <=> OverBudget(task, observations))

(* A run that recorded a terminal receipt holds a ledger its own verifier  *)
(* accepts, whatever the policy, the host and the generator did: an honest *)
(* episode is never refused for its trajectory.                            *)
HonestLedgerAccepted ==
    Recorded("TERMINAL") # {} =>
        /\ VerifyLedgerDocument(ToDocument(ledger))
        /\ receipt # None => receipt.trajectory_valid

(* Admitted evidence is sound over the whole episode: the environment      *)
(* ended it with a result, every decision was answered, the provenance of  *)
(* every observation holds, every cost is a finite non-negative number     *)
(* and their sum is within the budget.                                     *)
AdmissionIsSound ==
    receipt # None /\ receipt.admitted =>
        /\ EpisodeRecord(ToDocument(ledger))
        /\ Cardinality(Recorded("DECISION")) = Cardinality(Recorded("ACTION_RESULT"))
        /\ Finished = {Len(ledger) - 1}
        /\ ProvenanceValid(observations)
        /\ task.max_tool_cost # None =>
              /\ ToolCost(observations) # NaN
              /\ ToolCost(observations) <= task.max_tool_cost

(* Learning state changes at most once per episode, and only from admitted *)
(* train evidence.                                                         *)
LearningGate ==
    updates > 0 =>
        /\ updates = 1
        /\ sink
        /\ task.split = "train"
        /\ receipt # None
        /\ receipt.admitted
        /\ ~budgetExhausted

(* Once run is left, the host session is closed, whatever raised; it is    *)
(* never closed while run still uses it.  The exception is host.start      *)
(* itself, which raises before the try.                                    *)
SessionReleased ==
    /\ outcome # "running" /\ failure # "start" => session = "closed"
    /\ session = "closed" => phase = "end"

(* A failure is neither forgotten nor replaced, in particular not by a     *)
(* failing close, and nothing is learned once run is failing.              *)
PrimaryFailureSurvives ==
    [][failure # None => failure' = failure /\ updates' = updates]_vars

(* Every episode ends: max_steps bounds the loop and the finally clause    *)
(* runs on every path.                                                     *)
EpisodeEnds == <>(outcome # "running")

-----------------------------------------------------------------------------
(* The inductive invariant behind the safety properties: what run knows at *)
(* each phase.                                                             *)

LoopInv ==
    phase \in {"start", "loop", "step"} =>
        terminalReason = None /\ cause = None /\ ~done /\ ~budgetExhausted

WithinBudgets ==
    /\ stepsTaken <= task.max_steps
    /\ generativeCalls <= task.max_generative_calls
    /\ generativeCalls > 0 => generator
    /\ phase \in {"loop", "step"} => ~OverBudget(task, observations)

ReceiptInv ==
    /\ phase \in {"start", "loop", "step", "seal"} => receipt = None
    /\ phase = "learn" => receipt # None
    /\ receipt # None => (receipt.admitted => AsksVerdict)

CreditInv ==
    /\ phase \notin {"close", "end"} => updates = 0
    /\ updates > 0 => updates = 1 /\ receipt # None /\ Creditable

ExitInv ==
    /\ failure # None => phase \in {"close", "end"}
    /\ outcome = "running" <=> phase # "end"
    /\ phase \in {"loop", "step", "seal", "learn", "close"} => session = "open"
    /\ phase = "start" => session = "none"
    /\ phase = "end" /\ failure # "start" => session = "closed"

\* The decision that is not answered yet; a ledger with its terminal receipt.
Unanswered == UnresolvedBefore(ledger, Len(ledger) + 1)
Sealed == ledger # <<>> /\ Kind(ledger, Len(ledger)) = "TERMINAL"

\* The ledger is sealed once, when the episode is judged.
SealInv ==
    /\ phase = "start" => ledger = <<>>
    /\ phase \in {"loop", "step", "seal"} => ledger # <<>>
    /\ phase \in {"start", "loop", "step", "seal"} => ~Sealed
    /\ receipt # None => Sealed
    /\ Recorded("TERMINAL") \subseteq {Len(ledger)}

\* What the verifier's scan of the ledger finds is what run knows.
ScanInv ==
    Scanned(ledger) =
        [accepted |-> TRUE, index |-> Len(ledger), previous_hash |-> RootSha256(ledger),
         frontier |-> observations, pending |-> Unanswered, terminal_seen |-> Sealed]

\* run's observations are those of the ledger.
FrontierInv == ObservedBefore(ledger, Len(ledger) + 1) = observations

\* A decision is answered, or it is the cause of the end.
PendingInv ==
    /\ phase = "loop" => Unanswered = None
    /\ phase = "step" => Unanswered # None
    /\ phase = "seal" => cause = Unanswered
    /\ done => cause = None

\* The steps taken, decision by decision and result by result.
CountInv ==
    /\ Cardinality(Recorded("DECISION")) = stepsTaken
    /\ stepsTaken = Cardinality(Recorded("ACTION_RESULT"))
                      + IF (IF Sealed THEN cause # None ELSE Unanswered # None) THEN 1 ELSE 0

\* Candidates that have been acted upon, and the one about to be.
CandidateInv ==
    Cardinality(OfCandidate)
      + (IF phase = "step" /\ candidate # None THEN 1 ELSE 0) <= generativeCalls

\* A result that says done is the last one, and the episode is over with it.
DoneInv ==
    LET last == IF Sealed THEN Len(ledger) - 1 ELSE Len(ledger)
    IN  /\ Finished \subseteq {last}
        /\ done => Finished = {last}
        /\ phase \in {"loop", "step"} => Finished = {}

\* No action was executed over the budget.
CostInv ==
    \A i \in Recorded("ACTION_RESULT") : ~OverBudget(task, ObservedBefore(ledger, i))

\* What the receipt says of the ledger and the observations is true of them.
JudgedInv ==
    receipt # None =>
        /\ receipt.trajectory_valid
        /\ receipt.admitted => ProvenanceValid(observations)

\* A run about to return has been judged, and credited where it is due.
ReturnInv ==
    phase = "close" /\ failure = None =>
        receipt # None /\ updates = IF Creditable THEN 1 ELSE 0

\* The ledger is a sequence of entries, the observations one of items with a cost.
ShapeInv ==
    /\ ledger \in Seq(ToSet(ledger))
    /\ \A i \in DOMAIN ledger : EntryShaped(ledger[i])
    /\ observations \in Seq(ToSet(observations))
    /\ \A i \in DOMAIN observations : observations[i].cost \in Int \cup {NaN}

LedgerInv ==
    /\ ShapeInv /\ SealInv /\ ScanInv /\ FrontierInv /\ PendingInv /\ CountInv /\ CandidateInv
    /\ DoneInv /\ CostInv /\ JudgedInv /\ ReturnInv

EpisodeInv ==
    TypeOK /\ LoopInv /\ WithinBudgets /\ CostOverrunWins /\ ReceiptInv /\ CreditInv /\ ExitInv

\* What run's callers see of the admission.
Eligible == sink /\ task.split = "train"
Verdict ==
    IF receipt = None THEN "none"
    ELSE IF receipt.admitted THEN "admitted" ELSE "rejected"

(* run keeps the promise of EpisodePromise: every step of it records,      *)
(* judges, credits, returns, raises or changes nothing its callers see.    *)
Promise == INSTANCE EpisodePromise WITH
    eligible <- Eligible, log <- ledger, verdict <- Verdict, credit <- updates

KeepsPromise == Promise!Spec
=============================================================================
