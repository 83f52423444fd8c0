# TLA+ verification of Artifact-Proof-Lab

The repository has two halves. `src/src/artifact_proof/` verifies an artifact (a
directory or a ZIP) against a manifest. `src/gym/` runs *episodes*: a policy acts
on a host environment under a budget, every step is recorded in a hash-chained
ledger, and the evidence is admitted, and possibly learned from, only when four
independent checks pass; the last of them builds a bundle and verifies it with the
first half. Around an episode the repository puts hosts and agents in processes of
their own, agents behind a TCP connection it must have attested, and trainers and
curricula that run one episode after another. These modules model both halves and
what is around them, TLC checks them on small instances, and TLAPS proves the main
facts for every instance.

## 1. Inventory

| Component | Code | State | Operations | Talks to | Correct when |
|---|---|---|---|---|---|
| Trajectory ledger | `gym/ledger.py` | list of entries | `record_*`, `to_document`, `verify_ledger_document` | written by the episode, verified by the episode, the bundle verifier, the learners | the verifier accepts exactly episode records; the root commits to the whole ledger |
| Reference episode | `gym/core.py` `ReferenceGym.run` | observations, trajectory, counters, ledger, terminal reason and cause, receipt | one call `run` | host gateway, policy, generator, proof verifier, learning sink (all calls that may raise) | budgets enforced, ledger replays the run, sound admission, learning gated, session released |
| Evidence admission | `gym/core.py` `EvidenceAdmission` | none | `provenance_valid` | the episode | broken evidence is never repaired nor admitted |
| Local reference host | `gym/host_boundary.py` | session table, counter | `start`, `step`, `semantic_verdict`, `close` | episode, environments | closes what it opens; refuses actions outside the contract |
| Verification engine | `artifact_proof/engine.py`, `checks.py` | findings | `verify_artifact` | a source, the manifest | a PASS is true of the files it attests, together |
| Directory source | `artifact_proof/source.py` | inventory, observed digests, an open descriptor | `list_files`, `read_bytes`, `finalize_snapshot` | the file system, shared with other processes | what it attests was there at one instant; bounded reads |
| ZIP source | `artifact_proof/source.py` | one archive handle, member table | the same | the engine | the same, over one file |
| Manifest, paths, value binding | `manifest.py`, `paths.py`, `checks.py` | none | pure functions | the engine | strict parsing; canonical values |
| Subprocess host gateway | `gym/subprocess_host.py`, `private_host_server.py`, `host_wire.py` | child process, request counter, response queue | `start`, `step`, `semantic_verdict`, `close`, `shutdown` | a child process over pipes, two reader threads | an answer is matched with its request or the process is terminated |
| Agent endpoints | `gym/agent_endpoint.py`, `agent_worker.py`, `external_agent.py`, `agent_socket_server.py` | turn per session, process or socket | `open`, `decide`, `generate`, `close` | a child process or a TCP peer | turns agree on both ends; a poisoned connection is never used again |
| Isolated episode, transcript | `gym/isolated_agent.py`, `agent_transcript.py` | second hash chain | `run_isolated_episode`, `verify_agent_transcript_against_episode` | episode, endpoint, learning sink | transcript and ledger tell the same story before anything is learned |
| Authority attestation | `gym/authority_attestation.py`, `attested_external.py`, `external_training.py` | consumed challenges | `attest`, `verify` | isolated episode | a challenge verifies once |
| Learners | `gym/adaptive_policy.py`, `on_policy.py`, `negative_experience.py` | Q table, cursors, receipts | `update`, `observe_failed_attempt` | episode results | only evidence of the right kind changes them |
| Curriculum | `gym/curriculum.py` | promotion receipts | `evaluate_stage`, `verify_promotion_chain` | episode results | promotions are earned; the chain commits to its history |
| Private pack | `gym/private_pack.py` | commitments | pack verification | environments | not modelled |
| Environments | `gym/host.py`, `reference_policy.py` | attempts per check, what was done | `reset`, `step`, `semantic_verdict` | local host | emit valid evidence; a guess is not accepted |
| Scripts | `run_*.py`, `validate_baseline.py`, `io.py`, `cli.py`, `build_binary_runtime.py` | none | straight-line | all | the reference runs reach their asserted profile |

The hard behaviours, each listed at its line as a hazard in `PROJECT.json`:

* **Every call may raise.** `run` calls five parties it does not control; the
  finally clause must release the session, keep the first failure, and no path may
  learn from what was not admitted.
* **Budgets meet at their boundary.** Three budgets, tested at different places of
  the loop, in an order that decides how an episode ends; costs are floats, NaN
  included.
* **Two copies of one history.** `run` keeps the episode in its lists and in the
  ledger, and the ledger is replayed by a one-pass verifier.
* **The file system is shared.** The engine reads a directory others write to,
  many times, one system call at a time.
* **Requests to another process** (gateway, endpoints): a reader thread between
  the two, timeouts that race a late answer, repeated and lost replies, a process
  that dies in the middle, two ends that count turns each for itself; over TCP an
  answer read byte by byte, each with a timeout of its own, and an endpoint that is
  poisoned for good.
* **Learning waits for others.** An isolated run learns only after the agent was
  closed, its transcript was bound to the ledger and, in an attested run, a one-time
  challenge was accepted; each of these may fail after the episode was admitted.
* **One learner, many episodes.** A search remembers failures of one task and uses
  them on others; evaluation shares the learner; credit must be given once for each
  admitted episode, in whatever order tasks come, with retries between.
* **Receipts that can be made anew.** Transcripts, training receipts and promotion
  receipts are digests anybody can compute again: what refuses an altered one is what
  it is bound to, not its own digest.

## 2. Modules

| Module | Models |
|---|---|
| `TrajectoryLedger` | `ledger.py`: the entries, each `record_*` method, and `verify_ledger_document` as a fold of its loop body `ScanEntry` over the entries, carrying the loop's locals |
| `LedgerLanguage` | the specification of that verifier, written without its loop: `ChainValid`, `Grammatical`, `Bound`, together `EpisodeRecord` |
| `MCTrajectoryLedger` | a corpus of ledgers and altered copies for TLC |
| `Evidence` | `provenance_valid` and `_tool_cost` |
| `Episode` | `ReferenceGym.run` with one session of `LocalReferenceHost` and the cross-checks of `ProofBundleVerifier`; EXTENDS the ledger and the evidence modules, and checks its own ledger with the modelled verifier |
| `EpisodePromise` | the abstract specification of an episode: a log that grows and is sealed once, one verdict, at most one credit |
| `MCEpisode` | three small instances of `Episode` |
| `DirectoryVerification` | `verify_artifact` over a `DirectorySource`, with processes that write to the directory |
| `MCDirectoryVerification` | small artifacts, contracts and directories |
| `LineChannel` | what `SubprocessHostGateway` and `SubprocessAgentEndpoint` have in common, being copies of each other: the request with its number, the pipes and the write that may block, the reader thread and its queue, the timeout, the terminations, and the child with its faults |
| `HostGateway` | the gateway's methods and the reference private host server over a `LineChannel` |
| `AgentChannel` | the endpoint's methods and the reference worker over a `LineChannel`, with the turns of each session on both ends |
| `ExternalAgent` | `ExternalAgentEndpoint` over a TCP connection, with the reference server's handler and worker |
| `AgentTranscript` | the transcript's entries, its verification alone and against the ledger, and the training receipt of `external_training.py` |
| `Attestation` | requests, signed receipts, the attestor and the verifier's tests |
| `IsolatedEpisode` | `run_isolated_episode` and `run_attested_external_episode`: an instance of `Episode`, played by an agent behind an endpoint, several runs on one endpoint and under one verifier |
| `MCIsolatedEpisode` | a train and a validation task that look the same to the agent |
| `HostEnvironments` | the six environments of `host.py` as functions: `reset`, `step`, what they remember, `semantic_verdict` |
| `Learners` | reference policy and generator, state encoder, intent adapter, Q learner, bounded and negative-aware search, as functions |
| `Curriculum` | which curricula are well formed, `evaluate_stage`, `verify_promotion_chain` |
| `Training` | the reference runs: an instance of `Episode` on `HostEnvironments`, played by `Learners`, retried, taught, evaluated and staged |
| `MCTraining` | the repository's fifteen tasks and its curriculum, and a few beside them |
| `FoldFacts` | what `FoldLeft` computes: its value on the empty sequence, on one more element and on a prefix, and its type; the least-number principle and induction from one number to another, for sets. Instanced for each fold the proofs open: the verifier's loop, the observations and the cost of a ledger, sorting, the replayed calls, what a transcript tells, what a ledger says was done, and a chain made anew |
| `*_proofs` | theorems of the module they name; `Episode_proofs` holds those of the ledger too, `Training_proofs` those of promotion receipts and of the environments, and `ChannelUsers_proofs` those of `HostGateway` and `AgentChannel` |

`Training` and `IsolatedEpisode` compose by `Gym == INSTANCE Episode`: every step of
`run` is a step of `Episode`, conjoined with what the environment, the actor or the
boundary does in the same call.

### How the model corresponds to the code

**Episode.** A step runs from one outside call to the next; `phase` says where
`run` is. `Start` is `host.start`, the construction of the ledger and the reset
budget test (`core.py:383-417`). One turn of the loop is two steps. The first is
`policy.decide` with the recording of the decision and all the refusals that
follow it (`DecideAction`, `SelectionInvalid`, `GenerationRefused`, `Generate`,
`GeneratorRaises`, and the step budget before it); the second is `host.step` with
the recording of its result, the cost test and the done test, in that order
(`HostStep`, `HostRejects`, `HostStepRaises`). `Admit` is everything from the end
of the loop to the receipt: the semantic verdict, asked for under the code's own
condition, provenance, the terminal entry, the ledger's verification and the
bundle. `Learn` and `SinkRaises` are the learning gate, `Close` and `CloseRaises`
the finally clause. Whatever is outside `run` is a choice: decisions from
`Decisions`, observations from `ResetBatches` and `StepBatches`, verdicts,
the outcome of the proof engine on the bundle, and whether a call raises. An
exception sets `failure` to its origin. `action` and `candidate` keep their last
values, as the Python locals do. A task's `max_generative_calls` is the number `run`
makes of it (`None` is 0); `max_tool_cost` may be `None`. Task budgets are those
that `gym/contracts/task_contract.schema.json` allows.

**Ledger.** SHA-256 over canonical JSON is an injective constructor `Sha256(v)`,
so the model says nothing about collisions. Payloads are records; the
`isinstance` tests become "the field is there". The fields that no check reads
(`phase` of a batch, `accepted_candidate`) are left out.

**Directory.** `inodes` is every file that ever existed, `dir` maps a path to one;
a rename over a name gives it a new inode, an in-place write keeps it. A write
stamps the inode with a time of its own, or, with `Stealthy`, may keep the old
one, and `PutBack` gives a name back to an inode that lost it. The verifier's steps
are the file-system calls: `ListNames` (`os.walk` lists one folder), `LstatMember` and
`StatMember`, `OpenFile` (lstat, open, first fstat), `ReadData`, `FinishRead` (second
fstat, size limit, digest comparison, and what the caller does with the bytes).
`Folder` says which folders lead to a path. An inventory begins with the root and lists
a folder when it is through with the members of the one before, the deepest first; it
will list the folders it found there, empty ones too, each at a time of its own, and
passes over one that is gone by then. So files come and go in a folder not yet listed
while members elsewhere are measured.
lstat, open and the first fstat are one step because a write between them is either
seen by the fstat or harmless to it, exactly as a write before or after the step.
`stage` says which caller reads: manifest, hashes, declared checks, or one of the
two inventories and the re-read of `finalize_snapshot`. A `SourceError` inside a
declared check becomes that check's finding, elsewhere it ends the verification;
an lstat of a member that is gone raises out of `verify_artifact`. A declared
check is what it reads and which readings it accepts; a check that would stop
before its second read because the first does not parse is modelled as reading
both and accepting neither, which gives the same finding. `atStart`, `atScan` and
`judged` are history variables: the whole directory when the last inventory began, each
folder when that inventory listed it, and the path and contents each finding was made of.

**Channel.** The caller is one thread, as everywhere in the repository: `call` is
the call under way, and `phase` says whether `_request` is before its write
(`send`), in a write that blocks (`write`), in `queue.get` (`wait`), or between the
`queue.Empty` and the poll that follows it (`expired`), where a late answer may still
arrive. A frame may have 1 MiB (`host_wire.py:11`), more than a pipe holds: one that fits
is written at once (`Send`); the write of a longer one (`BeginWrite`) goes on when the
process has read enough of it (`FinishWrite`), breaks when the process goes away
(`SendFails`), and otherwise waits. Frames that carry something of unbounded size may be
long: a step with its candidate (`WriteCandidate`), and what an agent is shown
(`WriteRequest`). A call on a fresh
gateway spawns the process and sends HELLO first: `asking` is the operation whose
reply is awaited, `op` the one the caller wants. One step is one system call, or
one queue operation with what follows it up to the next. The child, the two pipes and
the reader thread move in between. How a call ends is recorded in `outcomes`:

| result | in the code |
|---|---|
| `ok` | the method returns what the server said |
| `rejected` | `HostActionRejected` of the call's own request: the process goes on |
| `declined` | the same exception out of HELLO or SHUTDOWN, where no caller expects it; out of `shutdown` it leaves the gateway open |
| `failed` | `HostProtocolError` and its subclasses, after the request was sent or because the process is gone |
| `refused` | a wrong argument, a frame too long, or `Popen` raising: nothing was sent |
| `shutdown` | `shutdown` returned |

`Fail(TRUE)` is `_terminate_process` and the raise, `Fail(FALSE)` a raise alone: the
code terminates the process after a timeout, a reply that breaks the protocol or reports
an error and a rejected result, and does not at end of file and on a broken pipe. Within
`shutdown` every such error is swallowed and the gateway closes (`CloseDown`). A
gateway never spawns a second process (`Refused`).

The child is the reference server (`Serve`, the `Worker` actions) that may die at any
moment, and `MaxFaults` times does one of what the client has code for: it
repeats a reply, writes a line that is no message or is too long, never answers,
replaces a result, declines a greeting or a shutdown, or closes its stdout and goes on.
Replaced results are those the client can tell from the right one; a worker
that consistently lies about its own sessions cannot be noticed. What an environment
answers is a function of the steps it took, and stands in the model as their number, so
that a replayed, lost or doubled step shows in every later answer of its session. The
server's `_active_sessions` is left out: it is the key set of its host's table.

**External agent.** As in the channels the controller is one thread and `call` the
call under way; its `stage` is before `_ensure_connected`, before `sendall`, or in
the loop of `recv(1)`. `handshake`, `closed`, `poisoned`, `counter` and `turns` are
the endpoint's attributes, `Poison` is `_poison`. The service's handler serves one
connection with one worker, and may return at any moment. A line is one piece or two,
and more when it is too long; `TimesOut` may happen at any `recv`, for the timeout is
that of a piece and not of the line. A frame that is too long to be encoded raises
after the counter moved and poisons nothing (`FrameTooLong`). `disconnect` does not
ask the service for anything.

**Isolated episode.** `stage` follows the code: `request`, `attest`, `open`, `gym`,
`bind`, `learn`, `over`. The gym is given no sink (`WithheldSink`). `AgentDecides`
and `AgentGenerates` are one call of `run` to the adapter, together with what
`run` makes of the answer; the transcript is written in the same step, as the adapter
does. `Bind` is the pair of cross-checks. What `candidates` holds is
`generated_candidates` of the result. A failing call of the agent may leave the
endpoint unusable, and leaves later runs without it. The verifier's `consumed` and
the endpoint live on from run to run (`NextRun`). Anybody who holds a request may
show receipts to the verifier (`Presented`); what may be shown (`Offers`) is the
attestor's own receipt, those of earlier runs, and receipts with another key,
issuer or context, with changed claims, or out of shape. A MAC names its key.
`lessons` records the runs the sink was given. `number`, the run's number, stands for
its random challenge and for its session.

**Training.** An environment's facts and attempts are a record, and the actions it knows are
`Supported`: any other, and a one-time check asked for twice, raises (`AnswerRaises`); an observation's
probe and lineage are constant, costs are hundredths. The Q value of a pair is the
exact sum of its discounted credits over the number of its visits, as a rational
with a fixed denominator, so the code's comparison within 1e-12 is equality. A
*course* is one runner: the teacher (`run_adaptive_training_reference.py`), the
two searches (`run_on_policy_training_reference.py`,
`run_negative_experience_training_reference.py`), the curriculum
(`run_curriculum_reference.py`), and `anyone`, an arbitrary agent on one task. The
runners take their tasks in one order, and so does the model; only the searches, whose
guesses depend on what came before, meet their train tasks in every order. `guesses` and `credited`
are history variables: what a failed attempt told the search, and what was taught.

## 3. Runs

| Run | Checks | Bounds and why they are enough |
|---|---|---|
| `ledger` | `VerifierDecidesEpisodeRecord`, `AlterationDetected` | six entries: start, batch, two decisions with an answer, terminal, and one more; one observation and the empty batch; every recorded order up to the first fault, every single alteration (payload alone, with its digest, with its own hash; kind; link; drop; swap; duplicate) |
| `evidence` | `AdmissionIsSound`, `CostOverrunWins` | three observations and two steps, so that a third observation could repair what the first two broke; 19 kinds of observation, each breaking one provenance rule, with costs NaN, -1, 0, 1, 2 around a budget of 1 |
| `budget` | `TypeOK`, `WorkStaysInBudget`, `HonestLedgerAccepted`, `LearningGate`, `SessionReleased`, `PrimaryFailureSurvives`, `KeepsPromise`, `EpisodeEnds` | up to three steps and one generative call, so that each budget can be reached, met exactly and overrun; every decision kind, an allowed and a forbidden action, `DEFER` and a single typed deferral; every call may raise |
| `quiet` | `QuietVerdictIsExact` | every directory of up to three files over six contents and one of four, both profiles, no, a matching and another anchor, required or not; sizes on both sides of each of the four limits; no writers |
| `drift` | `PassHoldsInLastInventory` | the manifest in the root, two files in a folder; three mutations anywhere: a file comes before its folder is listed, another is rewritten, and the first goes again, so that inventories that mix two moments occur; timestamps tell |
| `stealth` | `FindingsMatchSnapshot`, `PassHoldsOfIdentity`, `VerificationEnds` | two mutations, timestamps may be kept and files put back; one file that is larger than the others, so that a size can change under a timestamp that does not |
| `late` (a violation) | `LateMutationDetected` | one mutation |
| `gateway` | `LooksLocal`, `FailStop`, `CallsEnd` | three calls: a session is opened and stepped, or a call is lost, and one more is made that finds what was left behind; one fault besides any death of the child; a session number that START may or may not have given out |
| `agent` | `TurnsInOrder` | four calls, one fault, two sessions, so that an answer can be of another turn or of another session |
| `external` | `TurnsInOrder`, `FailStop`, `CallsEnd` | four calls, one fault, two sessions, as in `agent`; a line of at most two pieces, so that a timeout can strike before, within and after it |
| `isolated` | `LearningIsEarned`, `GymFailureSurvivesClose`, `TranscriptTellsEpisode`, `NoSessionBeforeAttestation`, `ChallengeVerifiesOnce`, `RefusalKeepsChallenge`, `TrainingReceiptExact` | two runs, so that what the first leaves behind (endpoint, consumed challenges, receipts) meets the second; two steps, two generative calls and two candidates, so that candidates can be exchanged; a train and a validation task; one misnumbered turn; two receipts verified at most before others stop presenting them |
| `training` | `GuessingIsNotAdmitted`, `NoEvidenceIsLost`, `CreditIsExact`, `TrainedLearnerSolves`, `SearchesSucceed`, `ChainTellsHistory`, `PromotionIsEarned`, `EvaluationIsReadOnly`, `CourseAdvances` | the repository's own tasks, all of them; train tasks in every order for the searches; two attempts, which are too few for some tasks, and six, the runners' default; with six, one proof bundle refused for no fault of its episode, at any moment; the reference curriculum, one with lower thresholds and two that must be refused |

`MaxObservations`, `MaxMutations` and `MaxFaults` bound the environment's
behaviour, never the program's: the host stops observing, the writers stop
writing, the child stops misbehaving (but may always die). `MaxCalls` and
`MaxEpisodes` bound the caller, `MaxVerdicts` the other holders of a receipt. All runs
but `training` allow deadlock, for an episode and a verification end, a corpus is
finite, and a caller stops calling. `training` checks that a course stops only when it
is over.

What they show:

* The ledger verifier and the declarative `EpisodeRecord` agree on every document
  of the corpus, both ways.
* `provenance_valid` and the budget tests together make admission sound: a NaN
  cost passes every budget test, and it is the provenance rule that stops it.
  Negative costs are stopped the same way.
* An honest episode never fails its own verification: every terminal reason that
  blames a decision names the one that is pending in the ledger.
* If `host.close` raises after a successful `learning_sink.update`, `run` raises
  although the learner has learned: `KeepsPromise` allows exactly this. When
  `environment.reset` raises inside `LocalReferenceHost.start`, the session stays
  in the host's table; `SessionReleased` leaves `start` out for that reason.
* With writers that can be seen in timestamps a PASS is true of the files it attests, all
  at once: together they satisfy the whole contract, and they held what was observed
  when the last inventory began, and each again when that inventory listed its folder,
  which then held no other (`PassHoldsInLastInventory`). It need not be true of the whole
  directory at any instant, though `source.py:50` speaks of a linearization point: a file
  the manifest does not list may be in a folder the walk has yet to list, and be removed
  once an attested file that was already measured has been rewritten. In a directory
  without folders that cannot be, and a PASS is linearizable
  (`PassHoldsOfFlatDirectories`). With writers that cannot be seen it still is coherent:
  the whole contract holds of the contents the snapshot identity attests, except
  for the limit on their total size. That limit is tested on what the inventories
  stat, and a file may be larger while it is read than whenever it is measured; the
  limit on each file is tested on the bytes read, and holds.
* It is not true of the instant at which the report is made (`late`). The last
  inventory stats its members one after another, and one that is rewritten after
  its own stat is not noticed, contrary to the comment at `source.py:157-158`.
* To its caller the gateway is a `LocalReferenceHost`: replaying the answered calls
  on a fresh local host gives the same answers, and between calls, until one fails,
  the same sessions (`LooksLocal`). A late or repeated reply never shows, for it
  costs the channel its life (`FailStop`), which is what items 34 of
  `G21_CONTRACT.md` and 61 and 62 of `G23_CONTRACT.md` ask for. This also holds where
  the code does not terminate the process: after end of file the reader is gone, and
  every later call can only time out.
* A call of the gateway ends whatever the child does, with one exception: a live process
  that never reads a frame longer than the pipe blocks the caller for ever, for the write
  at `subprocess_host.py:238` has no timeout, and the endpoint's at `agent_endpoint.py:434`
  has none either. `CallsEnd` says exactly this: a call comes to its end, or from some
  moment on its write is blocked.
* The worker advances a turn before its answer is on the way and the endpoint when
  it has it. They agree again at every return, or the channel is dead (the first half of
  `TurnsInOrder`). The external endpoint keeps this too, although one of its failures,
  the frame too long to send, leaves the connection standing. `CallsEnd` of that
  endpoint holds only because a line has a limit: every piece restarts the timeout.
* Learning from an isolated run needs everything at once (`LearningIsEarned`), and a
  failure after admission, of the close or of the binding, costs the lesson.
  `_verify_episode_binding` never fails in the model: the task of the ledger is the
  object the request was made from. It is a second line of defence.
* A transcript that was altered, chained and numbered anew is refused unless it tells
  the same story (`TranscriptTellsEpisode`). What no test of the code tells apart is
  which of two generative calls on the same observations, one of them refused for the
  budget, a candidate answered: both orders verify, and `Story` leaves it open.
* A training receipt may be downgraded to "nothing to learn" by whoever digests it
  anew; it cannot be turned into another claim to have something to learn
  (`TrainingReceiptExact`).
* Neither `run` nor the isolated run takes back what a sink has done when the sink
  raises afterwards.
* No agent, however it plays, is admitted for a lucky guess on the reference tasks
  (`GuessingIsNotAdmitted`). The searches need at most three attempts on each task and
  the same seven wrong guesses in every order of the tasks, which is the profile
  `run_negative_experience_training_reference.py:130` asserts for one order. When a
  bundle is refused for a fault of its own, neither search moves on.
* Lessons do not unteach one another (`TrainedLearnerSolves`): after every episode of
  a training, in every state an admitted lesson went through the learner still prefers what
  was done there; and after all of them it solves by itself the validation and holdout
  tasks it was never taught. Train tasks
  are not played again, by the runners or in the model: what is checked of them is the
  preference.
* A promotion chain is bound at every receipt but the last: one that was edited and
  stamped again is refused as soon as another follows it.

**Fairness.** `FairSpec` of `Episode` assumes that `run`, one thread of
straight-line code, takes its next step: an outside call answers or raises.
That is an assumption about the parties, not about the code, and `EpisodeEnds` says
that nothing else keeps an episode from ending. `FairSpec` of
`DirectoryVerification` is fair to the verifier only; writers owe nothing.
`VerificationEnds` names the one wait the code has: the `open` of a FIFO put in a
file's place between the inventory and the read. `FairSpec` of `HostGateway` is fair
to the caller's thread alone, which `queue.get` cannot block for good, as it has a
timeout. The write of a long frame has none, and `FinishWrite` is left out of the
fairness. Neither the child nor the reader thread is assumed to run. `FairSpec` of
`ExternalAgent` is fair to the controller in all it does, every `recv` and `sendall` having
a timeout; the service owes nothing. `Training` states no fairness: `CourseAdvances` says
that every step leaves less to do in a well-founded order, and the deadlock check that
there is a step until the course is over; so every course ends.

## 4. Proofs

| Theorem | Says |
|---|---|
| `Episode_proofs!TypeCorrect` | `TypeOK` is invariant |
| `Episode_proofs!BudgetsHold` | steps and generative calls stay within the budgets, and the loop goes on only under the tool-cost budget |
| `Episode_proofs!CostOverrunDecides` | `CostOverrunWins` |
| `Episode_proofs!LearningGated` | `LearningGate` |
| `Episode_proofs!SessionIsReleased` | `SessionReleased` |
| `Episode_proofs!FailureSurvives` | `PrimaryFailureSurvives`, an action property |
| `Episode_proofs!WorkWithinBudget` | `WorkStaysInBudget`: the budgets, counted in the ledger |
| `Episode_proofs!AdmissionSound` | `AdmissionIsSound` |
| `Episode_proofs!HonestLedgersAccepted` | `HonestLedgerAccepted`: a sealed ledger is one the verifier accepts |
| `Episode_proofs!PromiseKept` | `KeepsPromise`: every behaviour of `Episode` is one of `EpisodePromise` |
| `Episode_proofs!VerifierDecides` | the verifier accepts exactly the episode records, for every document |
| `Episode_proofs!RootCommitsToLedger` | two valid chains of any length with the same root digest are equal |
| `Episode_proofs!AlterationRefused` | a document with the root of a valid chain and other entries is refused, for every chain and document |
| `Training_proofs!CheckpointCommitsToChain` | two accepted chains of promotion receipts with the same last checkpoint are equal |
| `Training_proofs!StageExtendsChain` | a stage's receipt extends an accepted chain of promotions, and nothing extends one with a failed stage |
| `Training_proofs!PromotionTakesAll` | under a full threshold, a promotion was made of an admitted, and if required an updating, train episode of every train task, and of validation episodes that taught nothing |
| `Training_proofs!GuessesAreNotAdmitted` | `GuessingIsNotAdmitted`, for every set of tasks and whoever plays |
| `Training_proofs!EvidenceIsAdmissible` | what the environments show satisfies the provenance rules at every moment: the first half of `NoEvidenceIsLost` |
| `Training_proofs!EvaluationReadsOnly` | `EvaluationIsReadOnly`, an action property, for every course |
| `Training_proofs!ChainAlwaysTellsHistory` | `ChainTellsHistory`, for every well-formed curriculum and whatever its episodes bring |
| `Training_proofs!PromotionIsAlwaysEarned` | `PromotionIsEarned`, likewise |
| `Training_proofs!CourseAlwaysAdvances` | `CourseAdvances`, an action property, for every set of tasks, grant and number of refused bundles |
| `DirectoryVerification_proofs!FindingsAreObserved` | `FindingsMatchSnapshot`, for every directory, contract and number of mutations |
| `DirectoryVerification_proofs!PassIsCoherent` | `PassHoldsOfIdentity`, likewise, for stealthy writers too |
| `DirectoryVerification_proofs!PassHoldsOfAttestedFiles` | `PassHoldsInLastInventory`, likewise, for every tree of folders, if no writer is stealthy |
| `DirectoryVerification_proofs!PassHoldsOfFlatDirectories` | in a directory without folders, a PASS is true of the whole directory when the last inventory listed it, if no writer is stealthy |
| `DirectoryVerification_proofs!QuietVerdicts` | `QuietVerdictIsExact`, for every directory, contract, profile, anchor and limit |
| `ChannelUsers_proofs!GatewayFailStop`, `ChannelUsers_proofs!EndpointFailStop` | `FailStop` of each channel, for every number of calls, sessions and faults |
| `ChannelUsers_proofs!GatewayLooksLocal` | `LooksLocal`, for every registry and every number of calls, sessions and faults |
| `ChannelUsers_proofs!TurnsAgree`, `ExternalAgent_proofs!ExternalTurnsAgree` | `TurnsInOrder` of each endpoint, for every number of calls, sessions and faults |
| `ExternalAgent_proofs!ExternalFailStop` | `FailStop` of the external endpoint, for every length of a line as well |
| `IsolatedEpisode_proofs!LearningEarned` | `LearningIsEarned`, for every number of runs |
| `IsolatedEpisode_proofs!FailureTeachesNothing` | a run that raises anything but its sink's failure has taught nothing |
| `IsolatedEpisode_proofs!CloseHidesNothing` | `GymFailureSurvivesClose` |
| `IsolatedEpisode_proofs!ChallengesAreOneTime` | `ChallengeVerifiesOnce` |
| `IsolatedEpisode_proofs!SessionsAreAttested` | `NoSessionBeforeAttestation`, for every number of runs and of receipts shown |
| `IsolatedEpisode_proofs!RefusalsUseNothingUp` | `RefusalKeepsChallenge` |
| `IsolatedEpisode_proofs!TranscriptsTellEpisodes` | `TranscriptTellsEpisode`, for every number of runs, tasks, decisions and candidates |
| `IsolatedEpisode_proofs!TrainingReceiptsExact` | `TrainingReceiptExact`, likewise |

**Episode.** None of the properties is inductive. `LearningGate` needs to know
that a receipt is admitted only if the environment ended the episode within its
budgets (`ReceiptInv`) and that credit is given in one phase (`CreditInv`);
`SessionReleased` and `PrimaryFailureSurvives` need the phases in which there is a
session and a failure (`ExitInv`); `CostOverrunWins` needs that the loop is entered
again only under budget (`WithinBudgets`) and with no verdict set (`LoopInv`). Their
conjunction `EpisodeInv` is inductive, and each theorem follows from it. The
assumptions are those named in the modules: budgets are numbers or `None`
(`TasksAssumption`), decisions have a known kind and, if they act, an action
(`DecisionsAssumption`), batches are sequences of observations
(`BatchesAssumption`), and `None` and `NaN` are distinct from ordinary values.

*The ledger of an episode.* `LedgerInv` relates the ledger `run` writes to the lists it
keeps beside it, and `EpisodeInv /\ LedgerInv` is inductive (`LedgerInvariance`). Its
parts: entries and observations have their shape (`ShapeInv`); the ledger has no
TERMINAL entry until the loop has ended, one when there is a receipt, and none but the last
(`SealInv`); the verifier's loop, run over the ledger so far, has accepted it and
holds its root, its observations and its pending decision (`ScanInv`); what the ledger
observed is what `run` observed (`FrontierInv`); a decision is pending exactly in the
phases between a decision and its result (`PendingInv`); decisions and results are
counted by `stepsTaken` (`CountInv`), results of a candidate bounded by `generativeCalls`
(`CandidateInv`); a result reported as done ends the loop (`DoneInv`); no action is
executed on observations over budget (`CostInv`); the receipt says what the four checks
said (`JudgedInv`), and `run` returns only with a receipt (`ReturnInv`). The parts need
each other: the terminal entry is accepted only if its cause is the pending decision, and
that needs every terminal reason that blames a decision to be set in a phase where one is
pending. Steps that leave the ledger alone are one lemma (`Quiet`), and so are the steps
that record a decision, a result and the terminal entry. `ScanInv` makes
`HonestLedgersAccepted` short, `VerifierDecides` turns it into `EpisodeRecord` for
`AdmissionSound`, and `PromiseKept` follows step by step from all of it. Since the
verifier is a fold over a ledger that grows by `Append`, one step of the fold is enough
for one step of `run`, and no induction on the ledger's length is needed. All of this
assumes that JSON's null is no digest (`NoneIsNoDigest`), a fact about every value, which
TLC cannot enumerate and which is for that reason a hypothesis of the theorems.

**Ledger.** `VerifierDecides` shows, for every document, that the loop of
`verify_ledger_document` and the loop-free `EpisodeRecord` agree. After each prefix the
scan either has accepted it and holds its root, its observations and its pending
decision, or has refused for good; a least prefix at which that fails leads to a
contradiction. `FoldFacts` unfolds a fold from the library's definition of `FoldLeft`,
again with the least-number principle, which follows from the well-foundedness of the
numbers and takes the place of the induction no installed prover can instantiate. The
hypothesis `EntryShaped` is needed: the verifier does not look at what else a raw entry
carries beside its six fields, and `EpisodeRecord` has no such entries.

Entry hashes are injective, and none is the zero hash. If two valid
chains with one root had different lengths or entries, walking back from the root
gives a least distance at which they differ (`LeastNatural`), and the hash of the entry
after it would digest two predecessors. With `VerifierDecides` this gives
`AlterationRefused`, and with `HonestLedgersAccepted` it means that a root in a result
commits to the whole episode.

**Promotion.** A receipt's place in its chain is the index of its stage, so two accepted
chains that end in the same checkpoint have the same length, and walking back they have
the same receipts (`CheckpointCommitsToChain`), by the argument of `RootCommitsToLedger`.
`StageExtendsChain` is the step by which a curriculum keeps its chain accepted, one
stage after another. In `PromotionTakesAll` the rates are shares of numbers of results:
one that is not below `1/1` counts all of them (`FullRate`), and results that match a stage
are one for each of its tasks. The hypotheses are that stages and results are sequences and,
for the first, that a receipt is a record with a checkpoint.

**Training.** The steps of `Next` are those of an episode (`Plays`) and those between
episodes (`Moves`): the first leave the course where it is (`PlaysKeeps`), and of what
`run` knows they do one of five things (`PlayCases`); the second begin an episode or end
the course (`Entering`). Three invariants are inductive together (`CourseHolds`), for each
needs the others:

* `CourseInv`: what a course is about. Only a curriculum's course has a curriculum, a chain
  and results, it is never evaluated, and the curriculum is well formed.
* `RunInv`: what `run` knows in each phase. The sink is given exactly in the train part; an
  episode that returns has a receipt; it has updated exactly if it was creditable, and then
  its task is among those credited (`Taught`).
* `StageInv`: a stage has run its plan so far. The chain is accepted, each of its receipts is
  its own stamp, and a promoted one that demanded every train task has them all credited;
  while the course goes on, every earlier stage was promoted, the current task is the next of
  the plan, and the results are those of the tasks before it, with no update but of an
  admitted train episode (`Tells`).

`EvaluationIsReadOnly` follows from the second: no sink is given outside the train part, and
a search is only told of failures in it. `ChainTellsHistory` needs that a receipt's place is
the index of its stage (`ChainInOrder`), so one left out or exchanged is out of order, and
that an edited receipt that was stamped again has another checkpoint than its successor names,
since a checkpoint fixes its receipt. `PromotionIsEarned` needs that the two halves of a
plan's results match the stage at its end (`StageEvidence`, `TellingMatches`), and counts:
evidence with a result less or more has the wrong length, and a stage that requires updates has a
rate below its threshold with one missing (`FewerHave`). `CourseAdvances` goes through
the steps, each of which lowers one of six counters and keeps those before it
(`FirstDecides`).

*What the environments show.* `SightInv` says that an environment that remembers anything, or
judges right, has shown what that rests on: its process, its authority, a failing test, a
passing regression. It is not enough to look at the verdict, since an earlier step's memory
makes a later one right; and the memory is never more than what was observed, because an
observation and what it leaves behind are one answer (`AnswerShows`, from a lemma for each
environment). An action that raises, a repeated one-time check among them, may change the
environment, but ends the episode. With it `GuessingIsNotAdmitted` is inductive.
`NumberInv` says that an environment's counters are ahead of the attempts it has shown and its
sequence number is the number of observations; the provenance rules follow from it.

The assumptions are that tasks are finitely many, with budgets that are numbers and distinct
identifiers; that the lists of a curriculum are sequences (`CurriculaAssumption`); that grants
are positive; that null is no receipt, failure or curriculum (`NoneAssumption`), that a cost
that is not a number is not an integer and a blank identifier is none of the environments'
(`EvidenceAssumption`). TLC checks all five invariants on the instance of `training`; no run
needs them, so its configuration does not list them.

**Directory.** `judged` grows only in the step that also records the first
observation of the path, or finds it equal (`ReadAccepted`), and `observed` never
changes where it is defined (`SetDefault`); the lemma `Observation` says so of every
step.

*A PASS is coherent.* The verdict is made of reads far apart, so the invariant says at
each stage what the reads so far have established of `observed` and what `todo` still
owes. `IdentityInv`: while nothing has failed, the manifest in hand is what the observed
manifest parses to, anchored and covering (`ManifestInv`); each declared file is still to
be hashed or has an accepted digest (`HashesInv`); each check before the current one holds
of the observed contents (`ChecksInv`), whose reads so far are the observed contents of the
paths it names, in order (`ReadingsInv`); each file of the first inventory is still to be
read again or observed, so that at the end all are (`RereadInv`). It rests on `ShapeInv` and
`ControlInv`: types, and what may be listed, open or left to read at each stage. The
directory itself is not mentioned, and this is why no writer can break it. It needs that
sorting a set of paths gives a sequence of exactly these (`SortedPaths`), which `FoldFacts`
gives for the fold that sorts.

*It is true of the last inventory.* `InstantInv` adds what timestamps tell. Every stamp seen
is one already given (`StampsInv`), so a file whose stamp is still that of the first
inventory has not been written to, and holds what was observed (`ObservedInv`). While the
last inventory runs, a file that is as it was in the first, and one measured and found as
it was, held what was observed when that inventory began, and, once its folder is listed,
when it was listed (`ListedInv`): the writers can only take that away, for a new stamp and a
new inode are never those of the first inventory (`WriterStamps`). Between its lstat and its
stat a member may become a symlink, but what stat then reports has the inode of a regular
file only if the member is that file. When the inventory agrees with the first, all its
files are of the second kind, and every name it listed is among them. Of a folder below the
root nothing is said before it is listed, and nothing more can be: the theorem about whole
directories has its extra hypothesis for that. Both theorems assume `~Stealthy`; without it
they are false.

*Without writers.* The direction that is missing is that a verification fails only where the
contract does. `QuietInv` says that what the verifier knows is what the directory holds,
and that a failure, once there, is deserved: a file too large, a missing manifest, a digest,
coverage or check that does not hold. Here it matters that a check reads declared files
only, which coverage has found present.

The assumptions are those named in the module: `PathOrder` lists the paths, `Folder` gives
each the sequence of folder names that lead to it, sizes and limits
are numbers, the directories given are maps from paths to contents, `None` is neither
contents nor a sequence of them, and what `Parse` returns has the shape `manifest.py` lets
through: checks read files the manifest declares (`_declared_path`), and it does not declare
itself. TLC checks `IdentityInv` on the instance of `stealth`, `InstantInv` on those of
`drift` and `quiet`, and `QuietInv` on that of `quiet`; none of the three is needed by a run,
so no configuration lists them.

**Channels.** A channel is `Dead` when it is closed, or its process can no longer
serve a new request, or its reader is done and its queue empty. `ChannelInv` says
that a channel in which a call has failed is dead, and what that needs: the end of
file is the last line a reader ever queues (`QueueInv`), a line too long the last it
reads (`LinesInv`), a call under way has a process (`CallInv`). A dead channel
receives nothing (`DeadSilence`) and stays dead (`DeadStep`), and a step that records an
answer receives something (`OutcomeStep`). `ChannelStep` is proved once for all
actions of `LineChannel`; the two theorems only show that the steps of their modules are
such steps (`GatewayStep`, `EndpointStep`). The only assumption is that `MaxCalls` and
`MaxFaults` are numbers.

`TurnsInOrder` needs to know where the last request is. `SerialInv` of `LineChannel` says
so of every sound channel: with the child, being served, or answered or lost, and the
only reply with its number is the one to it (`OneRequest`); the proof is one for both
users of the module (`SerialStep`). On it rests `TurnsInv`: what the worker knows is what
the endpoint knows, or will know if it accepts the reply on its way (`Settles`), whatever
was put in its place; turns are counted by their answers (`CountInv`), and no session
number is used twice (`NumberedInv`). `TurnsCounted` and `DueTurn` say what one more
outcome adds to a session's turns. The assumption is that `None` is not the record of a
call.

`LooksLocal` rests on `SerialInv` as well. `HostInv` says that the host replayed from the
answered calls (`Replay`, a fold that one more answer unfolds once, `ReplayAppend`) is the
server's host while nothing is on its way, and otherwise what each reply to the last
request, should it be accepted, makes of it (`Tells`). A declined shutdown breaks the
equality: it has closed the server's sessions and the channel goes on. What survives is
that the server has no session that the replay has not (`Like`), and then it still
answers nothing that the replay would not (`AlikeAnswers`), so that later answers agree
too.

**External agent.** `FailStopInv` adds to `FailStop` that an endpoint in which a call
has failed is closed or poisoned, and that a closed or poisoned endpoint has no call
past `_ensure_connected`. Poisoning is never undone, so no later call is answered.
The lemma `OutcomeKept` covers every way a call can end; the actions only show
which one is theirs. The assumption is that the bounds are numbers.

`TurnsInOrder` cannot be proved as that of the subprocess is, for here an accepted but
spoiled answer may leave the endpoint with a session the worker does not know. `TurnsInv`
counts on the worker's side instead: its turn of a session is one more than the answers
so far, and two more while the answer to a turn is on its way (`CountInv`), and that
answer is the next of its session or is not accepted (`DueInv`). Only where nothing was
spoiled do both ends agree (`AgreementInv`). The requests' numbers are not needed: an
endpoint gives up its connection with the first request that is not answered, so an
answer on the line is to the request that waits (`LineInv`). The assumption is that `None`
is not the record of a call or an answer.

**Isolated episode.** `LearningIsEarned` speaks of the end of a run, and what it needs
was established stages before. `IsolatedInv` carries it along: the gym has no sink, so
it can never teach, and what it returned has not failed (`GymInv`); what each stage has
behind it, up to a bound transcript and an accepted request before learning
(`StageInv`); a challenge that verified is consumed, and the run's own request has the
run's number (`AttestationInv`); earlier lessons are of earlier runs (`LessonsInv`). The
steps of `run` inside are handled as one case (`InsideGym`), for only their effect on
`updates`, `failure` and `outcome` matters. Transcript verification, the ledger and
signatures stay opaque. The assumption is that `None` is no failure's name.

The attestation needs signatures opened. Of everything the verifier may be shown
for a run's request (`Offers`), it accepts the attestor's receipts (`OwnReceiptVerifies`)
and nothing else (`VerifiedIsOwn`): what was signed is what the receipt shows
(`ReceiptOf`), a MAC names its key and its payload, and receipts of earlier runs carry
earlier challenges. `AttestedInv` adds to `IsolatedInv` that a run whose session exists
has made its own request and had it accepted (`SessionInv`), and that a challenge is used
up by an accepted receipt alone, which is the attestor's (`VerdictInv`). TLC checks it on
the instance of `isolated`. The hypotheses (`Unforgeable`) are that the attestor's key is
not the other one and that null is neither a digest, a MAC, a challenge nor a context:
that MACs cannot be forged is how the model takes them, not something it shows.

*A transcript tells its episode.* There are three records of one conversation: the
transcript the controller chains, the ledger the gym chains, and the lists of `run`. That
they agree when the run is bound needs to hold all along, and `BoundInv` adds it to
`AttestedInv`: the transcript is a chain of a session's start, turns and, at the end, its
close, each entry with the fields of its kind (`RecordedInv`); its turns count up exactly if
the agent misnumbered none (`NumberedInv`); its generations count up and answer the call
before them (`SpokenInv`); the decisions it tells are those the ledger has, and its
generations, the gym's candidates and the candidates the ledger acted upon are the same,
but for one that is about to be acted upon (`AgreedInv`); the phases of the gym in which
this has begun, or may have failed (`PhaseInv`); a receipt says what admission means
(`JudgedInv`). `Told` and `Done`, what a transcript tells and what a ledger says was done,
are folds, so a step that appends one entry to each opens each fold once. At the binding
the parts are what the verifier asks (`HonestIsBound`), unless a turn was misnumbered, and
then it refuses (`BoundIsHonest`). TLC checks `BoundInv` on the instance of `isolated`.

For the altered transcripts, two transcripts bound to one episode are compared. Both have as
many decisions as the ledger and as many generations as the episode has candidates, and one
start and one close, so they have the same length (`BoundLengths`): nothing was left out or
repeated. Decisions agree in what they decide, on what observations and after which actions,
for the ledger says so; generations agree in their candidates (`BoundStories`). What is left
are the observations a generation was made on: they are those of the decision before it, so
they agree where the kinds of entries do (`SameKindsSameFrontiers`), and where two entries
were exchanged they are compared one by one (`SwappedTold`).

The assumptions are what `agent_wire.py` lets through (`WireAssumption`): a selection, and no
other decision, names an action, and null is no candidate; and that `None` is no failure's
name and no receipt (`GymAssumption`). `TrainingReceiptExact` follows from
`JudgedInv`: a positive receipt needs the semantic verdict that a negative one must not have,
and the receipt's digest is over its other fields.

**Only model-checked.** Liveness (`EpisodeEnds`, `VerificationEnds`, `CallsEnd`), which
is out of the prover's reach. The properties of `ledger` are of a corpus, and
`VerifierDecides` and `AlterationRefused` say the same of all ledgers and documents. Of
`training`: `TrainedLearnerSolves` and `SearchesSucceed` are about the concrete tasks, whose
attempts, guesses and orders TLC goes through and no theorem could generalise; `CreditIsExact`
sums over a set, and that such a sum does not depend on the order needs an induction over sets
with an operator for a parameter; that every admitted train episode has a decision to learn from,
the second half of `NoEvidenceIsLost`, is about what `SelectSeq` leaves of a trace, which
is defined by recursion.

## 5. Not modelled

* **ZIP source.** After its constructor it is a fixed map of names to bytes read from
  one handle, and verification over it is `DirectoryVerification` without writers. The
  constructor tests single fields of a member table.
* **Manifest, paths, value binding.** Validation of JSON shapes, of path strings
  character by character, and decimal comparison of texts. What they decide enters
  `DirectoryVerification` as the constants `Parse` and the accepted readings of a check.
* **Private pack.** A loader that reads each file once, compares digests and shapes, and
  returns a value or raises. There is no state and no order of steps to explore.
* **Command line, packaging, file loading, reports.** No state.
* **Folders as such.** Files come and go in folders; a folder that is renamed, or replaced
  by a symlink or a file, is not modelled.
* **Within modelled parts.** Hash collisions and broken MACs; the contents of SQLite
  files, nested ZIPs and JSON documents; the wording of findings and reasons; reward
  channels; the temporary directory in which the bundle is written; the digests of
  policies and memories in result documents; the repository environment's five-second
  subprocess timeout; several sessions in one local host; several threads in one
  gateway, whose lock covers the write alone (no caller in the repository has two);
  the drained stderr; `LocalReferenceAgentEndpoint`, the sessions of the worker without
  a process; the server's accept loop, which serves connections that share nothing.

## 6. Plan

Of the code, `LocalReferenceAgentEndpoint` as the abstract specification of both
endpoints would be next: `TurnsInOrder` would then follow from a refinement. Of the
proofs, that an admitted train episode always leaves the adaptive learner an experience would
add most: it needs, beside `SightInv`, that the actions an environment rewards have an intent and
the states they are taken in a code, and a fold in the place of `SelectSeq`.
