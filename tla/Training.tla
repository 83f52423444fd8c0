------------------------------- MODULE Training -------------------------------
(***************************************************************************)
(* The gym put to use: episodes of Episode, on the environments of         *)
(* HostEnvironments, played by the actors of Learners, one after another.  *)
(* A course is one way the repository runs them: any agent on one task     *)
(* ("anyone"), the reference policy teaching the adaptive learner          *)
(* ("teacher"), the bounded search ("bounded") or the negative-aware one   *)
(* ("negative") training it, each between two evaluations of the learner,  *)
(* which then plays for itself, and the staged curriculum ("curriculum").  *)
(***************************************************************************)
EXTENDS HostEnvironments, Learners, Curriculum

CONSTANTS NaN, Blank,      \* see Evidence
          Tasks,           \* every task of the run, with its scenario
          Courses,         \* the courses that are run
          Curricula,       \* the curricula that may be run
          Decisions,       \* what an arbitrary agent may decide
          Grants,          \* the trainers' max_attempts_per_task
          MaxFaults        \* bound: proof bundles refused for no fault of the episode

Searches == {"bounded", "negative"}

\* The courses of the adaptive learner.
Trainings == {"teacher"} \cup Searches

\* Parts in which the learner is evaluated: no learning sink is given.
Evaluations == {"before", "after"}

Of(split) == {t \in Tasks : t.split = split}

Registry == [id \in {t.task_id : t \in Tasks} |-> CHOOSE t \in Tasks : t.task_id = id]

ASSUME GrantsAssumption == Grants \subseteq Nat \ {0}

ASSUME TasksAssumption ==
    /\ IsFiniteSet(Tasks)
    /\ \A t \in Tasks : t.max_steps \in Nat

\* A stage's tasks are lists, and the stages are one.
ASSUME CurriculaAssumption ==
    \A c \in Curricula :
        /\ c.stages \in Seq(ToSet(c.stages))
        /\ \A i \in DOMAIN c.stages :
            /\ c.stages[i].train \in Seq(ToSet(c.stages[i].train))
            /\ c.stages[i].validation \in Seq(ToSet(c.stages[i].validation))

ASSUME RegistryAssumption ==
    \A t, u \in Tasks : t.task_id = u.task_id => t = u

VARIABLES
    \* of the episode: see Episode
    task, generator, sink, phase, session, observations, trajectory, action, candidate,
    generativeCalls, stepsTaken, done, budgetExhausted, terminalReason, cause, ledger,
    receipt, updates, failure, outcome,
    \* of the host
    env,          \* the session's environment
    \* of the learner and the searches
    q,            \* the Q table: [visits, total] of a <<state, intent>> pair
    cursor,       \* the search cursor of a state
    rejections,   \* the typed rejections of a pair
    guesses,      \* how often a pair was the subject of a search or negative receipt
    \* of the runner
    course,
    granted,      \* max_attempts_per_task of this run
    pending,      \* tasks of this part of the course not yet begun
    part,         \* "before", "train", "after" or "over"
    attempt,      \* attempts at the current task
    solved,       \* train tasks admitted so far
    credited,     \* what the sink was given: <<task_id, experiences>>
    faults,
    \* of the curriculum
    curriculum, results, chain

episode == <<task, generator, sink, phase, session, observations, trajectory, action,
             candidate, generativeCalls, stepsTaken, done, budgetExhausted, terminalReason,
             cause, ledger, receipt, updates, failure, outcome>>
learning == <<q, cursor, rejections, guesses>>
progress == <<course, granted, pending, part, attempt, solved, curriculum, results, chain>>
vars == <<episode, env, learning, progress, credited, faults>>

Gym == INSTANCE Episode WITH
    ResetBatches <- {}, StepBatches <- {}, Candidates <- {}, MaxObservations <- 20

\* What is no number, and no identifier of an observation.
ASSUME EvidenceAssumption == NaN \notin Int /\ Blank \notin Checks \cup {"lineage"}

\* None is none of the things it is compared with.
ASSUME NoneAssumption == None \notin Gym!Receipts \cup Gym!Failures \cup Curricula

-----------------------------------------------------------------------------
(* Who plays, and what it plays for *)

Actor ==
    CASE course = "curriculum" -> "teacher"
      [] part \in Evaluations  -> "learner"
      [] OTHER                 -> course

\* What the current actor may decide.
Proposals ==
    CASE Actor = "anyone"   -> Decisions
      [] Actor = "teacher"  -> {ReferenceDecide(task, observations)}
      [] Actor = "learner"  -> {LearnerDecide(q, task, observations)}
      [] Actor = "bounded"  -> {BoundedDecide(q, cursor, task, observations)}
      [] Actor = "negative" -> {NegativeDecide(q, rejections, task, observations)}

Generated ==
    IF Actor = "anyone" THEN {"key=guess", "key=stable-42"}
    ELSE {ReferenceGenerate(generativeCalls + 1)}

Stage == curriculum.stages[Len(chain) + 1]

StagePlan == Stage.train \o Stage.validation

Evaluated == Of("validation") \cup Of("holdout")

\* The tasks that may be next.  The runners go through theirs in one order, and
\* so do the teacher and the evaluations; the searches, whose guesses depend on
\* what came before, meet their train tasks in every order.
Upcoming(tasks, inPart) ==
    IF tasks = {} \/ (course \in Searches /\ inPart = "train")
    THEN tasks ELSE {CHOOSE t \in tasks : TRUE}

\* Attempts for three guesses and for the refused bundles.
Enough == granted >= 3 + MaxFaults

\* The gym's learning sink during this part of the course.
SinkGiven == part = "train"

FreshEpisode(t) ==
    /\ task' = t
    /\ sink' = SinkGiven'
    /\ generator' = TRUE
    /\ phase' = "start" /\ session' = "none" /\ outcome' = "running"
    /\ observations' = <<>> /\ trajectory' = <<>> /\ ledger' = <<>>
    /\ action' = None /\ candidate' = None /\ terminalReason' = None /\ cause' = None
    /\ receipt' = None /\ failure' = None
    /\ generativeCalls' = 0 /\ stepsTaken' = 0 /\ updates' = 0
    /\ done' = FALSE /\ budgetExhausted' = FALSE
    /\ env' = NewEnvironment(t)

Init ==
    /\ course \in Courses
    /\ granted \in Grants
    /\ (course \notin Searches) => granted = Max(Grants)
    /\ curriculum \in IF course = "curriculum"
                      THEN {c \in Curricula : CurriculumWellFormed(c) /\ TasksFit(c, Registry)}
                      ELSE {None}
    /\ chain = <<>>
    /\ results = <<>>
    /\ task \in CASE course = "curriculum" -> {Registry[StagePlan[1]]}
                  [] course = "anyone"     -> Tasks
                  [] OTHER                 -> Upcoming(Evaluated, "before")
    /\ part = IF course \in Trainings THEN "before" ELSE "train"
    /\ pending = IF course \in Trainings THEN Evaluated \ {task} ELSE {}
    /\ generator = TRUE
    /\ sink = SinkGiven
    /\ Gym!Init
    /\ env = NewEnvironment(task)
    /\ q = <<>> /\ cursor = <<>> /\ rejections = <<>> /\ guesses = <<>>
    /\ attempt = 1
    /\ solved = {}
    /\ credited = {}
    /\ faults = 0

-----------------------------------------------------------------------------
(* One episode, on its environment *)

Opened ==
    /\ ScenarioValid(task)
    /\ Gym!Start(ResetObservations(env))
    /\ env' = Reset(env)
    /\ UNCHANGED <<learning, progress, credited, faults>>

\* create_environment refuses the task.
Unopened ==
    /\ ~ScenarioValid(task)
    /\ Gym!StartRaises
    /\ session' = "none"
    /\ UNCHANGED <<env, learning, progress, credited, faults>>

OutOfSteps ==
    /\ Gym!StepBudgetExhausted
    /\ UNCHANGED <<env, learning, progress, credited, faults>>

Decide ==
    /\ phase = "loop"
    /\ \E d \in Proposals :
        \/ Gym!DecideAction(d)
        \/ Gym!SelectionInvalid(d)
        \/ Gym!GenerationRefused(d)
        \/ \E c \in Generated : Gym!Generate(d, c)
    /\ UNCHANGED <<env, learning, progress, credited, faults>>

Response == EnvironmentStep(env, action, candidate)

Answered ==
    /\ phase = "step"
    /\ Gym!ActionAllowed(task, action)
    /\ Supported(env, action)
    /\ ~Repeats(env, Response.seen)
    /\ Gym!HostStep(<<Observation(env, Response.seen)>>, Response.done)
    /\ env' = Noted(Response.env, Response.seen)
    /\ UNCHANGED <<learning, progress, credited, faults>>

\* The environment does not know the action, or a one-time check is asked for
\* again: its attempt does not increase, and what it notes before the
\* observation is refused, it had noted the first time.
AnswerRaises ==
    /\ phase = "step"
    /\ Gym!ActionAllowed(task, action)
    /\ Supported(env, action) => Repeats(env, Response.seen)
    /\ Gym!HostStepRaises
    /\ UNCHANGED <<env, learning, progress, credited, faults>>

Rejected ==
    /\ Gym!HostRejects
    /\ UNCHANGED <<env, learning, progress, credited, faults>>

\* The bundle is verified as it is, or refused for a fault of its own: where
\* attempts are too few anyhow, the bound is no fault.
Judge ==
    /\ \/ Gym!Admit(Gym!AsksVerdict /\ env.semantic, TRUE) /\ UNCHANGED faults
       \/ /\ faults < MaxFaults /\ Enough
          /\ faults' = faults + 1
          /\ Gym!Admit(Gym!AsksVerdict /\ env.semantic, FALSE)
    /\ UNCHANGED <<env, learning, progress, credited>>

\* The sink of a curriculum only counts; the others are the adaptive learner,
\* whose update raises on an episode without a learnable decision.
Teaches == Gym!Creditable /\ course # "curriculum"

Lesson == Experiences(task.domain, ledger)

\* Faulty: the learner is updated before the gym looks at the split.
LearnsAlways ==
    /\ Gym!Learn
    /\ Teaches => Lesson # <<>>
    /\ q' = IF receipt.admitted THEN Credited(q, Lesson) ELSE q
    /\ credited' = IF Gym!Creditable THEN credited \cup {<<task.task_id, Lesson>>} ELSE credited

Learns ==
    /\ Gym!Learn
    /\ Teaches => Lesson # <<>>
    /\ q' = IF Teaches THEN Credited(q, Lesson) ELSE q
    /\ credited' = IF Gym!Creditable THEN credited \cup {<<task.task_id, Lesson>>} ELSE credited

Learn ==
    /\ Learns
    /\ UNCHANGED <<env, cursor, rejections, guesses, progress, faults>>

Close ==
    /\ Gym!Close
    /\ UNCHANGED <<env, learning, progress, credited, faults>>

-----------------------------------------------------------------------------
(* Between episodes *)

Ended == phase = "end" /\ part # "over"

EpisodeResult ==
    [domain |-> task.domain, entries |-> ledger, receipt |-> receipt,
     budget_exhausted |-> budgetExhausted, terminal_reason |-> terminalReason]

\* observe_failed_attempt or observe_negative_attempt.
\* Faulty: the cursor is left where it is.
ObserveUnmoved ==
    LET guess == IF course = "bounded" THEN FailedGuess(q, EpisodeResult)
                 ELSE Rejection(EpisodeResult)
    IN  /\ UNCHANGED <<cursor, rejections>>
        /\ guesses' = IF guess = None THEN guesses ELSE CountUp(guesses, guess)

Observe ==
    LET guess == IF course = "bounded" THEN FailedGuess(q, EpisodeResult)
                 ELSE Rejection(EpisodeResult)
    IN  /\ cursor' = IF course = "bounded" /\ guess # None
                     THEN CountUp(cursor, guess[1]) ELSE cursor
        /\ rejections' = IF course = "negative" /\ guess # None
                         THEN CountUp(rejections, guess) ELSE rejections
        /\ guesses' = IF guess = None THEN guesses ELSE CountUp(guesses, guess)

Searching == course \in Searches /\ part = "train"

\* The trainer tries the same task again.  Faulty: the attempt is not counted.
RetryUncounted ==
    /\ Ended
    /\ outcome = "returned"
    /\ Searching
    /\ ~receipt.admitted
    /\ attempt < granted
    /\ Observe
    /\ UNCHANGED <<q, attempt, course, granted, pending, part, solved, curriculum, results, chain,
                   credited, faults>>
    /\ FreshEpisode(task)

Retry ==
    /\ Ended
    /\ outcome = "returned"
    /\ Searching
    /\ ~receipt.admitted
    /\ attempt < granted
    /\ Observe
    /\ attempt' = attempt + 1
    /\ UNCHANGED <<q, course, granted, pending, part, solved, curriculum, results, chain, credited,
                   faults>>
    /\ FreshEpisode(task)

\* The runner is done with the task: it is solved, or given up.
Concludes ==
    /\ Ended
    /\ outcome = "returned"
    /\ course # "curriculum"
    /\ Searching => receipt.admitted \/ attempt = granted
    /\ IF Searching /\ ~receipt.admitted THEN Observe
       ELSE UNCHANGED <<cursor, rejections, guesses>>
    /\ solved' = IF task.split = "train" /\ receipt.admitted
                 THEN solved \cup {task.task_id} ELSE solved
    /\ attempt' = 1
    /\ UNCHANGED <<q, course, granted, curriculum, results, chain, credited, faults>>

NextTask ==
    /\ Concludes
    /\ UNCHANGED part
    /\ \E t \in Upcoming(pending, part) : pending' = pending \ {t} /\ FreshEpisode(t)

\* The learner is evaluated, trained and evaluated again.
NextPart ==
    /\ Concludes
    /\ pending = {} /\ course \in Trainings
    /\ \/ part = "before" /\ part' = "train"
       \/ part = "train" /\ part' = "after"
    /\ LET tasks == IF part' = "train" THEN Of("train") ELSE Evaluated IN
       \E t \in Upcoming(tasks, part') : pending' = tasks \ {t} /\ FreshEpisode(t)

Finish ==
    /\ Concludes
    /\ pending = {} /\ (part = "after" \/ course = "anyone")
    /\ part' = "over"
    /\ UNCHANGED <<episode, env, pending>>

\* An exception of run leaves the runner.
Abort ==
    /\ Ended
    /\ outcome = "raised"
    /\ part' = "over"
    /\ UNCHANGED <<episode, env, learning, course, granted, pending, attempt, solved, curriculum,
                   results, chain, credited, faults>>

-----------------------------------------------------------------------------
(* The curriculum *)

StageResult ==
    [task_id |-> task.task_id, split |-> task.split, accepted |-> receipt.admitted,
     learning_updated |-> updates > 0, budget_exhausted |-> budgetExhausted]

\* The runner keeps the results of a stage in two lists.
TrainResults(all) == SubSeq(all, 1, Len(Stage.train))
ValidationResults(all) == SubSeq(all, Len(Stage.train) + 1, Len(all))

StageReceipt(all) ==
    EvaluateStage(curriculum, Stage, TrainResults(all), ValidationResults(all),
                  PreviousCheckpoint(chain, Len(chain) + 1))

InStage ==
    /\ Ended
    /\ outcome = "returned"
    /\ course = "curriculum"
    /\ UNCHANGED <<learning, course, granted, pending, attempt, solved, curriculum, credited, faults>>

NextOfStage ==
    /\ InStage
    /\ Len(results) + 1 < Len(StagePlan)
    /\ results' = Append(results, StageResult)
    /\ UNCHANGED <<part, chain>>
    /\ FreshEpisode(Registry[StagePlan[Len(results) + 2]])

\* The stage's last result: it is evaluated, and promotes to the next or ends.
EndOfStage ==
    /\ InStage
    /\ Len(results) + 1 = Len(StagePlan)
    /\ results' = <<>>
    /\ chain' = Append(chain, StageReceipt(Append(results, StageResult)))
    /\ IF chain'[Len(chain')].promoted /\ Len(chain') < Len(curriculum.stages)
       THEN UNCHANGED part /\ FreshEpisode(Registry[StagePlan'[1]])
       ELSE part' = "over" /\ UNCHANGED <<episode, env>>

\* A course that is over; in any other state a deadlock would be a fault.
Over ==
    /\ part = "over"
    /\ UNCHANGED vars

Next ==
    \/ Opened \/ Unopened \/ OutOfSteps \/ Decide \/ Answered \/ AnswerRaises \/ Rejected
    \/ Judge \/ Learn \/ Close
    \/ Retry \/ NextTask \/ NextPart \/ Finish \/ Abort
    \/ NextOfStage \/ EndOfStage
    \/ Over

Spec == Init /\ [][Next]_vars

-----------------------------------------------------------------------------
(* Properties *)

Settled == receipt # None

Saw(check, status) ==
    \E i \in DOMAIN observations :
        observations[i].check_id = check /\ observations[i].status = status

(* A right answer that was only guessed is not admitted: whatever agent    *)
(* plays, an admitted selection follows the inspection of the authorities, *)
(* an admitted restart or retry that of the process, an admitted repair a  *)
(* failing test and a passing regression.                                  *)
GuessingIsNotAdmitted ==
    Settled /\ receipt.admitted =>
        CASE task.class = "cli"        -> Saw("process-state", "PASS") \/ Saw("process-state", "FAIL")
          [] task.class = "data"       -> Saw("provenance", "PASS")
          [] task.class = "config"     -> Saw("config-origin", "PASS")
          [] task.class = "repository" -> Saw("targeted-test", "FAIL") /\ Saw("regression", "PASS")
          [] task.class = "generative" -> Saw("generated-candidate", "PASS")
          [] OTHER                     -> Saw("defer", "PROOF_CLOSED")

(* No evidence is lost on its way to the learner.  The environments never  *)
(* produce what the provenance rules refuse, however an agent repeats,     *)
(* reorders or cuts short its actions; and an update of the adaptive       *)
(* learner never raises over an episode the gym admitted.                  *)
NoEvidenceIsLost ==
    /\ Gym!ProvenanceValid(observations)
    /\ phase = "learn" /\ Teaches => Lesson # <<>>

(* The Q table is exactly the discounted credit of the admitted train      *)
(* episodes, each counted once, whatever was tried, refused, retried or    *)
(* evaluated in between.                                                   *)
CreditIsExact ==
    course # "curriculum" =>
        /\ DOMAIN q = UNION {ToIds(c[2]) : c \in credited}
        /\ \A pair \in DOMAIN q :
            LET at(c) == {n \in DOMAIN c[2] : c[2][n] = pair}
                earned(c) == FoldSet(LAMBDA n, sum : sum + Discounted(Len(c[2]) - n), 0, at(c))
            IN  q[pair] =
                    [visits |-> FoldSet(LAMBDA c, sum : sum + Cardinality(at(c)), 0, credited),
                     total  |-> FoldSet(LAMBDA c, sum : sum + earned(c), 0, credited)]

(* Lessons do not unteach one another: in every state an admitted lesson   *)
(* went through, the learner prefers what that lesson did there, on its    *)
(* task, whatever lessons of other tasks and domains came before or after; *)
(* and after every train task it solves every validation and holdout task  *)
(* by itself.                                                              *)
TrainedLearnerSolves ==
    /\ course \in Trainings /\ phase = "end" =>
        \A c \in credited : \A n \in DOMAIN c[2] :
            BestIntents(q, c[2][n][1], Registry[c[1]]) = {c[2][n][2]}
    /\ /\ part = "after"
       /\ solved = {t.task_id : t \in Of("train")}
       /\ phase = "end" /\ Settled /\ receipt.integrity_valid
       => receipt.admitted

(* The searches waste nothing and give nothing up.  A wrong guess is made  *)
(* once, what one task ruled out is not tried again on another, and what   *)
(* was taught is never rejected, also when bundles are refused for faults  *)
(* of their own.  Given enough attempts, every train task is solved in at  *)
(* most three, half of what the trainers grant, and one more for every     *)
(* refused bundle; and seven wrong guesses and nine admitted episodes lead *)
(* to the same eleven pairs in whatever order the tasks come: the profile  *)
(* the reference runs assert for one order.                                *)
SearchesSucceed ==
    /\ \A pair \in DOMAIN guesses : guesses[pair] = 1 /\ pair \notin DOMAIN q
    /\ course \in Searches /\ Enough =>
        /\ attempt <= 3 + faults
        /\ part = "after" =>
            /\ solved = {t.task_id : t \in Of("train")}
            /\ Cardinality(DOMAIN guesses) = 7
            /\ Cardinality(DOMAIN q) = 11
            /\ Cardinality(credited) = 9

(* Evaluation teaches nothing: while the learner is evaluated, neither its *)
(* values nor the memory of a search change.                               *)
EvaluationIsReadOnly ==
    [][(part \in Evaluations) => UNCHANGED <<q, cursor, rejections, credited>>]_vars

Restamped(receiptOfStage) == Stamped(Payload(receiptOfStage))

\* A receipt left out, two exchanged, one edited, and one edited and stamped
\* again with others after it.
AlteredChains ==
    LET others(i) == [n \in 1 .. Len(chain) - 1 |-> chain[IF n < i THEN n ELSE n + 1]]
        verdict(i) == [chain[i] EXCEPT !.promoted = ~ @]
        history(i) == [chain[i] EXCEPT !.rates[2] = <<0, 1>>]
    IN  {others(i) : i \in 1 .. Len(chain) - 1}
        \cup ({[chain EXCEPT ![i] = chain[j], ![j] = chain[i]] : i, j \in DOMAIN chain} \ {chain})
        \cup {[chain EXCEPT ![i] = verdict(i)] : i \in DOMAIN chain}
        \cup ({[chain EXCEPT ![i] = Restamped(history(i))] : i \in 1 .. Len(chain) - 1}
                \ {chain})

\* A chain whose last stage failed, with a receipt for the next one that is
\* well formed and linked.
Continued ==
    Append(chain, Restamped([chain[Len(chain)] EXCEPT
                                !.stage_index = Stage.index, !.stage_name = Stage.name,
                                !.previous_checkpoint = chain[Len(chain)].checkpoint,
                                !.reasons = {}, !.promoted = TRUE]))

(* A promotion chain commits to its history.  The receipts of a run are a  *)
(* chain its verifier accepts after every stage, promoted or not; with one *)
(* left out, exchanged, edited, or edited and stamped again under later    *)
(* ones, it is refused, and so is any receipt that follows a failed stage. *)
ChainTellsHistory ==
    course = "curriculum" =>
        /\ VerifyPromotionChain(curriculum, chain)
        /\ \A altered \in AlteredChains : ~VerifyPromotionChain(curriculum, altered)
        /\ chain # <<>> /\ ~chain[Len(chain)].promoted /\ Len(chain) < Len(curriculum.stages) =>
                ~VerifyPromotionChain(curriculum, Continued)

StageOver ==
    /\ Ended /\ outcome = "returned" /\ course = "curriculum"
    /\ Len(results) + 1 = Len(StagePlan)

\* The tasks of which the sink was given an admitted episode.
Taught == {c[1] : c \in credited}

(* A promotion is earned.  Where a stage demands that every train task is  *)
(* admitted, a promoted receipt means that the sink was given an admitted  *)
(* episode of every one of them.  And the evidence cannot be bettered:     *)
(* with a result left out, repeated or taken from the other split it is no *)
(* evidence at all, nor is it when validation taught something, and an     *)
(* admitted episode that taught nothing keeps a stage that requires        *)
(* updates from promotion.                                                 *)
PromotionIsEarned ==
    /\ \A i \in DOMAIN chain :
        chain[i].promoted /\ curriculum.stages[i].min_train = <<1, 1>> =>
            ToIds(curriculum.stages[i].train) \subseteq Taught
    /\ StageOver =>
        LET all == Append(results, StageResult)
            train == TrainResults(all)
            validation == ValidationResults(all)
            promoted(r) == r # None /\ r.promoted
            judged(ts, vs) == EvaluateStage(curriculum, Stage, ts, vs, ZERO_HASH)
            untaught(i) == [train EXCEPT ![i].learning_updated = FALSE, ![i].accepted = TRUE]
            taught(i) == [validation EXCEPT ![i].learning_updated = TRUE]
        IN  /\ judged(Tail(train), validation) = None
            /\ judged(Append(train, train[1]), validation) = None
            /\ judged(train, <<train[1]>>) = None
            /\ judged(validation, validation) = None
            /\ \A i \in DOMAIN validation : judged(train, taught(i)) = None
            /\ Stage.require_updates =>
                \A i \in DOMAIN train : ~promoted(judged(untaught(i), validation))

PartsLeft == CASE part = "before" -> 3 [] part = "train" -> 2 [] part = "after" -> 1 [] OTHER -> 0

StagesLeft == IF curriculum = None THEN 0 ELSE Len(curriculum.stages) - Len(chain)

ResultsLeft ==
    IF curriculum = None \/ part = "over" THEN 0 ELSE Len(StagePlan) - Len(results)

StepsLeft ==
    LET steps == 2 * (task.max_steps - stepsTaken) IN
    CASE phase = "start" -> steps + 6 [] phase = "loop"  -> steps + 5 [] phase = "step" -> steps + 6
      [] phase = "seal"  -> 4         [] phase = "learn" -> 3         [] phase = "close" -> 2
      [] OTHER -> 1

WorkLeft ==
    <<PartsLeft, StagesLeft, ResultsLeft, Cardinality(pending), granted - attempt, StepsLeft>>

Less(work, than) ==
    \E i \in DOMAIN work :
        /\ 0 <= work[i] /\ work[i] < than[i]
        /\ \A j \in 1 .. i - 1 : work[j] = than[j]

(* Every step of a course leaves less to do: fewer parts, stages, results, *)
(* tasks, attempts or steps of the episode, in this order.  With the       *)
(* deadlock check, every course ends, whoever plays and whatever faults    *)
(* its bundles have; no fairness is needed beyond taking steps.            *)
CourseAdvances == [][Less(WorkLeft', WorkLeft)]_vars

-----------------------------------------------------------------------------
(* The inductive invariants behind these properties. *)

\* What a course is about.
CourseInv ==
    /\ part \in Evaluations \cup {"train", "over"}
    /\ course \in Courses
    /\ IF course = "curriculum"
       THEN /\ curriculum \in Curricula
            /\ CurriculumWellFormed(curriculum) /\ TasksFit(curriculum, Registry)
            /\ part \in {"train", "over"}
       ELSE curriculum = None /\ chain = <<>> /\ results = <<>>
    /\ chain \in Seq(ToSet(chain)) /\ results \in Seq(ToSet(results))
    /\ pending \subseteq Tasks
    /\ granted \in Nat /\ attempt \in Nat

\* What run knows in each phase: an episode that returns has been judged, and
\* what it taught is what it was credited with.
RunInv ==
    /\ task \in Tasks
    /\ part # "over" => sink = SinkGiven
    /\ phase \in Gym!Phases
    /\ outcome = IF phase # "end" THEN "running" ELSE IF failure = None THEN "returned" ELSE "raised"
    /\ stepsTaken \in 0 .. task.max_steps
    /\ phase \in {"start", "loop", "step", "seal"} => receipt = None
    /\ phase \notin {"close", "end"} => failure = None /\ updates = 0
    /\ phase \in {"learn", "close", "end"} /\ failure = None => receipt \in Gym!Receipts
    /\ failure # None => receipt = None
    /\ phase \in {"close", "end"} /\ failure = None =>
          /\ updates = IF Gym!Creditable THEN 1 ELSE 0
          /\ Gym!Creditable => task.task_id \in Taught

\* What an environment remembers, and its verdict, it has shown.
SightInv ==
    /\ DOMAIN env = DOMAIN NewEnvironment(task)
    /\ observations \in Seq(ToSet(observations))
    /\ phase = "start" => env = NewEnvironment(task)
    /\ phase \in {"loop", "step", "seal"} =>
        LET knows == env.facts # {}
            holds == env.semantic
        IN
        /\ task.class \in Classes /\ env.class = task.class
        /\ CASE task.class = "cli" ->
                    knows \/ holds => Saw("process-state", "PASS") \/ Saw("process-state", "FAIL")
             [] task.class = "data" -> knows \/ holds => Saw("provenance", "PASS")
             [] task.class = "config" -> knows \/ holds => Saw("config-origin", "PASS")
             [] task.class = "repository" ->
                    /\ knows \/ holds => Saw("targeted-test", "FAIL")
                    /\ holds => Saw("regression", "PASS")
             [] task.class = "generative" -> holds => Saw("generated-candidate", "PASS")
             [] OTHER -> holds => Saw("defer", "PROOF_CLOSED")

\* Observations are numbered by the environment, and its counters are ahead of
\* their attempts.
NumberInv ==
    /\ env.sequence = Len(observations)
    /\ env.attempts \in [Checks -> Nat]
    /\ \A i \in DOMAIN observations :
        LET o == observations[i] IN
        /\ o.observation_id = i - 1 /\ o.sequence_index = i - 1 /\ o.logical_tick = i - 1
        /\ o.source_lineage_root = "lineage"
        /\ o.check_id \in Checks /\ o.probe_id = o.check_id
        /\ o.attempt_id \in 0 .. env.attempts[o.check_id]
        /\ o.cost \in Nat
        /\ \A j \in 1 .. i - 1 :
            observations[j].check_id = o.check_id => observations[j].attempt_id < o.attempt_id

\* A result is that of an episode on this task.
Tells(result, id, taught) ==
    /\ result = [task_id |-> id, split |-> Registry[id].split, accepted |-> result.accepted,
                 learning_updated |-> result.learning_updated,
                 budget_exhausted |-> result.budget_exhausted]
    /\ result.learning_updated => result.accepted /\ result.split = "train"
    /\ result.accepted /\ result.split = "train" => id \in taught

\* A stage has run its plan so far, and those before it were promoted.
StageInv ==
    course = "curriculum" =>
        /\ VerifyPromotionChain(curriculum, chain)
        /\ \A i \in DOMAIN chain :
            /\ chain[i] = Restamped(chain[i]) /\ "promoted" \in DOMAIN chain[i]
            /\ chain[i].promoted /\ curriculum.stages[i].min_train = <<1, 1>> =>
                  ToIds(curriculum.stages[i].train) \subseteq Taught
        /\ part # "over" =>
            /\ Len(chain) < Len(curriculum.stages)
            /\ \A i \in DOMAIN chain : chain[i].promoted
            /\ Len(results) < Len(StagePlan)
            /\ task = Registry[StagePlan[Len(results) + 1]]
            /\ \A i \in DOMAIN results : Tells(results[i], StagePlan[i], Taught)
=============================================================================
