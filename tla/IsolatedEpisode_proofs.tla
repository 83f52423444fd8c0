------------------------- MODULE IsolatedEpisode_proofs -------------------------
(***************************************************************************)
(* Theorems about IsolatedEpisode, for every set of tasks, decisions,      *)
(* observations, candidates and claims, and any number of runs.            *)
(***************************************************************************)
EXTENDS IsolatedEpisode, SequenceTheorems, TLAPS

\* What a step of the gym does to the variables of IsolatedInv.
GymEffect ==
    /\ UNCHANGED <<task, generator, sink, updates>>
    /\ outcome' \in {"running", "returned", "raised"}
    /\ outcome' = "returned" => failure' = None

LEMMA GymStepEffect ==
  ASSUME GymInv, GymSteps
  PROVE  GymEffect
<1> USE DEF GymEffect, GymInv, InGym
<1>0. InGym /\ outcome = "running"
  BY DEF GymSteps
<1>1. ASSUME NEW b \in ResetBatches, Gym!Start(b) PROVE GymEffect
  BY <1>0, <1>1 DEF Gym!Start, Gym!inputs, Gym!effects
<1>2. CASE Gym!StartRaises
  BY <1>0, <1>2 DEF Gym!StartRaises, Gym!inputs, Gym!effects
<1>3. CASE Gym!SurfaceMismatch
  BY <1>0, <1>3 DEF Gym!SurfaceMismatch, Gym!inputs, Gym!effects
<1>4. CASE Gym!StepBudgetExhausted
  BY <1>0, <1>4 DEF Gym!StepBudgetExhausted, Gym!inputs, Gym!effects
<1>5. ASSUME NEW b \in StepBatches, NEW isDone \in BOOLEAN, Gym!HostStep(b, isDone)
      PROVE  GymEffect
  BY <1>0, <1>5 DEF Gym!HostStep, Gym!inputs, Gym!effects
<1>6. CASE Gym!HostRejects
  BY <1>0, <1>6 DEF Gym!HostRejects, Gym!inputs, Gym!effects
<1>7. CASE Gym!HostStepRaises
  BY <1>0, <1>7 DEF Gym!HostStepRaises, Gym!inputs, Gym!effects
<1>8. CASE Gym!VerdictRaises
  BY <1>0, <1>8 DEF Gym!VerdictRaises, Gym!inputs, Gym!effects
<1>9. ASSUME NEW v \in BOOLEAN, Gym!VerifierRaises(v) PROVE GymEffect
  BY <1>0, <1>9 DEF Gym!VerifierRaises, Gym!inputs, Gym!effects
<1>10. ASSUME NEW v \in BOOLEAN, NEW p \in BOOLEAN, Gym!Admit(v, p) PROVE GymEffect
  BY <1>0, <1>10 DEF Gym!Admit, Gym!inputs
<1>11. CASE Gym!Learn
  BY <1>0, <1>11 DEF Gym!Learn, Gym!Creditable, Gym!inputs
<1>12. CASE Gym!Close
  BY <1>0, <1>12 DEF Gym!Close, Gym!inputs, Gym!effects
<1>13. CASE Gym!CloseRaises
  BY <1>0, <1>13 DEF Gym!CloseRaises, Gym!inputs, Gym!effects
<1> QED
  BY <1>1, <1>2, <1>3, <1>4, <1>5, <1>6, <1>7, <1>8, <1>9, <1>10, <1>11, <1>12, <1>13
     DEF GymSteps

\* The steps the gym takes with the agent, too.
AgentSteps ==
    \/ \E t \in {turn, turn + 1}, d \in Decisions :
        \/ AgentDecides(d, t)
        \/ \E c \in Candidates : AgentGenerates(d, c, t)
        \/ AgentGenerateRaises(d, t)
    \/ AgentDecideRaises

LEMMA AgentStepEffect ==
  ASSUME GymInv, AgentSteps
  PROVE  GymEffect
<1> USE DEF GymEffect, GymInv, InGym
<1>1. ASSUME NEW t, NEW d, AgentDecides(d, t) PROVE GymEffect
  BY <1>1 DEF AgentDecides, Gym!DecideAction, Gym!SelectionInvalid, Gym!GenerationRefused,
              Gym!Decided, Gym!inputs, Gym!effects
<1>2. ASSUME NEW t, NEW d, NEW c, AgentGenerates(d, c, t) PROVE GymEffect
  BY <1>2 DEF AgentGenerates, Gym!Generate, Gym!Decided, Gym!inputs, Gym!effects
<1>3. ASSUME NEW t, NEW d, AgentGenerateRaises(d, t) PROVE GymEffect
  BY <1>3 DEF AgentGenerateRaises, Gym!GeneratorRaises, Gym!Decided, Gym!inputs, Gym!effects
<1>4. CASE AgentDecideRaises
  BY <1>4 DEF AgentDecideRaises, Gym!PolicyRaises, Gym!inputs, Gym!effects
<1> QED
  BY <1>1, <1>2, <1>3, <1>4 DEF AgentSteps

\* Inside the gym nothing else of IsolatedInv's moves.
LEMMA InsideGym ==
  ASSUME GymSteps \/ AgentSteps
  PROVE  /\ stage = "gym" /\ outcome = "running"
         /\ UNCHANGED <<arguments, stage, raised, agent, authority, lessons>>
<1>1. CASE GymSteps
  BY <1>1 DEF GymSteps, InGym, boundary
<1>2. ASSUME NEW t, NEW d, AgentDecides(d, t)
      PROVE  stage = "gym" /\ outcome = "running"
             /\ UNCHANGED <<arguments, stage, raised, agent, authority, lessons>>
  BY <1>2 DEF AgentDecides, InGym
<1>3. ASSUME NEW t, NEW d, NEW c, AgentGenerates(d, c, t)
      PROVE  stage = "gym" /\ outcome = "running"
             /\ UNCHANGED <<arguments, stage, raised, agent, authority, lessons>>
  BY <1>3 DEF AgentGenerates, InGym
<1>4. ASSUME NEW t, NEW d, AgentGenerateRaises(d, t)
      PROVE  stage = "gym" /\ outcome = "running"
             /\ UNCHANGED <<arguments, stage, raised, agent, authority, lessons>>
  BY <1>4 DEF AgentGenerateRaises, InGym
<1>5. CASE AgentDecideRaises
  BY <1>5 DEF AgentDecideRaises, InGym
<1> QED
  BY <1>1, <1>2, <1>3, <1>4, <1>5 DEF AgentSteps

-----------------------------------------------------------------------------
\* One call of the verifier for this run's request.
LEMMA VerifyStep ==
  ASSUME AttestationInv, number \in Nat, request.challenge = number, NEW r, Verify(r)
  PROVE  /\ verdicts' \in Seq(Verdicts)
         /\ Len(verdicts') = Len(verdicts) + 1
         /\ \A i \in DOMAIN verdicts : i \in DOMAIN verdicts' /\ verdicts'[i] = verdicts[i]
         /\ verdicts'[Len(verdicts) + 1].challenge = number
         /\ verdicts'[Len(verdicts) + 1].valid <=> Verifies(Key, consumed, request, r)
         /\ verdicts'[Len(verdicts) + 1].own <=> r \in HonestReceipts
         /\ \A i \in DOMAIN verdicts' : i \in DOMAIN verdicts \/ i = Len(verdicts) + 1
         /\ consumed' = IF Verifies(Key, consumed, request, r)
                        THEN consumed \cup {number} ELSE consumed
         /\ \A i \in DOMAIN verdicts' : verdicts'[i].valid => verdicts'[i].challenge \in consumed'
         /\ ChallengeVerifiesOnce'
<1> DEFINE new == [challenge |-> request.challenge, own |-> r \in HonestReceipts,
                  valid |-> Verifies(Key, consumed, request, r)]
<1>1. verdicts' = Append(verdicts, new)
  BY DEF Verify
<1>2. /\ new \in Verdicts
      /\ new.challenge = number
      /\ new.valid <=> Verifies(Key, consumed, request, r)
      /\ new.own <=> r \in HonestReceipts
  <2>1. Verifies(Key, consumed, request, r) \in BOOLEAN
    BY Zenon DEF Verifies
  <2>2. (r \in HonestReceipts) \in BOOLEAN
    OBVIOUS
  <2> QED
    BY <2>1, <2>2 DEF Verdicts
<1>3. /\ verdicts \in Seq(Verdicts)
      /\ \A i \in DOMAIN verdicts : verdicts[i].valid => verdicts[i].challenge \in consumed
      /\ \A i, j \in DOMAIN verdicts :
            (verdicts[i].valid /\ verdicts[j].valid /\
             verdicts[i].challenge = verdicts[j].challenge) => i = j
  BY DEF AttestationInv, ChallengeVerifiesOnce
<1>4. new.valid => number \notin consumed
  BY <1>2 DEF Verifies
<1>5. consumed' = IF new.valid THEN consumed \cup {number} ELSE consumed
  BY <1>2 DEF Verify, ConsumedAfter
<1> HIDE DEF new
<1>6. /\ verdicts' \in Seq(Verdicts)
      /\ Len(verdicts') = Len(verdicts) + 1
      /\ \A i \in DOMAIN verdicts : i \in DOMAIN verdicts' /\ verdicts'[i] = verdicts[i]
      /\ verdicts'[Len(verdicts) + 1] = new
      /\ \A i \in DOMAIN verdicts' : i \in DOMAIN verdicts \/ i = Len(verdicts) + 1
  BY <1>1, <1>2, <1>3
<1>7. \A i \in DOMAIN verdicts' : verdicts'[i].valid => verdicts'[i].challenge \in consumed'
  BY <1>2, <1>3, <1>5, <1>6
<1>8. ChallengeVerifiesOnce'
  <2> SUFFICES ASSUME NEW i \in DOMAIN verdicts', NEW j \in DOMAIN verdicts',
                      verdicts'[i].valid, verdicts'[j].valid,
                      verdicts'[i].challenge = verdicts'[j].challenge
               PROVE  i = j
    BY DEF ChallengeVerifiesOnce
  <2>1. CASE i \in DOMAIN verdicts /\ j \in DOMAIN verdicts
    BY <1>3, <1>6, <2>1
  <2>2. CASE i \in DOMAIN verdicts /\ j = Len(verdicts) + 1
    BY <1>2, <1>3, <1>4, <1>6, <2>2
  <2>3. CASE i = Len(verdicts) + 1 /\ j \in DOMAIN verdicts
    BY <1>2, <1>3, <1>4, <1>6, <2>3
  <2> QED
    BY <1>6, <2>1, <2>2, <2>3
<1> QED
  BY <1>2, <1>5, <1>6, <1>7, <1>8

-----------------------------------------------------------------------------
(* The inductive step, one part of the invariant at a time. *)

LEMMA GymInvStep == GymInv /\ [Next]_vars => GymInv'
<1> SUFFICES ASSUME GymInv, [Next]_vars PROVE GymInv'
  OBVIOUS
<1>1. CASE GymSteps \/ AgentSteps
  BY <1>1, GymStepEffect, AgentStepEffect DEF GymEffect, GymInv
<1>2. CASE UNCHANGED run
  BY <1>2 DEF GymInv, run
<1>3. CASE NextRun
  BY <1>3 DEF NextRun, NewRun, WithheldSink, GymInv
<1>4. CASE /\ ~NextRun /\ ~GymSteps /\ ~AgentSteps
           /\ Next
  BY <1>2, <1>4 DEF Next, AgentSteps, Request, NotConnected, AttestorRaises, Attested, NotAttested,
     Presented, OpenAgent, OpenAgentRaises, CloseAgent, CloseAgentRaises, Bind, LearnOrNot, SinkRaises
<1>5. CASE UNCHANGED vars
  BY <1>2, <1>5 DEF vars
<1> QED
  BY <1>1, <1>3, <1>4, <1>5

\* Acceptances and the binding depend on what a learning step leaves alone.
LEMMA BindingKept ==
  ASSUME UNCHANGED run, UNCHANGED boundary
  PROVE  TranscriptBound' = TranscriptBound
BY DEF run, boundary, TranscriptBound, View, EpisodeResult

LEMMA RequestedKept ==
  ASSUME UNCHANGED run, request' = request
  PROVE  EpisodeRequested' = EpisodeRequested
BY DEF run, EpisodeRequested

LEMMA AcceptancesKept ==
  ASSUME number' = number, verdicts' = verdicts
  PROVE  Acceptances' = Acceptances
BY DEF Acceptances

LEMMA AcceptancesGrow ==
  ASSUME AttestationInv, number \in Nat, request.challenge = number, NEW r, Verify(r),
         number' = number
  PROVE  /\ Acceptances # {} => Acceptances' # {}
         /\ Verifies(Key, consumed, request, r) => Acceptances' # {}
<1>1. Acceptances # {} => Acceptances' # {}
  BY VerifyStep DEF Acceptances
<1>2. ASSUME Verifies(Key, consumed, request, r) PROVE Acceptances' # {}
  <2>1. Len(verdicts) + 1 \in DOMAIN verdicts'
    BY VerifyStep DEF AttestationInv
  <2> QED
    BY <1>2, <2>1, VerifyStep DEF Acceptances
<1> QED
  BY <1>1, <1>2

LEMMA StageInvStep ==
  ASSUME GymInv, GymInv', StageInv, AttestationInv, number \in Nat, [Next]_vars
  PROVE  StageInv'
<1> USE DEF StageInv, Stages, Fail
<1>1. CASE Request
  BY <1>1 DEF Request, run, boundary
<1>2. CASE NotConnected
  BY <1>2 DEF NotConnected, run, boundary
<1>3. CASE AttestorRaises
  BY <1>3 DEF AttestorRaises, run
<1>4. ASSUME NEW r \in Offers, Attested(r) PROVE StageInv'
  BY <1>4 DEF Attested, run, boundary
<1>5. ASSUME NEW r \in Offers, NotAttested(r) PROVE StageInv'
  BY <1>5 DEF NotAttested, run
<1>6. ASSUME NEW r \in Offers, Presented(r) PROVE StageInv'
  BY <1>6 DEF Presented, run, boundary
<1>7. CASE OpenAgent
  BY <1>7 DEF OpenAgent, run
<1>8. CASE OpenAgentRaises
  BY <1>8 DEF OpenAgentRaises, run
<1>9. CASE GymSteps \/ AgentSteps
  BY <1>9, InsideGym
<1>10. CASE CloseAgent
  BY <1>10 DEF CloseAgent, run, GymInv
<1>11. CASE CloseAgentRaises
  BY <1>11 DEF CloseAgentRaises, run
<1>12. CASE Bind
  <2>1. stage = "bind" /\ UNCHANGED <<run, mode, agent, number>> /\ request' = request
        /\ verdicts' = verdicts
    BY <1>12 DEF Bind, arguments, authority
  <2>2. /\ stage' \in {"over", "learn"}
        /\ stage' = "learn" => raised' = raised /\ endpoint' = endpoint /\ TranscriptBound
                               /\ (mode = "attested" => EpisodeRequested)
    BY <1>12 DEF Bind
  <2>3. stage' = "learn" => UNCHANGED boundary
    BY <1>12, <2>2 DEF Bind, boundary
  <2>4. stage' = "learn" => TranscriptBound' /\ (mode' = "attested" => EpisodeRequested')
    BY <2>1, <2>2, <2>3, BindingKept, RequestedKept
  <2>5. mode = "attested" => Acceptances' # {}
    BY <2>1, AcceptancesKept DEF AttestationInv
  <2> QED
    BY <2>1, <2>2, <2>4, <2>5 DEF run
<1>13. CASE LearnOrNot
  BY <1>13 DEF LearnOrNot, run, boundary
<1>14. CASE SinkRaises
  BY <1>14 DEF SinkRaises, run, boundary
<1>15. CASE NextRun
  BY <1>15 DEF NextRun, NewRun
<1>16. CASE UNCHANGED vars
  <2>1. UNCHANGED <<run, boundary, arguments, authority, stage, raised>>
    BY <1>16 DEF vars
  <2>2. TranscriptBound' = TranscriptBound /\ EpisodeRequested' = EpisodeRequested
        /\ Acceptances' = Acceptances
    BY <2>1, BindingKept, RequestedKept, AcceptancesKept DEF arguments, authority
  <2> QED
    BY <2>1, <2>2 DEF run, boundary, arguments
<1> QED
  BY <1>1, <1>2, <1>3, <1>4, <1>5, <1>6, <1>7, <1>8, <1>9, <1>10, <1>11, <1>12, <1>13, <1>14,
     <1>15, <1>16 DEF Next, AgentSteps

LEMMA AttestationInvStep ==
  ASSUME StageInv, AttestationInv, number \in Nat, [Next]_vars
  PROVE  AttestationInv'
<1>1. ASSUME UNCHANGED <<authority, number, mode>>,
             stage' = stage \/ stage' = "over"
                \/ (stage \in {"open", "gym", "bind"} /\ stage' \in {"gym", "bind", "learn"})
      PROVE  AttestationInv'
  <2>1. Acceptances' = Acceptances
    BY <1>1, AcceptancesKept DEF authority
  <2>2. ChallengeVerifiesOnce' = ChallengeVerifiesOnce
    BY <1>1 DEF authority, ChallengeVerifiesOnce
  <2> QED
    BY <1>1, <2>1, <2>2 DEF AttestationInv, authority
<1>2. ASSUME NEW r, Verify(r), stage \in {"attest", "over"}, request # None \/ stage = "attest",
             UNCHANGED <<number, mode, request>>,
             stage' \in {stage, "over"} \/ (stage' = "open" /\ Verifies(Key, consumed, request, r))
      PROVE  AttestationInv'
  <2>1. request.challenge = number
    BY <1>2 DEF AttestationInv
  <2>2. stage' \in {"open", "gym", "bind", "learn"} => Acceptances' # {}
    BY <1>2, <2>1, AcceptancesGrow
  <2>3. /\ verdicts' \in Seq(Verdicts)
        /\ \A i \in DOMAIN verdicts' : verdicts'[i].valid => verdicts'[i].challenge \in consumed'
        /\ ChallengeVerifiesOnce'
    BY <1>2, <2>1, VerifyStep
  <2> QED
    BY <1>2, <2>1, <2>2, <2>3 DEF AttestationInv
<1>3. CASE Request
  <2>1. request'.challenge = number /\ stage' = "attest"
    BY <1>3 DEF Request, AttestationRequest
  <2>2. UNCHANGED <<number, mode, consumed, verdicts>>
    BY <1>3 DEF Request, arguments
  <2>3. ChallengeVerifiesOnce' = ChallengeVerifiesOnce
    BY <2>2 DEF ChallengeVerifiesOnce
  <2> QED
    BY <2>1, <2>2, <2>3 DEF AttestationInv
<1>4. CASE NotConnected \/ AttestorRaises
  BY <1>1, <1>4 DEF NotConnected, AttestorRaises, Fail, arguments
<1>5. ASSUME NEW r \in Offers, Attested(r) PROVE AttestationInv'
  BY <1>2, <1>5 DEF Attested, arguments
<1>6. ASSUME NEW r \in Offers, NotAttested(r) PROVE AttestationInv'
  BY <1>2, <1>6 DEF NotAttested, arguments, Fail
<1>7. ASSUME NEW r \in Offers, Presented(r) PROVE AttestationInv'
  BY <1>2, <1>7 DEF Presented, arguments
<1>8. CASE OpenAgent \/ OpenAgentRaises
  BY <1>1, <1>8 DEF OpenAgent, OpenAgentRaises, Fail, arguments
<1>9. CASE GymSteps \/ AgentSteps
  BY <1>1, <1>9, InsideGym DEF arguments
<1>10. CASE CloseAgent \/ CloseAgentRaises
  BY <1>1, <1>10 DEF CloseAgent, CloseAgentRaises, Fail, arguments
<1>11. CASE Bind
  <2>1. stage = "bind" /\ stage' \in {"learn", "over"} /\ UNCHANGED <<arguments, authority>>
    BY <1>11 DEF Bind, Fail
  <2> QED
    BY <1>1, <2>1 DEF arguments
<1>12. CASE LearnOrNot \/ SinkRaises
  BY <1>1, <1>12 DEF LearnOrNot, SinkRaises, Fail, arguments
<1>13. CASE NextRun
  <2>1. /\ request' = None /\ UNCHANGED <<consumed, verdicts>>
        /\ mode' = mode
        /\ stage' = IF mode' = "attested" THEN "request" ELSE "open"
    BY <1>13 DEF NextRun, NewRun
  <2>2. ChallengeVerifiesOnce' = ChallengeVerifiesOnce
    BY <2>1 DEF ChallengeVerifiesOnce
  <2> QED
    BY <2>1, <2>2 DEF AttestationInv
<1>14. CASE UNCHANGED vars
  BY <1>1, <1>14 DEF vars, arguments
<1> QED
  BY <1>3, <1>4, <1>5, <1>6, <1>7, <1>8, <1>9, <1>10, <1>11, <1>12, <1>13, <1>14
     DEF Next, AgentSteps

\* A step that teaches nothing, from a run that has taught nothing.
LEMMA NothingTaught ==
  ASSUME LessonsInv, GymInv', stage # "over", UNCHANGED <<lessons, number>>,
         stage' = "over" => GymFailureSurvivesClose'
  PROVE  LessonsInv'
<1>1. ~Taught'
  BY DEF LessonsInv, GymInv, Taught
<1>2. LearningIsEarned' /\ FailedRunTeachesNothing'
  BY <1>1 DEF LessonsInv, LearningIsEarned, FailedRunTeachesNothing
<1>3. GymFailureSurvivesClose'
  BY DEF GymFailureSurvivesClose
<1>4. \A i \in DOMAIN lessons' :
        lessons'[i] < number' \/ (lessons'[i] = number' /\ stage' = "over")
  BY DEF LessonsInv
<1> QED
  BY <1>2, <1>3, <1>4 DEF LessonsInv

\* The learning step, whether its sink raises or not.
LEMMA LessonLearned ==
  ASSUME LessonsInv, GymInv, GymInv', StageInv, stage = "learn", stage' = "over",
         UNCHANGED <<run, arguments, boundary, authority>>,
         lessons' = lessons \/ (lessons' = Append(lessons, number) /\ Learnable),
         raised' \in {None, "sink"}
  PROVE  LessonsInv'
<1>1. /\ lessons' \in Seq(Nat)
      /\ \A i \in DOMAIN lessons' :
            lessons'[i] < number' \/ (lessons'[i] = number' /\ stage' = "over")
      /\ \A i, j \in DOMAIN lessons' : lessons'[i] = lessons'[j] => i = j
  <2>1. /\ lessons \in Seq(Nat) /\ number \in Nat /\ number' = number
        /\ \A i \in DOMAIN lessons : lessons[i] < number
        /\ \A i, j \in DOMAIN lessons : lessons[i] = lessons[j] => i = j
    BY DEF LessonsInv, LearningIsEarned, arguments
  <2>2. CASE lessons' = lessons
    BY <2>1, <2>2
  <2>3. CASE lessons' = Append(lessons, number)
    <3>1. /\ lessons' \in Seq(Nat) /\ Len(lessons') = Len(lessons) + 1
          /\ \A i \in DOMAIN lessons : lessons'[i] = lessons[i]
          /\ lessons'[Len(lessons) + 1] = number
          /\ \A i \in DOMAIN lessons' : i \in DOMAIN lessons \/ i = Len(lessons) + 1
      BY <2>1, <2>3
    <3>2. \A i \in DOMAIN lessons' :
            lessons'[i] < number' \/ (lessons'[i] = number' /\ stage' = "over")
      BY <2>1, <3>1
    <3>3. \A i \in DOMAIN lessons : lessons'[i] < number /\ lessons'[i] \in Nat
      BY <2>1, <3>1
    <3>4. ASSUME NEW i \in DOMAIN lessons', NEW j \in DOMAIN lessons', lessons'[i] = lessons'[j]
          PROVE  i = j
      <4>1. CASE i \in DOMAIN lessons /\ j \in DOMAIN lessons
        BY <2>1, <3>1, <3>4, <4>1
      <4>2. CASE i \in DOMAIN lessons /\ j = Len(lessons) + 1
        BY <2>1, <3>1, <3>3, <3>4, <4>2
      <4>3. CASE i = Len(lessons) + 1 /\ j \in DOMAIN lessons
        BY <2>1, <3>1, <3>3, <3>4, <4>3
      <4> QED
        BY <3>1, <4>1, <4>2, <4>3
    <3> QED
      BY <3>1, <3>2, <3>4
  <2> QED
    BY <2>2, <2>3
<1>2. ASSUME Taught' PROVE Learnable
  <2>1. CASE lessons' = lessons
    BY <1>2, <2>1 DEF LessonsInv, GymInv, Taught, arguments
  <2> QED
    BY <2>1
<1>3. /\ TranscriptBound' = TranscriptBound
      /\ EpisodeRequested' = EpisodeRequested
      /\ Acceptances' = Acceptances
  BY BindingKept, RequestedKept, AcceptancesKept DEF arguments, authority
<1>4. LearningIsEarned'
  BY <1>1, <1>2, <1>3 DEF LearningIsEarned, StageInv, Learnable, run, arguments, boundary
<1>5. FailedRunTeachesNothing'
  BY DEF FailedRunTeachesNothing
<1>6. GymFailureSurvivesClose'
  BY DEF GymFailureSurvivesClose, GymInv, StageInv, run, boundary
<1> QED
  BY <1>1, <1>4, <1>5, <1>6 DEF LessonsInv, arguments

LEMMA LessonsInvStep ==
  ASSUME GymInv, GymInv', StageInv, AttestationInv, LessonsInv, [Next]_vars
  PROVE  LessonsInv'
<1>1. ASSUME stage # "over", UNCHANGED <<run, arguments, lessons>>,
             stage' = "over" => raised' # None /\ failure = None
      PROVE  LessonsInv'
  BY <1>1, NothingTaught DEF run, arguments, GymFailureSurvivesClose
<1>2. CASE Request
  BY <1>1, <1>2 DEF Request
<1>3. CASE NotConnected \/ AttestorRaises
  BY <1>1, <1>3, NoneIsNoFailure DEF Failures, NotConnected, AttestorRaises, Fail, StageInv
<1>4. ASSUME NEW r \in Offers, Attested(r) PROVE LessonsInv'
  BY <1>1, <1>4 DEF Attested
<1>5. ASSUME NEW r \in Offers, NotAttested(r) PROVE LessonsInv'
  BY <1>1, <1>5, NoneIsNoFailure DEF Failures, NotAttested, Fail, StageInv
<1>6. ASSUME NEW r \in Offers, Presented(r) PROVE LessonsInv'
  <2>1. /\ UNCHANGED <<run, arguments, stage, raised, boundary, request, lessons>>
        /\ request.challenge = number /\ number \in Nat /\ Verify(r)
    BY <1>6 DEF Presented, AttestationInv, LessonsInv
  <2>2. Acceptances # {} => Acceptances' # {}
    BY <2>1, AcceptancesGrow DEF arguments
  <2>3. TranscriptBound' = TranscriptBound /\ EpisodeRequested' = EpisodeRequested
    BY <2>1, BindingKept, RequestedKept
  <2>4. Taught' = Taught
    BY <2>1 DEF Taught, run, arguments
  <2>5. LearningIsEarned'
    BY <2>1, <2>2, <2>3, <2>4 DEF LessonsInv, LearningIsEarned, run, arguments, boundary
  <2>6. FailedRunTeachesNothing' /\ GymFailureSurvivesClose'
    BY <2>1, <2>4 DEF LessonsInv, FailedRunTeachesNothing, GymFailureSurvivesClose, run, boundary
  <2> QED
    BY <2>1, <2>5, <2>6 DEF LessonsInv, arguments
<1>7. CASE OpenAgent
  BY <1>1, <1>7 DEF OpenAgent
<1>8. CASE OpenAgentRaises
  BY <1>1, <1>8, NoneIsNoFailure DEF Failures, OpenAgentRaises, Fail, StageInv
<1>9. CASE GymSteps \/ AgentSteps
  BY <1>9, InsideGym, NothingTaught DEF arguments
<1>10. CASE CloseAgent
  <2>1. /\ stage = "gym" /\ outcome # "running" /\ UNCHANGED <<run, arguments, lessons>>
        /\ stage' = "over" => outcome = "raised" /\ raised' = "gym"
    BY <1>10 DEF CloseAgent, Fail
  <2> QED
    BY <2>1, NothingTaught, NoneIsNoFailure DEF Failures, GymFailureSurvivesClose, arguments, run
<1>11. CASE CloseAgentRaises
  <2>1. /\ stage = "gym" /\ outcome # "running" /\ UNCHANGED <<run, arguments, lessons>>
        /\ raised' = IF outcome = "raised" THEN "gym" ELSE "agent"
    BY <1>11 DEF CloseAgentRaises, Fail, CloseFailure
  <2>2. failure # None => raised' = "gym"
    BY <2>1 DEF GymInv
  <2> QED
    BY <2>1, <2>2, NothingTaught, NoneIsNoFailure DEF Failures, GymFailureSurvivesClose, arguments, run
<1>12. CASE Bind
  <2>1. /\ stage = "bind" /\ UNCHANGED <<run, arguments, lessons>>
        /\ stage' = "over" => raised' \in {"binding", "transcript"}
    BY <1>12 DEF Bind, Fail
  <2> QED
    BY <1>1, <2>1, NoneIsNoFailure DEF Failures, StageInv, GymInv
<1>13. CASE LearnOrNot
  BY <1>13, LessonLearned DEF LearnOrNot, StageInv
<1>14. CASE SinkRaises
  BY <1>14, LessonLearned DEF SinkRaises, Fail
<1>15. CASE NextRun
  <2>1. /\ stage' \in {"request", "open"} /\ number' = number + 1 /\ lessons' = lessons
        /\ updates' = 0
    BY <1>15 DEF NextRun, NewRun
  <2>2. ~Taught'
    BY <2>1 DEF Taught, LessonsInv
  <2> QED
    BY <2>1, <2>2 DEF LessonsInv, LearningIsEarned, FailedRunTeachesNothing,
                      GymFailureSurvivesClose
<1>16. CASE UNCHANGED vars
  <2>1. UNCHANGED <<run, boundary, arguments, authority, stage, raised, lessons>>
    BY <1>16 DEF vars
  <2>2. TranscriptBound' = TranscriptBound /\ EpisodeRequested' = EpisodeRequested
        /\ Acceptances' = Acceptances /\ Taught' = Taught
    BY <2>1, BindingKept, RequestedKept, AcceptancesKept DEF arguments, authority, run, Taught
  <2> QED
    BY <2>1, <2>2 DEF LessonsInv, LearningIsEarned, FailedRunTeachesNothing,
                      GymFailureSurvivesClose, run, boundary, arguments
<1> QED
  BY <1>2, <1>3, <1>4, <1>5, <1>6, <1>7, <1>8, <1>9, <1>10, <1>11, <1>12, <1>13, <1>14,
     <1>15, <1>16 DEF Next, AgentSteps

-----------------------------------------------------------------------------
(* The verifier's tests *)

\* What an attestor's receipt says, and what of it is signed.
LEMMA ReceiptFields ==
  ASSUME NEW key, NEW issuer, NEW req, NEW claims
  PROVE  /\ \A f \in DOMAIN Statement(issuer, req, claims) :
               Attest(key, issuer, req, claims)[f] = Statement(issuer, req, claims)[f]
         /\ Attest(key, issuer, req, claims).mac_sha256 = Mac(key, Statement(issuer, req, claims))
         /\ SignedPayload(Attest(key, issuer, req, claims)) = Statement(issuer, req, claims)
<1> DEFINE s == Statement(issuer, req, claims)
<1>1. "mac_sha256" \notin DOMAIN s
  BY DEF Statement
<1>2. s = [f \in DOMAIN s |-> s[f]]
  BY DEF Statement
<1> HIDE DEF s
<1>3. /\ \A f \in DOMAIN s : Signed(key, s)[f] = s[f]
      /\ Signed(key, s).mac_sha256 = Mac(key, s)
      /\ DOMAIN Signed(key, s) = DOMAIN s \cup {"mac_sha256"}
  BY <1>1 DEF Signed
<1>4. SignedPayload(Signed(key, s)) = s
  <2>1. DOMAIN Signed(key, s) \ {"mac_sha256"} = DOMAIN s
    BY <1>1, <1>3
  <2>2. SignedPayload(Signed(key, s)) = [f \in DOMAIN s |-> s[f]]
    BY <1>3, <2>1 DEF SignedPayload
  <2> QED
    BY <1>2, <2>2
<1> QED
  BY <1>3, <1>4 DEF s, Attest

LEMMA ReceiptOf ==
  ASSUME NEW key, NEW issuer, NEW req, NEW claims, NEW r, r = Attest(key, issuer, req, claims)
  PROVE  /\ r.format = AttestationFormat
         /\ r.issuer_id = issuer
         /\ r.assurance = ReferenceAssurance
         /\ r.challenge = req.challenge
         /\ r.endpoint_locator_sha256 = req.endpoint_locator_sha256
         /\ r.host_task_commitment = req.host_task_commitment
         /\ r.agent_task_view_sha256 = req.agent_task_view_sha256
         /\ r.evaluation_context_sha256 = req.evaluation_context_sha256
         /\ r.claims = claims
         /\ r.evidence_sha256 = Sha256(issuer)
         /\ r.mac_sha256 = Mac(key, SignedPayload(r))
         /\ SignedPayload(r) = Statement(issuer, req, claims)
<1> DEFINE s == Statement(issuer, req, claims)
<1>1. /\ \A f \in DOMAIN s : r[f] = s[f]
      /\ r.mac_sha256 = Mac(key, s)
      /\ SignedPayload(r) = s
  BY ReceiptFields
<1>2. /\ DOMAIN s = {"format", "issuer_id", "assurance", "challenge", "endpoint_locator_sha256",
                    "host_task_commitment", "agent_task_view_sha256",
                    "evaluation_context_sha256", "claims", "evidence_sha256"}
      /\ s.format = AttestationFormat /\ s.issuer_id = issuer
      /\ s.assurance = ReferenceAssurance /\ s.challenge = req.challenge
      /\ s.endpoint_locator_sha256 = req.endpoint_locator_sha256
      /\ s.host_task_commitment = req.host_task_commitment
      /\ s.agent_task_view_sha256 = req.agent_task_view_sha256
      /\ s.evaluation_context_sha256 = req.evaluation_context_sha256
      /\ s.claims = claims /\ s.evidence_sha256 = Sha256(issuer)
  BY DEF Statement
<1> HIDE DEF s
<1>3. /\ r.format = s.format /\ r.issuer_id = s.issuer_id /\ r.assurance = s.assurance
      /\ r.challenge = s.challenge /\ r.endpoint_locator_sha256 = s.endpoint_locator_sha256
      /\ r.host_task_commitment = s.host_task_commitment
      /\ r.agent_task_view_sha256 = s.agent_task_view_sha256
      /\ r.evaluation_context_sha256 = s.evaluation_context_sha256
      /\ r.claims = s.claims /\ r.evidence_sha256 = s.evidence_sha256
  BY <1>1, <1>2
<1> QED
  BY <1>1, <1>2, <1>3 DEF s

\* What cannot pass for a digest, a challenge or a context.
NoneIsNoField ==
    /\ NoneIsNoDigest
    /\ \A k, p : Mac(k, p) # None
    /\ None \notin Nat /\ None # Context

\* The verifier accepts the attestor's receipt while its challenge is unused ...
LEMMA OwnReceiptVerifies ==
  ASSUME NoneIsNoField, number \in Nat,
         request = AttestationRequest(number, Peer, View, task, Context),
         NEW r \in HonestReceipts, number \notin consumed
  PROVE  Verifies(Key, consumed, request, r)
<1>1. PICK c \in Claims : r = Attest(Key, ReferenceIssuer, request, c)
  BY DEF HonestReceipts
<1>2. /\ DOMAIN request = {"challenge", "endpoint_locator_sha256", "host_task_commitment",
                           "agent_task_view_sha256", "evaluation_context_sha256"}
      /\ request.challenge = number
      /\ request.endpoint_locator_sha256 = Sha256(Peer)
      /\ request.host_task_commitment = Sha256(task)
      /\ request.agent_task_view_sha256 = Sha256(View)
      /\ request.evaluation_context_sha256 = Context
  BY DEF AttestationRequest
<1>3. r.mac_sha256 # None
  <2>1. r.mac_sha256 = Mac(Key, SignedPayload(r))
    BY <1>1, ReceiptOf
  <2> QED
    BY <2>1 DEF NoneIsNoField
<1>4. ShapeValid(r)
  BY <1>1, <1>2, <1>3, ReceiptOf DEF ShapeValid, NoneIsNoField, NoneIsNoDigest
<1>5. BoundTo(request, r)
  BY <1>1, <1>2, ReceiptOf DEF BoundTo
<1> QED
  BY <1>1, <1>2, <1>4, <1>5, ReceiptOf DEF Verifies

\* ... and, of all it may be shown for this run's request, nothing else.
LEMMA VerifiedIsOwn ==
  ASSUME NoneIsNoField, Key # OtherKey, number \in Nat,
         request = AttestationRequest(number, Peer, View, task, Context),
         \A r \in issued : r.challenge \in Nat /\ r.challenge < number,
         NEW r \in Offers, Verifies(Key, consumed, request, r)
  PROVE  r \in HonestReceipts
<1>1. /\ ShapeValid(r) /\ r.issuer_id = ReferenceIssuer
      /\ BoundTo(request, r)
      /\ r.mac_sha256 = Mac(Key, SignedPayload(r))
  BY DEF Verifies
<1>2. r.challenge = number /\ r.evaluation_context_sha256 = Context
  BY <1>1 DEF BoundTo, AttestationRequest
<1>3. CASE r \in issued
  BY <1>2, <1>3
<1>4. ASSUME NEW c \in Claims, r = Attest(OtherKey, ReferenceIssuer, request, c)
      PROVE  FALSE
  <2>1. Mac(OtherKey, SignedPayload(r)) = Mac(Key, SignedPayload(r))
    BY <1>1, <1>4, ReceiptOf
  <2> QED
    BY <2>1 DEF Mac
<1>5. ASSUME NEW c \in Claims, r = Attest(Key, "another-attestor", request, c)
      PROVE  FALSE
  BY <1>1, <1>5, ReceiptOf DEF ReferenceIssuer
<1>6. ASSUME NEW c \in Claims,
             r = Attest(Key, ReferenceIssuer, [request EXCEPT !.evaluation_context_sha256 = Peer], c)
      PROVE  r \in HonestReceipts
  <2> DEFINE other == [request EXCEPT !.evaluation_context_sha256 = Peer]
  <2>1. /\ other.evaluation_context_sha256 = Peer
        /\ Peer = Context => other = request
    BY DEF AttestationRequest
  <2>2. r = Attest(Key, ReferenceIssuer, other, c)
    BY <1>6
  <2> HIDE DEF other
  <2>3. r.evaluation_context_sha256 = other.evaluation_context_sha256
    BY <2>2, ReceiptOf
  <2> QED
    BY <1>2, <2>1, <2>2, <2>3 DEF HonestReceipts
<1>7. ASSUME NEW h \in HonestReceipts, NEW c \in Claims, r = [h EXCEPT !.claims = c]
      PROVE  r \in HonestReceipts
  <2>1. PICK d \in Claims : h = Attest(Key, ReferenceIssuer, request, d)
    BY DEF HonestReceipts
  <2>2. DOMAIN h = DOMAIN Statement(ReferenceIssuer, request, d) \cup {"mac_sha256"}
        /\ h = [f \in DOMAIN h |-> h[f]]
    BY <2>1 DEF Attest, Signed
  <2>3. {"claims", "mac_sha256"} \subseteq DOMAIN h
    BY <2>2 DEF Statement
  <2>4. r.mac_sha256 = h.mac_sha256 /\ r.claims = c /\ DOMAIN r = DOMAIN h
    BY <1>7, <2>2, <2>3
  <2>5. SignedPayload(r) = SignedPayload(h)
    BY <1>1, <2>1, <2>4, ReceiptOf DEF Mac, Sha256
  <2>6. SignedPayload(r).claims = c /\ SignedPayload(h).claims = d
    <3>1. "claims" \in DOMAIN r \ {"mac_sha256"} /\ "claims" \in DOMAIN h \ {"mac_sha256"}
      BY <2>3, <2>4
    <3>2. h.claims = d
      BY <2>1, ReceiptOf
    <3> QED
      BY <2>4, <3>1, <3>2 DEF SignedPayload
  <2>7. [h EXCEPT !.claims = d] = h
    <3>1. h.claims = d
      BY <2>1, ReceiptOf
    <3> QED
      BY <2>2, <3>1
  <2> QED
    BY <1>7, <2>5, <2>6, <2>7
<1>8. ASSUME NEW h \in HonestReceipts, r = [h EXCEPT !.evidence_sha256 = None]
      PROVE  FALSE
  <2>1. PICK d \in Claims : h = Attest(Key, ReferenceIssuer, request, d)
    BY DEF HonestReceipts
  <2>2. "evidence_sha256" \in DOMAIN h
    BY <2>1 DEF Attest, Signed, Statement
  <2>3. r.evidence_sha256 = None
    BY <1>8, <2>2
  <2> QED
    BY <1>1, <2>3 DEF ShapeValid
<1> QED
  BY <1>3, <1>4, <1>5, <1>6, <1>7, <1>8 DEF Offers

-----------------------------------------------------------------------------
(* Sessions and verdicts *)

\* What the attestation rests on: two keys, and fields that are fields.
Unforgeable == NoneIsNoField /\ Key # OtherKey

LEMMA VerdictInvVerify ==
  ASSUME Unforgeable, number \in Nat, AttestationInv, VerdictInv,
         request = AttestationRequest(number, Peer, View, task, Context),
         NEW r \in Offers, Verify(r), UNCHANGED <<number, issued>>
  PROVE  VerdictInv'
<1> DEFINE n == Len(verdicts) + 1
<1>1. request.challenge = number
  BY DEF AttestationRequest
<1>2. /\ n \in Nat /\ n \in DOMAIN verdicts'
      /\ \A i \in DOMAIN verdicts :
            i \in 1 .. n - 1 /\ i \in DOMAIN verdicts' /\ verdicts'[i] = verdicts[i]
      /\ \A i \in DOMAIN verdicts' : i \in DOMAIN verdicts \/ i = n
      /\ verdicts'[n].challenge = number
      /\ verdicts'[n].valid <=> Verifies(Key, consumed, request, r)
      /\ verdicts'[n].own <=> r \in HonestReceipts
  BY <1>1, VerifyStep DEF AttestationInv
<1>3. consumed' = IF Verifies(Key, consumed, request, r) THEN consumed \cup {number} ELSE consumed
  BY <1>1, VerifyStep
<1> HIDE DEF n
<1>4. \A i \in DOMAIN verdicts' : verdicts'[i].valid => verdicts'[i].own
  BY <1>2, VerifiedIsOwn DEF Unforgeable, VerdictInv
<1>5. \A c \in consumed' :
        \E i \in DOMAIN verdicts' : verdicts'[i].valid /\ verdicts'[i].challenge = c
  BY <1>2, <1>3 DEF VerdictInv
<1>6. RefusalKeepsChallenge'
  <2> SUFFICES ASSUME NEW i \in DOMAIN verdicts', verdicts'[i].own, ~verdicts'[i].valid
               PROVE  \E j \in 1 .. i - 1 :
                         verdicts'[j].valid /\ verdicts'[j].challenge = verdicts'[i].challenge
    BY DEF RefusalKeepsChallenge
  <2>1. CASE i \in DOMAIN verdicts
    <3>1. PICK j \in 1 .. i - 1 :
            verdicts[j].valid /\ verdicts[j].challenge = verdicts[i].challenge
      BY <1>2, <2>1 DEF VerdictInv, RefusalKeepsChallenge
    <3>2. j \in DOMAIN verdicts
      BY <2>1 DEF AttestationInv
    <3> QED
      BY <1>2, <2>1, <3>1, <3>2
  <2>2. CASE i = n
    <3>1. number \in consumed
      BY <1>2, <2>2, OwnReceiptVerifies DEF Unforgeable
    <3>2. PICK j \in DOMAIN verdicts : verdicts[j].valid /\ verdicts[j].challenge = number
      BY <3>1 DEF VerdictInv
    <3> QED
      BY <1>2, <2>2, <3>2
  <2> QED
    BY <1>2, <2>1, <2>2
<1> QED
  BY <1>4, <1>5, <1>6 DEF VerdictInv

LEMMA VerdictInvStep ==
  ASSUME Unforgeable, number \in Nat, AttestationInv, SessionInv, VerdictInv, [Next]_vars
  PROVE  VerdictInv'
<1>1. ASSUME UNCHANGED <<verdicts, consumed, issued>>, number' \in {number, number + 1}
      PROVE  VerdictInv'
  <2>1. RefusalKeepsChallenge' = RefusalKeepsChallenge
    BY <1>1 DEF RefusalKeepsChallenge
  <2> QED
    BY <1>1, <2>1 DEF VerdictInv
<1>2. ASSUME NEW r \in Offers, request # None, Attested(r) \/ NotAttested(r) \/ Presented(r)
      PROVE  VerdictInv'
  <2>1. Verify(r) /\ UNCHANGED <<number, issued>>
    BY <1>2 DEF Attested, NotAttested, Presented, arguments
  <2> QED
    BY <1>2, <2>1, VerdictInvVerify DEF SessionInv, Requested
<1>3. CASE NextRun
  <2>1. /\ number' = number + 1 /\ UNCHANGED <<verdicts, consumed>>
        /\ issued' = IF request = None THEN issued ELSE issued \cup HonestReceipts
    BY <1>3 DEF NextRun
  <2>2. ASSUME request # None, NEW r \in HonestReceipts PROVE r.challenge = number
    <3>1. request.challenge = number
      BY <2>2 DEF AttestationInv
    <3>2. PICK c \in Claims : r = Attest(Key, ReferenceIssuer, request, c)
      BY DEF HonestReceipts
    <3> QED
      BY <3>1, <3>2, ReceiptOf
  <2>3. \A r \in issued' : r.challenge \in Nat /\ r.challenge < number'
    <3> SUFFICES ASSUME NEW r \in issued' PROVE r.challenge \in Nat /\ r.challenge < number + 1
      BY <2>1
    <3>1. CASE r \in issued
      BY <3>1 DEF VerdictInv
    <3>2. CASE request # None /\ r \in HonestReceipts
      BY <2>2, <3>2
    <3> QED
      BY <2>1, <3>1, <3>2
  <2>4. RefusalKeepsChallenge' = RefusalKeepsChallenge
    BY <2>1 DEF RefusalKeepsChallenge
  <2> QED
    BY <2>1, <2>3, <2>4 DEF VerdictInv
<1>4. CASE Next /\ ~NextRun
  <2>1. CASE Request \/ NotConnected \/ AttestorRaises
    BY <1>1, <2>1 DEF Request, NotConnected, AttestorRaises, arguments, authority
  <2>2. CASE OpenAgent \/ OpenAgentRaises \/ CloseAgent \/ CloseAgentRaises
    BY <1>1, <2>2 DEF OpenAgent, OpenAgentRaises, CloseAgent, CloseAgentRaises, arguments, authority
  <2>3. CASE GymSteps \/ AgentSteps
    BY <1>1, <2>3, InsideGym DEF arguments, authority
  <2>4. CASE Bind
    BY <1>1, <2>4 DEF Bind, arguments, authority
  <2>5. CASE LearnOrNot \/ SinkRaises
    BY <1>1, <2>5 DEF LearnOrNot, SinkRaises, arguments, authority
  <2> QED
    BY <1>2, <1>4, <2>1, <2>2, <2>3, <2>4, <2>5 DEF Next, AgentSteps
<1>5. CASE UNCHANGED vars
  BY <1>1, <1>5 DEF vars, arguments, authority
<1> QED
  BY <1>3, <1>4, <1>5

LEMMA SessionInvStep ==
  ASSUME GymInv, StageInv, AttestationInv, SessionInv, number \in Nat, [Next]_vars
  PROVE  SessionInv'
<1>1. ASSUME UNCHANGED <<task, mode, number, request>>,
             Acceptances # {} => Acceptances' # {},
             Requested' => Requested,
             mode = "attested" /\ agent' # "none" => agent # "none" \/ Acceptances # {}
      PROVE  SessionInv'
  BY <1>1 DEF SessionInv, View, Gym!AgentView
<1>2. CASE Request
  BY <1>2 DEF Request, arguments, run, boundary, StageInv, SessionInv, View, Gym!AgentView
<1>3. CASE NotConnected \/ AttestorRaises
  BY <1>1, <1>3, AcceptancesKept
     DEF NotConnected, AttestorRaises, Fail, run, arguments, boundary, authority, Requested
<1>4. ASSUME NEW r \in Offers, request # None, Attested(r) \/ NotAttested(r) \/ Presented(r)
      PROVE  SessionInv'
  <2>1. /\ Verify(r) /\ UNCHANGED <<task, mode, number, request, agent>>
        /\ request.challenge = number
    BY <1>4 DEF Attested, NotAttested, Presented, arguments, run, boundary, AttestationInv
  <2>2. Acceptances # {} => Acceptances' # {}
    BY <2>1, AcceptancesGrow
  <2> QED
    BY <1>1, <1>4, <2>1, <2>2 DEF Requested
<1>5. CASE OpenAgent \/ OpenAgentRaises
  <2>1. /\ stage = "open" /\ UNCHANGED <<task, mode, number, request, verdicts>>
    BY <1>5 DEF OpenAgent, OpenAgentRaises, Fail, run, arguments, authority
  <2> QED
    BY <1>1, <2>1, AcceptancesKept DEF AttestationInv, Requested, Stages
<1>6. CASE GymSteps \/ AgentSteps
  <2>1. UNCHANGED <<task, mode, number, request, verdicts, stage, agent>>
    BY <1>6, InsideGym, GymStepEffect, AgentStepEffect DEF GymEffect, arguments, authority
  <2> QED
    BY <1>1, <2>1, AcceptancesKept DEF Requested
<1>7. CASE CloseAgent \/ CloseAgentRaises \/ Bind \/ LearnOrNot \/ SinkRaises
  <2>1. /\ stage \in {"gym", "bind", "learn"}
        /\ UNCHANGED <<task, mode, number, request, verdicts>>
        /\ agent = "open" \/ agent' = agent
    BY <1>7 DEF CloseAgent, CloseAgentRaises, Bind, LearnOrNot, SinkRaises, Fail, run, arguments,
                boundary, authority, StageInv
  <2> QED
    BY <1>1, <2>1, AcceptancesKept DEF Requested, Stages
<1>8. CASE NextRun
  <2>1. request' = None /\ agent' = "none"
        /\ stage' = IF mode' = "attested" THEN "request" ELSE "open"
    BY <1>8 DEF NextRun, NewRun
  <2> QED
    BY <2>1 DEF SessionInv, Requested
<1>9. CASE UNCHANGED vars
  BY <1>1, <1>9, AcceptancesKept DEF vars, run, arguments, boundary, authority, Requested
<1> QED
  BY <1>2, <1>3, <1>4, <1>5, <1>6, <1>7, <1>8, <1>9 DEF Next, AgentSteps

-----------------------------------------------------------------------------
LEMMA IsolatedInit == Init => IsolatedInv
<1> SUFFICES ASSUME Init PROVE IsolatedInv
  OBVIOUS
<1>1. GymInv
  BY DEF Init, Gym!Init, WithheldSink, GymInv
<1>2. StageInv
  BY DEF Init, Gym!Init, StageInv, Stages
<1>3. AttestationInv
  BY DEF Init, AttestationInv, ChallengeVerifiesOnce
<1>4. LessonsInv
  BY DEF Init, Gym!Init, LessonsInv, LearningIsEarned, Taught, FailedRunTeachesNothing,
         GymFailureSurvivesClose
<1> QED
  BY <1>1, <1>2, <1>3, <1>4 DEF IsolatedInv

LEMMA Invariance == Spec => []IsolatedInv
<1>1. IsolatedInv /\ [Next]_vars => IsolatedInv'
  <2> SUFFICES ASSUME IsolatedInv, [Next]_vars PROVE IsolatedInv'
    OBVIOUS
  <2>1. GymInv'
    BY GymInvStep DEF IsolatedInv
  <2>2. number \in Nat
    BY DEF IsolatedInv, LessonsInv
  <2> QED
    BY <2>1, <2>2, StageInvStep, AttestationInvStep, LessonsInvStep DEF IsolatedInv
<1> QED
  BY <1>1, IsolatedInit, PTL DEF Spec

(* A run teaches only once, and only what was admitted, bound to its       *)
(* transcript and, if attested, accepted by the verifier                   *)
(* (run_isolated_episode, run_attested_external_episode).                  *)
THEOREM LearningEarned == Spec => []LearningIsEarned
<1>1. IsolatedInv => LearningIsEarned
  BY DEF IsolatedInv, LessonsInv
<1> QED
  BY <1>1, Invariance, PTL

(* A run that fails before its sink is called teaches nothing.             *)
THEOREM FailureTeachesNothing == Spec => []FailedRunTeachesNothing
<1>1. IsolatedInv => FailedRunTeachesNothing
  BY DEF IsolatedInv, LessonsInv
<1> QED
  BY <1>1, Invariance, PTL

(* Closing the agent never hides the gym's failure, and never fails        *)
(* unnoticed (the finally clause of run_isolated_episode).                 *)
THEOREM CloseHidesNothing == Spec => []GymFailureSurvivesClose
<1>1. IsolatedInv => GymFailureSurvivesClose
  BY DEF IsolatedInv, LessonsInv
<1> QED
  BY <1>1, Invariance, PTL

(* The verifier accepts no challenge twice, whatever receipts it is shown  *)
(* and whoever shows them (ReferenceHMACAuthorityVerifier.verify).         *)
THEOREM ChallengesAreOneTime == Spec => []ChallengeVerifiesOnce
<1>1. IsolatedInv => ChallengeVerifiesOnce
  BY DEF IsolatedInv, AttestationInv
<1> QED
  BY <1>1, Invariance, PTL

-----------------------------------------------------------------------------
LEMMA AttestedInvariance ==
  ASSUME Unforgeable
  PROVE  Spec => []AttestedInv
<1>1. Init => AttestedInv
  <2> SUFFICES ASSUME Init PROVE AttestedInv
    OBVIOUS
  <2>1. SessionInv /\ VerdictInv
    BY DEF Init, SessionInv, Requested, VerdictInv, RefusalKeepsChallenge
  <2> QED
    BY <2>1, IsolatedInit DEF AttestedInv
<1>2. AttestedInv /\ IsolatedInv' /\ [Next]_vars => AttestedInv'
  <2> SUFFICES ASSUME AttestedInv, IsolatedInv', [Next]_vars PROVE AttestedInv'
    OBVIOUS
  <2>1. /\ GymInv /\ StageInv /\ AttestationInv /\ SessionInv /\ VerdictInv
        /\ number \in Nat
    BY DEF AttestedInv, IsolatedInv, LessonsInv
  <2>2. SessionInv' /\ VerdictInv'
    BY <2>1, SessionInvStep, VerdictInvStep
  <2> QED
    BY <2>2 DEF AttestedInv
<1> QED
  BY <1>1, <1>2, Invariance, PTL DEF Spec

(* No agent session of an attested run exists before the verifier accepted *)
(* a receipt the attestor issued for this task, view, endpoint and         *)
(* context, whatever other receipts it is shown, as long as the attestor's *)
(* key is its own (run_attested_external_episode).                         *)
THEOREM SessionsAreAttested ==
  ASSUME Unforgeable
  PROVE  Spec => []NoSessionBeforeAttestation
<1>1. AttestedInv => NoSessionBeforeAttestation
  BY DEF AttestedInv, SessionInv, VerdictInv, Requested, Acceptances, NoSessionBeforeAttestation
<1> QED
  BY <1>1, AttestedInvariance, PTL

(* Showing the verifier receipts it refuses cannot make it refuse the      *)
(* attestor's own (ReferenceHMACAuthorityVerifier.verify).                 *)
THEOREM RefusalsUseNothingUp ==
  ASSUME Unforgeable
  PROVE  Spec => []RefusalKeepsChallenge
<1>1. AttestedInv => RefusalKeepsChallenge
  BY DEF AttestedInv, VerdictInv
<1> QED
  BY <1>1, AttestedInvariance, PTL

Telling  == INSTANCE FoldFacts WITH Op <- Tell, Base <- NothingTold
Doing    == INSTANCE FoldFacts WITH Op <- Do, Base <- NothingDone
Chaining == INSTANCE FoldFacts WITH Op <- Rechain, Base <- <<>>

-----------------------------------------------------------------------------
(* Transcripts and ledgers, one entry after the other. *)

LEMMA ToldIsFold == \A s : Told(s) = Telling!Fold(s)
BY DEF Told, Telling!Fold, FoldLeft, Telling!FoldLeft, MapThenFoldSet, Telling!MapThenFoldSet,
       Max, Telling!Max

LEMMA DoneIsFold == \A s : Done(s) = Doing!Fold(s)
BY DEF Done, Doing!Fold, FoldLeft, Doing!FoldLeft, MapThenFoldSet, Doing!MapThenFoldSet,
       Max, Doing!Max

LEMMA RechainedIsFold == \A s : Rechained(s) = Chaining!Fold(s)
BY DEF Rechained, Chaining!Fold, FoldLeft, Chaining!FoldLeft, MapThenFoldSet,
       Chaining!MapThenFoldSet, Max, Chaining!Max

\* Where what is told, and what is done, begins.
LEMMA NothingYet == Told(<<>>) = NothingTold /\ Done(<<>>) = NothingDone
BY ToldIsFold, DoneIsFold, Telling!FoldEmpty, Doing!FoldEmpty

\* One more entry.
LEMMA OneMore ==
  ASSUME NEW S, NEW s \in Seq(S), NEW e \in S
  PROVE  /\ Told(Append(s, e)) = Tell(Told(s), e)
         /\ Done(Append(s, e)) = Do(Done(s), e)
<1>1. Telling!Fold(Append(s, e)) = Tell(Telling!Fold(s), e)
  BY Telling!FoldAppend
<1>2. Doing!Fold(Append(s, e)) = Do(Doing!Fold(s), e)
  BY Doing!FoldAppend
<1> QED
  BY <1>1, <1>2, ToldIsFold, DoneIsFold

\* What the first n entries tell.
ToldBy(entries, n) == Told(SubSeq(entries, 1, n))

LEMMA ToldByStep ==
  ASSUME NEW S, NEW s \in Seq(S)
  PROVE  /\ ToldBy(s, 0) = NothingTold
         /\ ToldBy(s, Len(s)) = Told(s)
         /\ \A n \in 1 .. Len(s) : ToldBy(s, n) = Tell(ToldBy(s, n - 1), s[n])
<1>1. ToldBy(s, 0) = NothingTold
  <2>1. SubSeq(s, 1, 0) = <<>>
    BY Telling!Prefix
  <2> QED
    BY <2>1, NothingYet DEF ToldBy
<1>2. ToldBy(s, Len(s)) = Told(s)
  <2>1. SubSeq(s, 1, Len(s)) = s
    BY Telling!Prefix
  <2> QED
    BY <2>1 DEF ToldBy
<1>3. ASSUME NEW n \in 1 .. Len(s) PROVE ToldBy(s, n) = Tell(ToldBy(s, n - 1), s[n])
  BY Telling!FoldPrefix, ToldIsFold DEF ToldBy
<1> QED
  BY <1>1, <1>2, <1>3

\* What may be told of entries of S.
Payloads(S, kind) == {e.payload : e \in {x \in S : x.kind = kind}}

Tellings(S) ==
    [turns : Seq(S), decisions : Seq(Payloads(S, "AGENT_DECISION")),
     generations : Seq(Payloads(S, "AGENT_GENERATION"))]

LEMMA ToldTyped ==
  ASSUME NEW S, NEW s \in Seq(S)
  PROVE  Told(s) \in Tellings(S)
<1>1. NothingTold \in Tellings(S)
  BY DEF NothingTold, Tellings
<1>2. ASSUME NEW a \in Tellings(S), NEW e \in S PROVE Tell(a, e) \in Tellings(S)
  BY DEF Tell, Tellings, Payloads
<1>3. Telling!Fold(s) \in Tellings(S)
  BY <1>1, <1>2, Telling!FoldTyped
<1> QED
  BY <1>3, ToldIsFold

\* A sequence of anything is one of its own elements.
LEMMA OwnElements ==
  ASSUME NEW S, NEW s \in Seq(S)
  PROVE  s \in Seq(ToSet(s))
<1>1. s \in [1 .. Len(s) -> ToSet(s)]
  BY DEF ToSet
<1> QED
  BY <1>1

\* An entry appended to a chain.
NextEntry(entries, kind, payload) ==
    LedgerEntry(Len(entries), kind, RootSha256(entries), payload)

LEMMA EntryAppended ==
  ASSUME NEW s, NEW k, NEW p, s \in Seq(ToSet(s))
  PROVE  LET t == AppendEntry(s, k, p)
             n == Len(s) + 1
         IN  /\ t \in Seq(ToSet(t))
             /\ t # <<>>
             /\ Len(t) = n /\ n \in Nat \ {0} /\ Len(s) \in Nat
             /\ DOMAIN t = 1 .. n /\ DOMAIN s = 1 .. Len(s)
             /\ \A i \in 1 .. Len(s) : t[i] = s[i]
             /\ t[n] = NextEntry(s, k, p)
             /\ t[n].kind = k /\ t[n].payload = p
             /\ \A m \in 0 .. Len(s) : SubSeq(t, 1, m) = SubSeq(s, 1, m)
             /\ SubSeq(t, 1, Len(s)) = s
             /\ Told(t) = Tell(Told(s), t[n])
             /\ Done(t) = Do(Done(s), t[n])
<1> DEFINE e == NextEntry(s, k, p)
           t == AppendEntry(s, k, p)
           n == Len(s) + 1
           S == ToSet(s) \cup {e}
<1>1. t = Append(s, e)
  BY DEF AppendEntry, NextEntry
<1>2. e.kind = k /\ e.payload = p
  BY DEF NextEntry, LedgerEntry
<1>3. s \in Seq(S) /\ e \in S
  OBVIOUS
<1> HIDE DEF e, t, S
<1>4. /\ t \in Seq(S)
      /\ Len(t) = n /\ Len(s) \in Nat
      /\ DOMAIN t = 1 .. n /\ DOMAIN s = 1 .. Len(s)
      /\ \A i \in 1 .. Len(s) : t[i] = s[i]
      /\ t[n] = e
  BY <1>1, <1>3
<1>5. t \in Seq(ToSet(t)) /\ t # <<>>
  BY <1>4, OwnElements
<1>6. \A m \in 0 .. Len(s) : SubSeq(t, 1, m) = SubSeq(s, 1, m)
  BY <1>1, <1>3, Telling!PrefixOfAppend
<1>7. SubSeq(t, 1, Len(s)) = s
  <2>1. SubSeq(s, 1, Len(s)) = s /\ Len(s) \in 0 .. Len(s)
    BY <1>3, <1>4, Telling!Prefix
  <2> QED
    BY <1>6, <2>1
<1>8. Told(t) = Tell(Told(s), t[n]) /\ Done(t) = Do(Done(s), t[n])
  BY <1>1, <1>3, <1>4, OneMore
<1> QED
  BY <1>2, <1>4, <1>5, <1>6, <1>7, <1>8 DEF e, t

-----------------------------------------------------------------------------
(* A transcript with one more entry. *)

\* The transcript inside the gym: the agent's session and its turns.
Conversation(entries, session_id, view) ==
    /\ entries \in Seq(ToSet(entries)) /\ entries # <<>>
    /\ entries[1].kind = "AGENT_START"
    /\ entries[1].payload = [session_id |-> session_id, agent_task_view_sha256 |-> Sha256(view)]
    /\ \A i \in DOMAIN entries :
          /\ Chained(entries, i)
          /\ Said(entries, i)
          /\ i # 1 => entries[i].kind \in Turns

\* The turns count up to k; some turn does not.
Counted(entries, k) ==
    /\ k = Len(Told(entries).turns)
    /\ \A i \in TurnsOf(entries) : TurnIsDue(entries, i)

Miscounted(entries) == \E i \in TurnsOf(entries) : ~TurnIsDue(entries, i)

LEMMA LastEntry ==
  ASSUME NEW s, NEW k, NEW p, s \in Seq(ToSet(s))
  PROVE  LET t == AppendEntry(s, k, p)
             n == Len(s) + 1
         IN  /\ \A i \in 1 .. Len(s) : Before(t, i) = Before(s, i)
             /\ Before(t, n) = s
             /\ \A i \in 1 .. Len(s) :
                   Chained(s, i) /\ Said(s, i) => Chained(t, i) /\ Said(t, i)
             /\ p = [f \in FieldsOf(k) |-> p[f]] => Chained(t, n)
<1> DEFINE t == AppendEntry(s, k, p)
           n == Len(s) + 1
<1>1. /\ Len(s) \in Nat /\ n \in Nat /\ n - 1 = Len(s)
      /\ DOMAIN t = 1 .. n /\ DOMAIN s = 1 .. Len(s)
      /\ \A i \in 1 .. Len(s) : t[i] = s[i]
      /\ t[n] = NextEntry(s, k, p) /\ t[n].kind = k /\ t[n].payload = p
      /\ \A m \in 0 .. Len(s) : SubSeq(t, 1, m) = SubSeq(s, 1, m)
      /\ SubSeq(t, 1, Len(s)) = s
  BY EntryAppended
<1> HIDE DEF t
<1>2. \A i \in 1 .. Len(s) : Before(t, i) = Before(s, i)
  BY <1>1 DEF Before
<1>3. Before(t, n) = s
  BY <1>1 DEF Before
<1>4. ASSUME NEW i \in 1 .. Len(s), Chained(s, i), Said(s, i)
      PROVE  Chained(t, i) /\ Said(t, i)
  <2>1. t[i] = s[i] /\ AttemptDue(t, i) = AttemptDue(s, i)
    BY <1>1, <1>2 DEF AttemptDue
  <2>2. i > 1 => t[i - 1] = s[i - 1]
    BY <1>1
  <2>3. PreviousHash(t, i) = PreviousHash(s, i)
    BY <1>1, <2>2 DEF PreviousHash
  <2>4. i > 1 => (FollowsCall(t, i) <=> FollowsCall(s, i))
    BY <2>1, <2>2 DEF FollowsCall
  <2> QED
    BY <1>4, <2>1, <2>3, <2>4 DEF Chained, Said
<1>5. PreviousHash(t, n) = RootSha256(s)
  <2>1. CASE Len(s) = 0
    <3>1. s = <<>> /\ n = 1
      BY <2>1, EmptySeq
    <3> QED
      BY <3>1 DEF PreviousHash, RootSha256
  <2>2. CASE Len(s) # 0
    <3>1. Len(s) \in 1 .. Len(s) /\ n # 1 /\ n - 1 = Len(s) /\ s # <<>>
      BY <1>1, <2>2
    <3> QED
      BY <1>1, <3>1 DEF PreviousHash, RootSha256
  <2> QED
    BY <2>1, <2>2
<1>6. p = [f \in FieldsOf(k) |-> p[f]] => Chained(t, n)
  BY <1>1, <1>5 DEF Chained, NextEntry
<1> QED
  BY <1>2, <1>3, <1>4, <1>6 DEF t

\* One more turn.
LEMMA TurnAdded ==
  ASSUME NEW s, NEW k \in Turns, NEW p, NEW id, NEW view, Conversation(s, id, view),
         p = [f \in FieldsOf(k) |-> p[f]],
         k = "AGENT_DECISION" => p.decision \in Decisions,
         k = "AGENT_GENERATION" =>
            /\ p.attempt = Len(Told(s).generations) + 1
            /\ s[Len(s)].kind = "AGENT_DECISION"
            /\ s[Len(s)].payload.decision.kind = "CALL_GENERATIVE"
            /\ p.observation_frontier_sha256 = s[Len(s)].payload.observation_frontier_sha256
  PROVE  LET t == AppendEntry(s, k, p) IN
         /\ Conversation(t, id, view)
         /\ \A m \in Nat : Counted(s, m) /\ p.turn = m + 1 => Counted(t, m + 1)
         /\ \A m \in Nat : Counted(s, m) /\ p.turn = m => Miscounted(t)
         /\ Miscounted(s) => Miscounted(t)
<1> DEFINE t == AppendEntry(s, k, p)
           n == Len(s) + 1
<1>0. s \in Seq(ToSet(s)) /\ s # <<>>
  BY DEF Conversation
<1>1. /\ Len(s) \in Nat /\ n \in Nat \ {0} /\ n - 1 = Len(s) /\ Len(s) # 0 /\ n > 1 /\ n # 1
      /\ 1 \in 1 .. Len(s) /\ Len(s) \in 1 .. Len(s)
  BY <1>0
<1>2. /\ t \in Seq(ToSet(t)) /\ t # <<>>
      /\ DOMAIN t = 1 .. n /\ DOMAIN s = 1 .. Len(s)
      /\ \A i \in 1 .. Len(s) : t[i] = s[i]
      /\ t[n].kind = k /\ t[n].payload = p
      /\ Told(t) = Tell(Told(s), t[n])
  BY <1>0, EntryAppended
<1>3. /\ \A i \in 1 .. Len(s) : Before(t, i) = Before(s, i)
      /\ Before(t, n) = s
      /\ \A i \in 1 .. Len(s) : Chained(s, i) /\ Said(s, i) => Chained(t, i) /\ Said(t, i)
      /\ Chained(t, n)
  BY <1>0, LastEntry
<1> HIDE DEF t
<1>4. Said(t, n)
  BY <1>1, <1>2, <1>3 DEF Said, AttemptDue, FollowsCall
<1>5. Conversation(t, id, view)
  <2>1. ASSUME NEW i \in DOMAIN t
        PROVE  Chained(t, i) /\ Said(t, i) /\ (i # 1 => t[i].kind \in Turns)
    <3>1. CASE i \in 1 .. Len(s)
      BY <1>2, <1>3, <3>1 DEF Conversation
    <3>2. CASE i = n
      BY <1>2, <1>3, <1>4, <3>2
    <3> QED
      BY <1>1, <1>2, <3>1, <3>2
  <2> QED
    BY <1>1, <1>2, <2>1 DEF Conversation
<1>6. /\ TurnsOf(t) = TurnsOf(s) \cup {n}
      /\ TurnsOf(s) \subseteq 1 .. Len(s)
  BY <1>1, <1>2 DEF TurnsOf
<1>7. /\ \A i \in TurnsOf(s) : TurnIsDue(t, i) <=> TurnIsDue(s, i)
      /\ TurnIsDue(t, n) <=> p.turn = Len(Told(s).turns) + 1
  BY <1>2, <1>3, <1>6 DEF TurnIsDue, TurnDue
<1>8. Len(Told(t).turns) = Len(Told(s).turns) + 1 /\ Len(Told(s).turns) \in Nat
  <2>1. Told(s).turns \in Seq(ToSet(s))
    BY <1>0, ToldTyped DEF Tellings
  <2>2. Told(t).turns = Append(Told(s).turns, t[n])
    BY <1>2 DEF Tell
  <2> QED
    BY <2>1, <2>2
<1>9. \A m \in Nat : Counted(s, m) /\ p.turn = m + 1 => Counted(t, m + 1)
  BY <1>6, <1>7, <1>8 DEF Counted
<1>10. \A m \in Nat : Counted(s, m) /\ p.turn = m => Miscounted(t)
  BY <1>6, <1>7, <1>8 DEF Counted, Miscounted
<1>11. Miscounted(s) => Miscounted(t)
  BY <1>6, <1>7 DEF Miscounted
<1> QED
  BY <1>5, <1>9, <1>10, <1>11 DEF t

-----------------------------------------------------------------------------
(* The transcript, step by step. *)

HeardInv == RecordedInv /\ NumberedInv /\ SpokenInv

\* Inside the gym, that is a conversation whose turns count up to the agent's
\* last one unless it misnumbered one.
Conversing ==
    /\ Conversation(transcript, number, View)
    /\ turn \in Nat /\ faults \in Nat
    /\ faults = 0 => Counted(transcript, turn)
    /\ faults > 0 => Miscounted(transcript)

LEMMA InsideIsConversing ==
  stage = "gym" => (HeardInv <=> Conversing)
<1> SUFFICES ASSUME stage = "gym" PROVE HeardInv <=> Conversing
  OBVIOUS
<1>1. ASSUME HeardInv PROVE Conversing
  <2>1. Conversation(transcript, number, View)
    <3>1. \A i \in DOMAIN transcript : i # 1 => transcript[i].kind \in Turns
      BY <1>1 DEF HeardInv, RecordedInv
    <3> QED
      BY <1>1, <3>1 DEF HeardInv, RecordedInv, SpokenInv, Conversation
  <2> QED
    BY <1>1, <2>1 DEF HeardInv, NumberedInv, Conversing, Counted, Miscounted
<1>2. ASSUME Conversing PROVE HeardInv
  <2>1. RecordedInv
    BY <1>2 DEF Conversing, Conversation, RecordedInv
  <2>2. NumberedInv
    BY <1>2 DEF Conversing, NumberedInv, Counted, Miscounted
  <2> QED
    BY <1>2, <2>1, <2>2 DEF Conversing, Conversation, SpokenInv, HeardInv
<1> QED
  BY <1>1, <1>2

LEMMA InsideIsConversingNext == (stage = "gym" => (HeardInv <=> Conversing))'
BY InsideIsConversing, PTL

\* A step of the run that leaves the transcript alone.
StageMoves ==
    \/ stage' = stage \/ stage' = "over"
    \/ stage \in {"request", "attest", "open"} /\ stage' \in {"request", "attest", "open"}
    \/ stage = "bind" /\ stage' = "learn"

LEMMA TranscriptKept ==
  ASSUME HeardInv, stage \in Stages, StageMoves,
         UNCHANGED <<task, number, transcript, turn, faults>>
  PROVE  HeardInv'
<1>1. RecordedInv'
  <2>1. View' = View
    BY DEF View, Gym!AgentView
  <2>2. \A i \in DOMAIN transcript : Chained(transcript, i)' <=> Chained(transcript, i)
    BY DEF Chained, PreviousHash
  <2> QED
    BY <2>1, <2>2 DEF HeardInv, RecordedInv, StageMoves, Stages
<1>2. NumberedInv'
  <2>1. TurnsOf(transcript)' = TurnsOf(transcript)
    BY DEF TurnsOf
  <2>2. \A i : TurnIsDue(transcript, i)' <=> TurnIsDue(transcript, i)
    BY DEF TurnIsDue, TurnDue, Before, Told
  <2> QED
    BY <2>1, <2>2 DEF HeardInv, NumberedInv, StageMoves, Stages, Told
<1>3. SpokenInv'
  <2>1. \A i : Said(transcript, i)' <=> Said(transcript, i)
    BY DEF Said, AttemptDue, Before, Told, FollowsCall
  <2> QED
    BY <2>1 DEF HeardInv, SpokenInv
<1> QED
  BY <1>1, <1>2, <1>3 DEF HeardInv

\* No transcript yet.
LEMMA NoTranscript ==
  ASSUME transcript = <<>>, turn = 0, faults = 0, stage \in {"request", "attest", "open"}
  PROVE  HeardInv
<1>1. transcript \in Seq(ToSet(transcript)) /\ DOMAIN transcript = {}
  <2>1. <<>> \in Seq({}) /\ DOMAIN <<>> = {}
    OBVIOUS
  <2> QED
    BY <2>1, OwnElements
<1> QED
  BY <1>1 DEF HeardInv, RecordedInv, NumberedInv, SpokenInv, TurnsOf

LEMMA TranscriptOpened ==
  ASSUME HeardInv, OpenAgent
  PROVE  HeardInv' /\ Told(transcript') = Told(transcript)
<1> DEFINE p == [session_id |-> number, agent_task_view_sha256 |-> Sha256(View)]
           none == <<>>
           t == AppendEntry(none, "AGENT_START", p)
<1>1. /\ stage = "open" /\ stage' = "gym" /\ transcript' = t
      /\ UNCHANGED <<task, number, turn, faults>>
  BY DEF OpenAgent, NewTranscript, run, arguments
<1>2. turn = 0 /\ faults = 0
  BY <1>1 DEF HeardInv, NumberedInv
<1>3. none \in Seq(ToSet(none)) /\ Len(none) + 1 = 1 /\ 1 .. 1 = {1} /\ Told(none) = NothingTold
  BY OwnElements, NothingYet
<1>4. p = [f \in FieldsOf("AGENT_START") |-> p[f]]
  BY DEF FieldsOf
<1> HIDE DEF p, none
<1>5. /\ t \in Seq(ToSet(t)) /\ t # <<>> /\ DOMAIN t = {1}
      /\ t[1].kind = "AGENT_START" /\ t[1].payload = p
      /\ Told(t) = Tell(Told(none), t[1])
      /\ Chained(t, 1)
  <2> DEFINE n == Len(none) + 1
  <2>1. /\ t \in Seq(ToSet(t)) /\ t # <<>> /\ DOMAIN t = 1 .. n
        /\ t[n].kind = "AGENT_START" /\ t[n].payload = p
        /\ Told(t) = Tell(Told(none), t[n])
    BY <1>3, EntryAppended
  <2>2. Chained(t, n)
    BY <1>3, <1>4, LastEntry
  <2>3. n = 1
    BY <1>3
  <2> HIDE DEF n, t
  <2> QED
    BY <1>3, <2>1, <2>2, <2>3
<1> HIDE DEF t
<1>6. Told(t) = NothingTold
  BY <1>3, <1>5 DEF Tell, NothingTold, Turns
<1>7. Conversation(t, number, View) /\ Counted(t, 0)
  <2>1. Said(t, 1)
    BY <1>5 DEF Said
  <2>2. TurnsOf(t) = {}
    BY <1>5 DEF TurnsOf, Turns
  <2>3. Counted(t, 0)
    BY <1>6, <2>2 DEF Counted, NothingTold
  <2> QED
    BY <1>5, <2>1, <2>3 DEF Conversation, p
<1>8. View' = View
  BY <1>1 DEF View, Gym!AgentView
<1>9. Conversing'
  BY <1>1, <1>2, <1>7, <1>8 DEF Conversing
<1>10. Told(transcript) = NothingTold
  BY <1>1, NothingYet DEF HeardInv, RecordedInv
<1> QED
  BY <1>1, <1>6, <1>9, <1>10, InsideIsConversingNext

DecisionPayload(t, d) ==
    [turn |-> t, observation_frontier_sha256 |-> Sha256(observations),
     trajectory_sha256 |-> Sha256(trajectory), decision |-> d]

GenerationPayload(t, n, c) ==
    [turn |-> t, observation_frontier_sha256 |-> Sha256(observations),
     attempt |-> n, candidate_sha256 |-> Sha256(c)]

\* One answer of the agent, that may have misnumbered it.
LEMMA DecisionAdded ==
  ASSUME Conversing, NEW d \in Decisions, NEW t, Answers(t)
  PROVE  LET s == AppendEntry(transcript, "AGENT_DECISION", DecisionPayload(t, d)) IN
         /\ Conversation(s, number, View)
         /\ t \in Nat /\ faults' \in Nat
         /\ faults' = 0 => Counted(s, t)
         /\ faults' > 0 => Miscounted(s)
<1> DEFINE p == DecisionPayload(t, d)
           s == AppendEntry(transcript, "AGENT_DECISION", p)
<1>1. /\ p = [f \in FieldsOf("AGENT_DECISION") |-> p[f]]
      /\ p.decision = d /\ p.turn = t
  BY DEF DecisionPayload, FieldsOf
<1>2. /\ Conversation(transcript, number, View)
      /\ turn \in Nat /\ faults \in Nat
      /\ faults = 0 => Counted(transcript, turn)
      /\ faults > 0 => Miscounted(transcript)
  BY DEF Conversing
<1> HIDE DEF p
<1>3. /\ Conversation(s, number, View)
      /\ \A m \in Nat : Counted(transcript, m) /\ p.turn = m + 1 => Counted(s, m + 1)
      /\ \A m \in Nat : Counted(transcript, m) /\ p.turn = m => Miscounted(s)
      /\ Miscounted(transcript) => Miscounted(s)
  BY <1>1, <1>2, TurnAdded DEF Turns
<1> HIDE DEF s
<1>4. CASE t = turn + 1 /\ faults' = faults
  BY <1>1, <1>2, <1>3, <1>4 DEF p, s
<1>5. CASE t = turn /\ faults' = faults + 1
  BY <1>1, <1>2, <1>3, <1>5 DEF p, s
<1> QED
  BY <1>4, <1>5 DEF Answers

\* ... and, if it was a generative call, the candidate after it.
LEMMA GenerationAdded ==
  ASSUME Conversing, NEW d \in Decisions, NEW t, Answers(t), d.kind = "CALL_GENERATIVE",
         NEW n, n = Len(Told(transcript).generations) + 1, NEW c
  PROVE  LET r == AppendEntry(transcript, "AGENT_DECISION", DecisionPayload(t, d))
             s == AppendEntry(r, "AGENT_GENERATION", GenerationPayload(t + 1, n, c))
         IN
         /\ Conversation(s, number, View)
         /\ t + 1 \in Nat /\ faults' \in Nat
         /\ faults' = 0 => Counted(s, t + 1)
         /\ faults' > 0 => Miscounted(s)
<1> DEFINE q == DecisionPayload(t, d)
           p == GenerationPayload(t + 1, n, c)
           r == AppendEntry(transcript, "AGENT_DECISION", q)
           s == AppendEntry(r, "AGENT_GENERATION", p)
<1>1. /\ p = [f \in FieldsOf("AGENT_GENERATION") |-> p[f]]
      /\ p.turn = t + 1 /\ p.attempt = n
      /\ p.observation_frontier_sha256 = q.observation_frontier_sha256
      /\ q.decision = d
  BY DEF GenerationPayload, DecisionPayload, FieldsOf
<1>2. /\ Conversation(r, number, View)
      /\ t \in Nat /\ faults' \in Nat
      /\ faults' = 0 => Counted(r, t)
      /\ faults' > 0 => Miscounted(r)
  BY DecisionAdded
<1>3. transcript \in Seq(ToSet(transcript))
  BY DEF Conversing, Conversation
<1> HIDE DEF p, q
<1>4. /\ Len(r) = Len(transcript) + 1
      /\ r[Len(r)].kind = "AGENT_DECISION" /\ r[Len(r)].payload = q
      /\ Told(r) = Tell(Told(transcript), r[Len(r)])
  BY <1>3, EntryAppended
<1> HIDE DEF r
<1>5. Told(r).generations = Told(transcript).generations
  BY <1>4 DEF Tell
<1>6. /\ Conversation(s, number, View)
      /\ \A m \in Nat : Counted(r, m) /\ p.turn = m + 1 => Counted(s, m + 1)
      /\ Miscounted(r) => Miscounted(s)
  <2>1. /\ p.attempt = Len(Told(r).generations) + 1
        /\ r[Len(r)].kind = "AGENT_DECISION"
        /\ r[Len(r)].payload.decision.kind = "CALL_GENERATIVE"
        /\ p.observation_frontier_sha256 = r[Len(r)].payload.observation_frontier_sha256
    BY <1>1, <1>4, <1>5
  <2> QED
    BY <1>1, <1>2, <2>1, TurnAdded DEF Turns
<1> HIDE DEF s
<1> QED
  BY <1>1, <1>2, <1>6 DEF p, q, r, s

LEMMA TurnTaken ==
  ASSUME HeardInv, AgreedInv, failure = None, stage = "gym",
         NEW d \in Decisions, NEW t,
         AgentDecides(d, t) \/ AgentGenerateRaises(d, t)
  PROVE  HeardInv'
<1>1. /\ stage' = "gym" /\ Answers(t) /\ turn' = t
      /\ transcript' = AppendEntry(transcript, "AGENT_DECISION", DecisionPayload(t, d))
      /\ UNCHANGED number
  BY DEF AgentDecides, AgentGenerateRaises, RecordAgentDecision, DecisionPayload, arguments
<1>2. View' = View
  BY DEF AgentDecides, AgentGenerateRaises, Gym!DecideAction, Gym!SelectionInvalid,
         Gym!GenerationRefused, Gym!GeneratorRaises, Gym!Decided, Gym!inputs, View, Gym!AgentView
<1>3. Conversing
  BY InsideIsConversing
<1>4. /\ Conversation(transcript', number, View)
      /\ t \in Nat /\ faults' \in Nat
      /\ faults' = 0 => Counted(transcript', t)
      /\ faults' > 0 => Miscounted(transcript')
  BY <1>1, <1>3, DecisionAdded
<1>5. Conversing'
  BY <1>1, <1>2, <1>4 DEF Conversing
<1> QED
  BY <1>1, <1>5, InsideIsConversingNext

LEMMA CandidateGiven ==
  ASSUME HeardInv, AgreedInv, failure = None, stage = "gym",
         NEW d \in Decisions, NEW t, NEW c, AgentGenerates(d, c, t)
  PROVE  HeardInv'
<1> DEFINE n == generativeCalls + 1
<1>1. /\ stage' = "gym" /\ Answers(t) /\ turn' = t + 1
      /\ UNCHANGED number
      /\ d.kind = "CALL_GENERATIVE"
  BY DEF AgentGenerates, Gym!Generate, arguments
<1>2. transcript' =
        AppendEntry(AppendEntry(transcript, "AGENT_DECISION", DecisionPayload(t, d)),
                    "AGENT_GENERATION", GenerationPayload(t + 1, n, c))
  BY DEF AgentGenerates, Gym!Generate, RecordAgentDecision, RecordAgentGeneration,
         DecisionPayload, GenerationPayload
<1>3. View' = View
  BY DEF AgentGenerates, Gym!Generate, Gym!Decided, Gym!inputs, View, Gym!AgentView
<1>4. Conversing
  BY InsideIsConversing
<1>5. n = Len(Told(transcript).generations) + 1
  BY DEF AgreedInv
<1> HIDE DEF n
<1>6. /\ Conversation(transcript', number, View)
      /\ t + 1 \in Nat /\ faults' \in Nat
      /\ faults' = 0 => Counted(transcript', t + 1)
      /\ faults' > 0 => Miscounted(transcript')
  BY <1>1, <1>2, <1>4, <1>5, GenerationAdded
<1>7. Conversing'
  BY <1>1, <1>3, <1>6 DEF Conversing
<1> QED
  BY <1>1, <1>7, InsideIsConversingNext

LEMMA TranscriptClosed ==
  ASSUME HeardInv, stage = "gym", CloseAgent
  PROVE  HeardInv' /\ Told(transcript') = Told(transcript)
<1> DEFINE p == [session_id |-> number, closed |-> TRUE]
           n == Len(transcript) + 1
<1>1. /\ stage' \in {"bind", "over"} /\ UNCHANGED <<number, turn, faults>>
      /\ transcript' = AppendEntry(transcript, "AGENT_CLOSE", p)
  BY DEF CloseAgent, Fail, RecordClose, arguments
<1>2. View' = View
  BY DEF CloseAgent, run, View, Gym!AgentView
<1>3. /\ Conversation(transcript, number, View)
      /\ turn \in Nat /\ faults \in Nat
      /\ faults = 0 => Counted(transcript, turn)
      /\ faults > 0 => Miscounted(transcript)
  BY InsideIsConversing DEF Conversing
<1>4. transcript \in Seq(ToSet(transcript)) /\ transcript # <<>>
  BY <1>3 DEF Conversation
<1>5. p = [f \in FieldsOf("AGENT_CLOSE") |-> p[f]]
  BY DEF FieldsOf
<1> HIDE DEF p
<1>6. /\ transcript' \in Seq(ToSet(transcript')) /\ transcript' # <<>>
      /\ Len(transcript') = n /\ n \in Nat /\ Len(transcript) \in Nat
      /\ DOMAIN transcript' = 1 .. n /\ DOMAIN transcript = 1 .. Len(transcript)
      /\ \A i \in 1 .. Len(transcript) : transcript'[i] = transcript[i]
      /\ transcript'[n].kind = "AGENT_CLOSE" /\ transcript'[n].payload = p
      /\ Told(transcript') = Tell(Told(transcript), transcript'[n])
  BY <1>1, <1>4, EntryAppended
<1>7. /\ \A i \in 1 .. Len(transcript) : Before(transcript', i) = Before(transcript, i)
      /\ \A i \in 1 .. Len(transcript) :
            Chained(transcript, i) /\ Said(transcript, i) =>
                Chained(transcript', i) /\ Said(transcript', i)
      /\ Chained(transcript', n)
  BY <1>1, <1>4, <1>5, LastEntry
<1>8. n > 1 /\ 1 \in 1 .. Len(transcript)
  BY <1>4, <1>6, EmptySeq
<1> HIDE DEF n
<1>9. RecordedInv'
  <2>1. \A i \in DOMAIN transcript' : Chained(transcript', i)
    BY <1>3, <1>6, <1>7 DEF Conversation, n
  <2>2. /\ transcript'[1].kind = "AGENT_START"
        /\ transcript'[1].payload =
              [session_id |-> number', agent_task_view_sha256 |-> Sha256(View')]
    BY <1>1, <1>2, <1>3, <1>6, <1>8 DEF Conversation
  <2>3. \A i \in DOMAIN transcript' \ {1} :
          \/ transcript'[i].kind \in Turns
          \/ i = Len(transcript') /\ transcript'[i].kind = "AGENT_CLOSE"
    BY <1>3, <1>6 DEF Conversation, n
  <2> QED
    BY <1>1, <1>6, <1>8, <2>1, <2>2, <2>3 DEF RecordedInv, p
<1>10. NumberedInv'
  <2>1. TurnsOf(transcript') = TurnsOf(transcript) /\ TurnsOf(transcript) \subseteq 1 .. Len(transcript)
    BY <1>6 DEF TurnsOf, Turns, n
  <2>2. \A i \in TurnsOf(transcript) :
          TurnIsDue(transcript', i) <=> TurnIsDue(transcript, i)
    BY <1>6, <1>7, <2>1 DEF TurnIsDue, TurnDue
  <2> QED
    BY <1>1, <1>3, <2>1, <2>2 DEF NumberedInv, Counted, Miscounted
<1>11. SpokenInv'
  <2>1. Said(transcript', n)
    BY <1>6 DEF Said
  <2> QED
    BY <1>3, <1>6, <1>7, <2>1 DEF SpokenInv, Conversation, n
<1>12. Told(transcript') = Told(transcript)
  <2>1. PICK S : Told(transcript) \in Tellings(S)
    BY <1>4, ToldTyped
  <2> QED
    BY <1>6, <2>1 DEF Tell, Tellings, Turns
<1> QED
  BY <1>9, <1>10, <1>11, <1>12 DEF HeardInv

-----------------------------------------------------------------------------
(* The gym: what its steps do to what the transcript is compared with. *)

\* What may be done by entries of S.
Doings(S) ==
    LET A == {e.payload.action : e \in S} IN
    [actions : Seq(A),
     decisions : Seq([payload : {e.payload : e \in S},
                      trajectory_sha256 : {Sha256(a) : a \in Seq(A)}]),
     candidates : Seq({e.payload.candidate_sha256 : e \in S})]

LEMMA DoneTyped ==
  ASSUME NEW S, NEW s \in Seq(S)
  PROVE  Done(s) \in Doings(S)
<1>1. NothingDone \in Doings(S)
  BY DEF NothingDone, Doings
<1>2. ASSUME NEW a \in Doings(S), NEW e \in S PROVE Do(a, e) \in Doings(S)
  <2> DEFINE A == {x.payload.action : x \in S}
             D == [payload : {x.payload : x \in S},
                   trajectory_sha256 : {Sha256(y) : y \in Seq(A)}]
             C == {x.payload.candidate_sha256 : x \in S}
  <2>1. a.actions \in Seq(A) /\ a.decisions \in Seq(D) /\ a.candidates \in Seq(C)
    BY DEF Doings
  <2>2. /\ e.payload.action \in A /\ e.payload.candidate_sha256 \in C
        /\ [payload |-> e.payload, trajectory_sha256 |-> Sha256(a.actions)] \in D
    BY <2>1
  <2>3. Doings(S) = [actions : Seq(A), decisions : Seq(D), candidates : Seq(C)]
    BY DEF Doings
  <2> HIDE DEF A, D, C
  <2>4. /\ Append(a.actions, e.payload.action) \in Seq(A)
        /\ Append(a.candidates, e.payload.candidate_sha256) \in Seq(C)
        /\ Append(a.decisions, [payload |-> e.payload, trajectory_sha256 |-> Sha256(a.actions)])
              \in Seq(D)
    BY <2>1, <2>2
  <2> QED
    BY <2>1, <2>3, <2>4 DEF Do
<1>3. Doing!Fold(s) \in Doings(S)
  BY <1>1, <1>2, Doing!FoldTyped
<1> QED
  BY <1>3, DoneIsFold

\* A step after which something has failed.
LEMMA Failed ==
  ASSUME PhaseInv, InGym, UNCHANGED <<task, stage>>, failure' # None,
         outcome' = "running" <=> phase' # "end", phase' \in {"close", "end"},
         ledger' \in Seq(ToSet(ledger'))
  PROVE  AgreedInv' /\ PhaseInv'
<1>1. AgreedInv'
  BY DEF AgreedInv
<1>2. PhaseInv'
  BY DEF PhaseInv, InGym, Gym!Phases
<1> QED
  BY <1>1, <1>2

\* What a step of the gym without the agent leaves alone.
LEMMA GymAlone ==
  ASSUME GymSteps
  PROVE  /\ stage = "gym" /\ stage' = "gym" /\ outcome = "running"
         /\ UNCHANGED <<task, transcript, candidates, turn, faults, number, raised>>
<1>1. /\ stage = "gym" /\ outcome = "running"
      /\ UNCHANGED <<stage, raised, transcript, candidates, turn, faults, number>>
  BY DEF GymSteps, InGym, arguments, boundary
<1> USE DEF Gym!inputs
<1>2. ASSUME NEW b \in ResetBatches, Gym!Start(b) PROVE task' = task
  BY <1>2 DEF Gym!Start
<1>3. ASSUME NEW b \in StepBatches, NEW isDone \in BOOLEAN, Gym!HostStep(b, isDone)
      PROVE  task' = task
  BY <1>3 DEF Gym!HostStep
<1>4. ASSUME NEW v \in BOOLEAN, Gym!VerifierRaises(v) PROVE task' = task
  BY <1>4 DEF Gym!VerifierRaises
<1>5. ASSUME NEW v \in BOOLEAN, NEW p \in BOOLEAN, Gym!Admit(v, p) PROVE task' = task
  BY <1>5 DEF Gym!Admit
<1>6. ASSUME \/ Gym!StartRaises \/ Gym!SurfaceMismatch \/ Gym!StepBudgetExhausted
             \/ Gym!HostRejects \/ Gym!HostStepRaises \/ Gym!VerdictRaises \/ Gym!Learn
             \/ Gym!Close \/ Gym!CloseRaises
      PROVE  task' = task
  BY <1>6 DEF Gym!StartRaises, Gym!SurfaceMismatch, Gym!StepBudgetExhausted, Gym!HostRejects,
     Gym!HostStepRaises, Gym!VerdictRaises, Gym!Learn, Gym!Close, Gym!CloseRaises
<1> QED
  BY <1>1, <1>2, <1>3, <1>4, <1>5, <1>6 DEF GymSteps

\* The gym records what Episode's own instance of the ledger says.
LEMMA SameLedger ==
  /\ \A v : Gym!Sha256(v) = Sha256(v)
  /\ \A s, k, p : Gym!AppendEntry(s, k, p) = AppendEntry(s, k, p)
BY DEF Gym!Sha256, Sha256, Gym!AppendEntry, AppendEntry, Gym!LedgerEntry, LedgerEntry,
       Gym!EntryHash, EntryHash, Gym!RootSha256, RootSha256, Gym!ZERO_HASH, ZERO_HASH

\* The calls that raise.
GymRaises ==
    \/ Gym!StartRaises
    \/ Gym!SurfaceMismatch
    \/ Gym!HostStepRaises
    \/ Gym!VerdictRaises
    \/ \E v \in BOOLEAN : Gym!VerifierRaises(v)
    \/ Gym!CloseRaises

\* A ledger stays a sequence.
LEMMA LedgerExtended ==
  ASSUME NEW s, NEW k, NEW p, s \in Seq(ToSet(s))
  PROVE  AppendEntry(s, k, p) \in Seq(ToSet(AppendEntry(s, k, p)))
BY EntryAppended

LEMMA GymRaisesAgreed ==
  ASSUME PhaseInv, JudgedInv, GymSteps, GymRaises
  PROVE  AgreedInv' /\ PhaseInv' /\ JudgedInv'
<1> USE DEF Gym!effects
<1>0. InGym /\ UNCHANGED <<task, stage>> /\ ledger \in Seq(ToSet(ledger))
  BY GymAlone DEF InGym, PhaseInv
<1>1. /\ failure' # None /\ receipt' = receipt
      /\ outcome' = "running" <=> phase' # "end"
      /\ phase' \in {"close", "end"}
      /\ ledger' \in Seq(ToSet(ledger'))
  <2> USE GymAssumption DEF Gym!Failures, InGym, Gym!Raise, Gym!progress
  <2>1. CASE Gym!StartRaises
    BY <1>0, <2>1 DEF Gym!StartRaises
  <2>2. CASE Gym!SurfaceMismatch
    BY <1>0, <2>2 DEF Gym!SurfaceMismatch
  <2>3. CASE Gym!HostStepRaises
    BY <1>0, <2>3 DEF Gym!HostStepRaises
  <2>4. CASE Gym!VerdictRaises
    BY <1>0, <2>4 DEF Gym!VerdictRaises
  <2>5. ASSUME NEW v \in BOOLEAN, Gym!VerifierRaises(v)
        PROVE  /\ failure' # None /\ receipt' = receipt
               /\ outcome' = "running" <=> phase' # "end"
               /\ phase' \in {"close", "end"}
               /\ ledger' \in Seq(ToSet(ledger'))
    <3>1. ledger' \in Seq(ToSet(ledger'))
      <4>1. PICK p : ledger' = Gym!AppendEntry(ledger, "TERMINAL", p)
        BY <2>5 DEF Gym!VerifierRaises, Gym!SealedLedger, Gym!RecordTerminal
      <4> QED
        BY <1>0, <4>1, SameLedger, LedgerExtended
    <3> QED
      BY <1>0, <2>5, <3>1 DEF Gym!VerifierRaises
  <2>6. CASE Gym!CloseRaises
    BY <1>0, <2>6 DEF Gym!CloseRaises
  <2> QED
    BY <2>1, <2>2, <2>3, <2>4, <2>5, <2>6 DEF GymRaises
<1>2. AgreedInv' /\ PhaseInv'
  BY <1>0, <1>1, Failed
<1>3. JudgedInv'
  BY <1>1 DEF JudgedInv, ProofValid
<1> QED
  BY <1>2, <1>3

\* Steps that record nothing.
LEMMA GymMovesOn ==
  ASSUME PhaseInv, JudgedInv, AgreedInv, GymSteps,
         Gym!StepBudgetExhausted \/ Gym!HostRejects \/ Gym!Learn \/ Gym!Close
  PROVE  AgreedInv' /\ PhaseInv' /\ JudgedInv'
<1>0. /\ stage = "gym" /\ stage' = "gym" /\ outcome = "running"
      /\ UNCHANGED <<task, transcript, candidates>>
  BY GymAlone
<1>1. /\ UNCHANGED <<ledger, receipt, failure, generativeCalls, candidate>>
      /\ phase' \in {"seal", "close", "end"}
      /\ outcome' = "running" <=> phase' # "end"
      /\ phase \in {"loop", "step", "learn", "close"}
      /\ phase = "close" <=> phase' = "end"
      /\ phase = "learn" <=> phase' = "close"
  <2> USE DEF Gym!progress, Gym!effects
  <2>1. CASE Gym!StepBudgetExhausted
    BY <1>0, <2>1 DEF Gym!StepBudgetExhausted, Gym!Exhaust
  <2>2. CASE Gym!HostRejects
    BY <1>0, <2>2 DEF Gym!HostRejects, Gym!RefuseDecision
  <2>3. CASE Gym!Learn
    BY <1>0, <2>3 DEF Gym!Learn
  <2>4. CASE Gym!Close
    BY <1>0, <2>4 DEF Gym!Close
  <2> QED
    BY <2>1, <2>2, <2>3, <2>4
<1>2. AwaitedCandidates' = AwaitedCandidates
  <2>1. AwaitedCandidates' = <<>>
    BY <1>1 DEF AwaitedCandidates
  <2>2. CASE phase # "step"
    BY <2>1, <2>2 DEF AwaitedCandidates
  <2>3. CASE phase = "step"
    <3>1. Gym!HostRejects
      BY <2>3 DEF Gym!StepBudgetExhausted, Gym!Learn, Gym!Close
    <3>2. candidate = None
      BY <2>3, <3>1 DEF Gym!HostRejects, Gym!ActionAllowed, PhaseInv
    <3> QED
      BY <2>1, <3>2 DEF AwaitedCandidates
  <2> QED
    BY <2>2, <2>3
<1>3. AgreedInv'
  BY <1>0, <1>1, <1>2 DEF AgreedInv, DecisionsBound, CandidatesOf
<1>4. PhaseInv'
  BY <1>0, <1>1 DEF PhaseInv, Gym!Phases, View, Gym!AgentView
<1>5. JudgedInv'
  BY <1>1 DEF JudgedInv, ProofValid
<1> QED
  BY <1>3, <1>4, <1>5

\* host.start: the ledger opens with the task and its view, and its first batch.
LEMMA GymStarts ==
  ASSUME PhaseInv, JudgedInv, AgreedInv, GymSteps, NEW b \in ResetBatches, Gym!Start(b)
  PROVE  AgreedInv' /\ PhaseInv' /\ JudgedInv'
<1>0. /\ stage = "gym" /\ stage' = "gym" /\ outcome = "running"
      /\ UNCHANGED <<task, transcript, candidates>>
  BY GymAlone
<1>1. /\ phase = "start" /\ phase' \in {"loop", "seal"}
      /\ phase' = "loop" => trajectory' = <<>>
      /\ UNCHANGED <<candidate, generativeCalls, receipt, failure, outcome>>
      /\ candidates = <<>> /\ generativeCalls = 0 /\ Told(transcript) = NothingTold
  BY DEF Gym!Start, Gym!Exhaust, Gym!effects, PhaseInv
<1> DEFINE p == [agent_task_view_sha256 |-> Sha256(View), host_task_commitment |-> Sha256(task)]
           q == [observations |-> b, observations_sha256 |-> Sha256(b)]
           none == <<>>
           one == AppendEntry(none, "EPISODE_START", p)
<1>2. ledger' = AppendEntry(one, "OBSERVATION_BATCH", q)
  <2>1. Gym!NewLedger(Gym!AgentView(task), Gym!Sha256(task)) = one
    BY SameLedger DEF Gym!NewLedger, View
  <2>2. Gym!RecordObservationBatch(one, b) = AppendEntry(one, "OBSERVATION_BATCH", q)
    BY SameLedger DEF Gym!RecordObservationBatch
  <2> HIDE DEF one, q
  <2> QED
    BY <2>1, <2>2 DEF Gym!Start
<1>3. none \in Seq(ToSet(none)) /\ Len(none) + 1 = 1 /\ Done(none) = NothingDone
  BY OwnElements, NothingYet
<1> HIDE DEF p, q, none
<1>4. /\ one \in Seq(ToSet(one)) /\ Len(one) = 1
      /\ one[1].kind = "EPISODE_START" /\ one[1].payload = p
      /\ Done(one) = Do(Done(none), one[1])
  <2> DEFINE n == Len(none) + 1
  <2>1. /\ one \in Seq(ToSet(one)) /\ Len(one) = n
        /\ one[n].kind = "EPISODE_START" /\ one[n].payload = p
        /\ Done(one) = Do(Done(none), one[n])
    BY <1>3, EntryAppended
  <2>2. n = 1
    BY <1>3
  <2> HIDE DEF n, one
  <2> QED
    BY <2>1, <2>2
<1> HIDE DEF one
<1>5. /\ ledger' \in Seq(ToSet(ledger')) /\ ledger' # <<>>
      /\ ledger'[1] = one[1]
      /\ ledger'[Len(one) + 1].kind = "OBSERVATION_BATCH"
      /\ Done(ledger') = Do(Done(one), ledger'[Len(one) + 1])
  <2>1. 1 \in 1 .. Len(one)
    BY <1>4
  <2> QED
    BY <1>2, <1>4, <2>1, EntryAppended
<1>6. Done(ledger') = NothingDone
  BY <1>3, <1>4, <1>5 DEF Do, NothingDone
<1>7. AgreedInv'
  <2>1. Told(transcript') = NothingTold /\ candidates' = <<>> /\ generativeCalls' = 0
    BY <1>0, <1>1
  <2>2. AwaitedCandidates' = <<>> /\ CandidatesOf' = <<>>
    BY <1>1, <2>1 DEF AwaitedCandidates, CandidatesOf
  <2>3. DecisionsBound(transcript', ledger')
    BY <1>6, <2>1 DEF DecisionsBound, NothingTold, NothingDone
  <2>4. candidates' \in Seq(ToSet(candidates')) /\ DOMAIN candidates' = {} /\ Len(candidates') = 0
    BY <2>1, OwnElements
  <2>5. phase' \in {"start", "loop", "step"} => trajectory' = Done(ledger').actions
    BY <1>1, <1>6 DEF NothingDone
  <2>6. Done(ledger').candidates \o AwaitedCandidates' = CandidatesOf'
    BY <1>6, <2>2 DEF NothingDone
  <2> QED
    BY <2>1, <2>3, <2>4, <2>5, <2>6 DEF AgreedInv, NothingTold
<1>8. PhaseInv'
  <2>1. View' = View
    BY <1>0 DEF View, Gym!AgentView
  <2> QED
    BY <1>0, <1>1, <1>4, <1>5, <2>1 DEF PhaseInv, Gym!Phases, p
<1>9. JudgedInv'
  BY <1>1 DEF JudgedInv, ProofValid
<1> QED
  BY <1>7, <1>8, <1>9

\* host.step: an action has its result, and a candidate what it came to.
LEMMA GymActs ==
  ASSUME NoneIsNoDigest, PhaseInv, JudgedInv, AgreedInv, GymSteps,
         NEW b \in StepBatches, NEW isDone \in BOOLEAN, Gym!HostStep(b, isDone)
  PROVE  AgreedInv' /\ PhaseInv' /\ JudgedInv'
<1> DEFINE h == IF candidate = None THEN None ELSE Sha256(candidate)
           p == [decision_entry_hash |-> Gym!RootSha256(ledger), action |-> action,
                 done |-> isDone, observations |-> b, observations_sha256 |-> Sha256(b),
                 candidate_sha256 |-> h]
           n == Len(ledger) + 1
<1>0. /\ stage = "gym" /\ stage' = "gym" /\ outcome = "running"
      /\ UNCHANGED <<task, transcript, candidates>>
  BY GymAlone
<1>1. /\ phase = "step" /\ phase' \in {"loop", "seal"}
      /\ phase' = "loop" => trajectory' = Append(trajectory, action)
      /\ UNCHANGED <<candidate, generativeCalls, receipt, failure, outcome>>
  BY DEF Gym!HostStep, Gym!ConcludeStep, Gym!Overrun, Gym!Finish, Gym!GoOn, Gym!Exhaust, Gym!effects
<1>2. ledger' = AppendEntry(ledger, "ACTION_RESULT", p)
  BY SameLedger DEF Gym!HostStep, Gym!RecordActionResult
<1>3. /\ ledger \in Seq(ToSet(ledger)) /\ ledger # <<>> /\ failure = None
      /\ ledger[1].payload = [agent_task_view_sha256 |-> Sha256(View),
                              host_task_commitment |-> Sha256(task)]
  BY <1>1 DEF PhaseInv
<1>4. p.action = action /\ p.candidate_sha256 = h
  OBVIOUS
<1> HIDE DEF p, h
<1>5. /\ ledger' \in Seq(ToSet(ledger')) /\ ledger' # <<>>
      /\ \A i \in 1 .. Len(ledger) : ledger'[i] = ledger[i]
      /\ ledger'[n].kind = "ACTION_RESULT" /\ ledger'[n].payload = p
      /\ Done(ledger') = Do(Done(ledger), ledger'[n])
  BY <1>2, <1>3, EntryAppended
<1>6. 1 \in 1 .. Len(ledger)
  BY <1>3, EmptySeq
<1> HIDE DEF n
<1>7. /\ Done(ledger').actions = Append(Done(ledger).actions, action)
      /\ Done(ledger').decisions = Done(ledger).decisions
      /\ Done(ledger').candidates = IF h # None THEN Append(Done(ledger).candidates, h)
                                    ELSE Done(ledger).candidates
  BY <1>4, <1>5 DEF Do
<1>8. Done(ledger').candidates \o AwaitedCandidates' = CandidatesOf'
  <2>1. Done(ledger).candidates \in Seq({e.payload.candidate_sha256 : e \in ToSet(ledger)})
    BY <1>3, DoneTyped DEF Doings
  <2>2. AwaitedCandidates' = <<>> /\ CandidatesOf' = CandidatesOf
    BY <1>0, <1>1 DEF AwaitedCandidates, CandidatesOf
  <2>3. Done(ledger).candidates \o AwaitedCandidates = CandidatesOf
    BY <1>3 DEF AgreedInv
  <2>4. CASE candidate = None
    <3>1. h = None /\ AwaitedCandidates = <<>>
      BY <2>4 DEF h, AwaitedCandidates
    <3> QED
      BY <1>7, <2>2, <2>3, <3>1
  <2>5. CASE candidate # None
    <3>1. h = Sha256(candidate) /\ h # None /\ AwaitedCandidates = <<h>>
      BY <1>1, <2>5 DEF h, AwaitedCandidates, NoneIsNoDigest
    <3>2. Done(ledger').candidates = Done(ledger).candidates \o <<h>>
      BY <1>7, <2>1, <3>1
    <3>3. CandidatesOf \in Seq({e.payload.candidate_sha256 : e \in ToSet(ledger)} \cup {h})
      <4> DEFINE C == {e.payload.candidate_sha256 : e \in ToSet(ledger)}
      <4>1. Done(ledger).candidates \in Seq(C \cup {h}) /\ <<h>> \in Seq(C \cup {h})
        BY <2>1
      <4> HIDE DEF C
      <4>2. Done(ledger).candidates \o <<h>> \in Seq(C \cup {h})
        BY <4>1
      <4> QED
        BY <2>3, <3>1, <4>2 DEF C
    <3>4. CandidatesOf \o <<>> = CandidatesOf
      BY <3>3
    <3> QED
      BY <2>2, <2>3, <3>1, <3>2, <3>4
  <2> QED
    BY <2>4, <2>5
<1>9. AgreedInv'
  <2>1. phase' \in {"start", "loop", "step"} => trajectory' = Done(ledger').actions
    BY <1>1, <1>3, <1>7 DEF AgreedInv
  <2>2. DecisionsBound(transcript', ledger')
    BY <1>0, <1>3, <1>7 DEF AgreedInv, DecisionsBound
  <2> QED
    BY <1>0, <1>1, <1>3, <1>8, <2>1, <2>2 DEF AgreedInv
<1>10. PhaseInv'
  <2>1. View' = View
    BY <1>0 DEF View, Gym!AgentView
  <2> QED
    BY <1>0, <1>1, <1>3, <1>5, <1>6, <2>1 DEF PhaseInv, Gym!Phases
<1>11. JudgedInv'
  BY <1>1 DEF JudgedInv, ProofValid
<1> QED
  BY <1>9, <1>10, <1>11

\* The episode is judged.
LEMMA GymAdmits ==
  ASSUME PhaseInv, JudgedInv, AgreedInv, GymSteps,
         NEW v \in BOOLEAN, NEW passed \in BOOLEAN, Gym!Admit(v, passed)
  PROVE  AgreedInv' /\ PhaseInv' /\ JudgedInv'
<1> DEFINE n == Len(ledger) + 1
<1>0. /\ stage = "gym" /\ stage' = "gym" /\ outcome = "running"
      /\ UNCHANGED <<task, transcript, candidates>>
  BY GymAlone
<1>1. /\ phase = "seal" /\ phase' = "learn"
      /\ UNCHANGED <<candidate, generativeCalls, failure, outcome>>
  BY Zenon DEF Gym!Admit
<1>2. PICK p : ledger' = AppendEntry(ledger, "TERMINAL", p)
  <2>1. ledger' = Gym!SealedLedger(v)
    BY Zenon DEF Gym!Admit
  <2> QED
    BY <2>1, SameLedger DEF Gym!SealedLedger, Gym!RecordTerminal
<1>3. /\ ledger \in Seq(ToSet(ledger)) /\ ledger # <<>> /\ failure = None
      /\ ledger[1].payload = [agent_task_view_sha256 |-> Sha256(View),
                              host_task_commitment |-> Sha256(task)]
  BY <1>1 DEF PhaseInv
<1>4. /\ ledger' \in Seq(ToSet(ledger')) /\ ledger' # <<>>
      /\ \A i \in 1 .. Len(ledger) : ledger'[i] = ledger[i]
      /\ ledger'[n].kind = "TERMINAL"
      /\ Done(ledger') = Do(Done(ledger), ledger'[n])
  BY <1>2, <1>3, EntryAppended
<1>5. 1 \in 1 .. Len(ledger)
  BY <1>3, EmptySeq
<1> HIDE DEF n
<1>6. /\ Done(ledger').decisions = Done(ledger).decisions
      /\ Done(ledger').candidates = Done(ledger).candidates
  BY <1>4 DEF Do
<1>7. AgreedInv'
  <2>1. AwaitedCandidates' = AwaitedCandidates /\ CandidatesOf' = CandidatesOf
    BY <1>0, <1>1 DEF AwaitedCandidates, CandidatesOf
  <2>2. DecisionsBound(transcript', ledger')
    BY <1>0, <1>3, <1>6 DEF AgreedInv, DecisionsBound
  <2> QED
    BY <1>0, <1>1, <1>3, <1>6, <2>1, <2>2 DEF AgreedInv
<1>8. PhaseInv'
  <2>1. View' = View
    BY <1>0 DEF View, Gym!AgentView
  <2> QED
    BY <1>0, <1>1, <1>3, <1>4, <1>5, <2>1 DEF PhaseInv, Gym!Phases
<1>9. JudgedInv'
  <2> DEFINE document   == Gym!ToDocument(Gym!SealedLedger(v))
             semantic   == Gym!SemanticValid(v)
             provenance == Gym!ProvenanceValid(observations)
             valid      == Gym!VerifyLedgerDocument(document)
             integrity  == Gym!BundleAccepted(document, semantic, provenance) /\ passed
  <2>1. receipt' = Gym!AdmissionReceipt(semantic, provenance, valid, integrity)
    BY Zenon DEF Gym!Admit
  <2>2. /\ semantic \in BOOLEAN
        /\ provenance \in BOOLEAN
        /\ valid \in BOOLEAN
        /\ integrity \in BOOLEAN
        /\ (semantic /\ provenance /\ valid /\ integrity) \in BOOLEAN
    BY Zenon DEF Gym!SemanticValid, Gym!ProvenanceValid, Gym!VerifyLedgerDocument
  <2> HIDE DEF document, semantic, provenance, valid, integrity
  <2>3. receipt' \in Gym!Receipts
    BY <2>1, <2>2, Zenon DEF Gym!Receipts, Gym!AdmissionReceipt
  <2>4. /\ receipt'.admitted = (semantic /\ provenance /\ valid /\ integrity)
        /\ receipt'.semantic_valid = semantic /\ receipt'.provenance_valid = provenance
        /\ receipt'.trajectory_valid = valid /\ receipt'.integrity_valid = integrity
    BY <2>1 DEF Gym!AdmissionReceipt
  <2>5. receipt'.admitted <=> receipt'.semantic_valid /\ ProofValid(receipt')
    BY <2>4, Zenon DEF ProofValid
  <2>6. receipt' # None
    BY <2>3, GymAssumption
  <2> QED
    BY <2>3, <2>5, <2>6 DEF JudgedInv
<1> QED
  BY <1>7, <1>8, <1>9

LEMMA GymStepAgreed ==
  ASSUME NoneIsNoDigest, PhaseInv, JudgedInv, AgreedInv, GymSteps
  PROVE  AgreedInv' /\ PhaseInv' /\ JudgedInv'
<1>1. CASE GymRaises
  BY <1>1, GymRaisesAgreed
<1>2. CASE Gym!StepBudgetExhausted \/ Gym!HostRejects \/ Gym!Learn \/ Gym!Close
  BY <1>2, GymMovesOn
<1>3. CASE \E b \in ResetBatches : Gym!Start(b)
  BY <1>3, GymStarts
<1>4. CASE \E b \in StepBatches, isDone \in BOOLEAN : Gym!HostStep(b, isDone)
  BY <1>4, GymActs
<1>5. CASE \E v, p \in BOOLEAN : Gym!Admit(v, p)
  BY <1>5, GymAdmits
<1> QED
  BY <1>1, <1>2, <1>3, <1>4, <1>5 DEF GymSteps, GymRaises

\* A decision, recorded in the transcript and in the ledger.
LEMMA DecisionTwice ==
  ASSUME NEW s, NEW l, NEW d, NEW t,
         s \in Seq(ToSet(s)), l \in Seq(ToSet(l)), DecisionsBound(s, l),
         trajectory = Done(l).actions
  PROVE  LET r == AppendEntry(s, "AGENT_DECISION", DecisionPayload(t, d))
             m == AppendEntry(l, "DECISION", [decision |-> d,
                                 observation_frontier_sha256 |-> Sha256(observations)])
         IN  /\ r \in Seq(ToSet(r)) /\ m \in Seq(ToSet(m)) /\ m # <<>>
             /\ \A i \in 1 .. Len(l) : m[i] = l[i]
             /\ DecisionsBound(r, m)
             /\ Told(r).generations = Told(s).generations
             /\ Done(m).actions = Done(l).actions
             /\ Done(m).candidates = Done(l).candidates
<1> DEFINE p == DecisionPayload(t, d)
           q == [decision |-> d, observation_frontier_sha256 |-> Sha256(observations)]
           r == AppendEntry(s, "AGENT_DECISION", p)
           m == AppendEntry(l, "DECISION", q)
           act == [payload |-> q, trajectory_sha256 |-> Sha256(Done(l).actions)]
<1>1. DecisionBound(p, act)
  BY DEF DecisionBound, DecisionPayload
<1> HIDE DEF p, q
<1>2. /\ r \in Seq(ToSet(r))
      /\ r[Len(s) + 1].kind = "AGENT_DECISION" /\ r[Len(s) + 1].payload = p
      /\ Told(r) = Tell(Told(s), r[Len(s) + 1])
  BY EntryAppended
<1>3. /\ m \in Seq(ToSet(m)) /\ m # <<>>
      /\ \A i \in 1 .. Len(l) : m[i] = l[i]
      /\ m[Len(l) + 1].kind = "DECISION" /\ m[Len(l) + 1].payload = q
      /\ Done(m) = Do(Done(l), m[Len(l) + 1])
  BY EntryAppended
<1> HIDE DEF r, m
<1>4. /\ Told(r).decisions = Append(Told(s).decisions, p)
      /\ Told(r).generations = Told(s).generations
  BY <1>2 DEF Tell
<1>5. /\ Done(m).decisions = Append(Done(l).decisions, act)
      /\ Done(m).actions = Done(l).actions
      /\ Done(m).candidates = Done(l).candidates
  BY <1>3 DEF Do
<1>6. DecisionsBound(r, m)
  <2> DEFINE said == Told(s).decisions
             did  == Done(l).decisions
  <2>1. PICK P : said \in Seq(P)
    BY ToldTyped DEF Tellings
  <2>2. PICK D : did \in Seq(D)
    BY DoneTyped DEF Doings
  <2>3. Len(said) = Len(did) /\ \A n \in DOMAIN said : DecisionBound(said[n], did[n])
    BY DEF DecisionsBound
  <2> HIDE DEF said, did, act
  <2>4. /\ Len(Append(said, p)) = Len(Append(did, act))
        /\ DOMAIN Append(said, p) = 1 .. Len(said) + 1
        /\ DOMAIN said = 1 .. Len(said) /\ Len(said) \in Nat
        /\ \A n \in 1 .. Len(said) : Append(said, p)[n] = said[n] /\ Append(did, act)[n] = did[n]
        /\ Append(said, p)[Len(said) + 1] = p /\ Append(did, act)[Len(said) + 1] = act
    <3>1. said \in Seq(P \cup {p}) /\ did \in Seq(D \cup {act})
      BY <2>1, <2>2
    <3> QED
      BY <2>3, <3>1
  <2>5. \A n \in DOMAIN Append(said, p) : DecisionBound(Append(said, p)[n], Append(did, act)[n])
    BY <1>1, <2>3, <2>4
  <2> QED
    BY <1>4, <1>5, <2>4, <2>5 DEF DecisionsBound, said, did
<1> QED
  BY <1>2, <1>3, <1>4, <1>5, <1>6 DEF r, m, p, q

\* What holds in the gym when the agent is asked, and what an answer appends.
LEMMA AgentAsked ==
  ASSUME RecordedInv, PhaseInv, AgreedInv, phase = "loop"
  PROVE  /\ transcript \in Seq(ToSet(transcript)) /\ ledger \in Seq(ToSet(ledger))
         /\ ledger # <<>> /\ 1 \in 1 .. Len(ledger) /\ failure = None
         /\ DecisionsBound(transcript, ledger)
         /\ trajectory = Done(ledger).actions
         /\ AwaitedCandidates = <<>>
<1>1. /\ transcript \in Seq(ToSet(transcript)) /\ ledger \in Seq(ToSet(ledger))
      /\ ledger # <<>> /\ failure = None
  BY DEF RecordedInv, PhaseInv
<1>2. 1 \in 1 .. Len(ledger)
  BY <1>1, EmptySeq
<1> QED
  BY <1>1, <1>2 DEF AgreedInv, AwaitedCandidates

LEMMA AgentDecidesAgreed ==
  ASSUME RecordedInv, PhaseInv, JudgedInv, AgreedInv,
         NEW d \in Decisions, NEW t, AgentDecides(d, t)
  PROVE  AgreedInv' /\ PhaseInv' /\ JudgedInv'
<1> DEFINE q == [decision |-> d, observation_frontier_sha256 |-> Sha256(observations)]
<1>1. /\ Gym!Decided(d)
      /\ phase' \in {"step", "seal"}
      /\ phase' = "step" => candidate' = None /\ trajectory' = trajectory
      /\ UNCHANGED <<generativeCalls, failure>>
  BY DEF AgentDecides, Gym!DecideAction, Gym!SelectionInvalid, Gym!GenerationRefused,
         Gym!RefuseDecision
<1>2. /\ stage = "gym" /\ stage' = "gym" /\ outcome = "running" /\ outcome' = "running"
      /\ phase = "loop" /\ UNCHANGED <<task, receipt, candidates>>
      /\ transcript' = AppendEntry(transcript, "AGENT_DECISION", DecisionPayload(t, d))
  BY <1>1 DEF AgentDecides, InGym, Gym!Decided, Gym!inputs, Gym!effects, RecordAgentDecision,
              DecisionPayload
<1>3. ledger' = AppendEntry(ledger, "DECISION", q)
  BY <1>1, SameLedger DEF Gym!Decided, Gym!RecordDecision
<1>4. /\ transcript \in Seq(ToSet(transcript)) /\ ledger \in Seq(ToSet(ledger))
      /\ ledger # <<>> /\ 1 \in 1 .. Len(ledger) /\ failure = None
      /\ DecisionsBound(transcript, ledger)
      /\ trajectory = Done(ledger).actions
      /\ AwaitedCandidates = <<>>
  BY <1>2, AgentAsked
<1>5. /\ ledger' \in Seq(ToSet(ledger')) /\ ledger' # <<>> /\ ledger'[1] = ledger[1]
      /\ DecisionsBound(transcript', ledger')
      /\ Told(transcript').generations = Told(transcript).generations
      /\ Done(ledger').actions = Done(ledger).actions
      /\ Done(ledger').candidates = Done(ledger).candidates
  BY <1>2, <1>3, <1>4, DecisionTwice
<1>6. AwaitedCandidates' = <<>> /\ CandidatesOf' = CandidatesOf
  BY <1>1, <1>2 DEF AwaitedCandidates, CandidatesOf
<1>7. AgreedInv'
  BY <1>1, <1>2, <1>4, <1>5, <1>6 DEF AgreedInv
<1>8. PhaseInv'
  <2>1. View' = View
    BY <1>2 DEF View, Gym!AgentView
  <2> QED
    BY <1>1, <1>2, <1>4, <1>5, <2>1 DEF PhaseInv, Gym!Phases
<1>9. JudgedInv'
  BY <1>1, <1>2 DEF JudgedInv, ProofValid
<1> QED
  BY <1>7, <1>8, <1>9

LEMMA AgentGeneratesAgreed ==
  ASSUME RecordedInv, PhaseInv, JudgedInv, AgreedInv,
         NEW d \in Decisions, NEW t, NEW c \in Candidates, AgentGenerates(d, c, t)
  PROVE  AgreedInv' /\ PhaseInv' /\ JudgedInv'
<1> DEFINE q == [decision |-> d, observation_frontier_sha256 |-> Sha256(observations)]
           r == AppendEntry(transcript, "AGENT_DECISION", DecisionPayload(t, d))
           g == GenerationPayload(t + 1, generativeCalls', c)
<1>1. /\ Gym!Decided(d)
      /\ phase' = "step" /\ candidate' = c
      /\ action' = "CALL_GENERATIVE" /\ "CALL_GENERATIVE" \in task.allowed_actions
      /\ generativeCalls' = generativeCalls + 1
      /\ UNCHANGED <<trajectory, failure>>
  BY DEF AgentGenerates, Gym!Generate, Gym!MayGenerate
<1>2. /\ stage = "gym" /\ stage' = "gym" /\ outcome = "running" /\ outcome' = "running"
      /\ phase = "loop" /\ UNCHANGED <<task, receipt>>
      /\ candidates' = Append(candidates, c)
      /\ transcript' = AppendEntry(r, "AGENT_GENERATION", g)
  BY <1>1 DEF AgentGenerates, InGym, Gym!Decided, Gym!inputs, Gym!effects, RecordAgentDecision,
              RecordAgentGeneration, DecisionPayload, GenerationPayload
<1>3. ledger' = AppendEntry(ledger, "DECISION", q)
  BY <1>1, SameLedger DEF Gym!Decided, Gym!RecordDecision
<1>4. /\ transcript \in Seq(ToSet(transcript)) /\ ledger \in Seq(ToSet(ledger))
      /\ ledger # <<>> /\ 1 \in 1 .. Len(ledger) /\ failure = None
      /\ DecisionsBound(transcript, ledger)
      /\ trajectory = Done(ledger).actions
      /\ AwaitedCandidates = <<>>
  BY <1>2, AgentAsked
<1>5. /\ r \in Seq(ToSet(r))
      /\ ledger' \in Seq(ToSet(ledger')) /\ ledger' # <<>> /\ ledger'[1] = ledger[1]
      /\ DecisionsBound(r, ledger')
      /\ Told(r).generations = Told(transcript).generations
      /\ Done(ledger').actions = Done(ledger).actions
      /\ Done(ledger').candidates = Done(ledger).candidates
  BY <1>3, <1>4, DecisionTwice
<1>6. g.candidate_sha256 = Sha256(c)
  BY DEF GenerationPayload
<1> HIDE DEF r, g, q
<1>7. /\ transcript'[Len(r) + 1].kind = "AGENT_GENERATION" /\ transcript'[Len(r) + 1].payload = g
      /\ Told(transcript') = Tell(Told(r), transcript'[Len(r) + 1])
  BY <1>2, <1>5, EntryAppended
<1>8. /\ Told(transcript').decisions = Told(r).decisions
      /\ Told(transcript').generations = Append(Told(transcript).generations, g)
  BY <1>5, <1>7 DEF Tell
<1>9. /\ candidates \in Seq(ToSet(candidates)) /\ generativeCalls = Len(candidates)
      /\ Len(Told(transcript).generations) = Len(candidates)
      /\ \A n \in DOMAIN candidates :
            Told(transcript).generations[n].candidate_sha256 = Sha256(candidates[n])
      /\ Done(ledger).candidates \o <<>> = CandidatesOf
  BY <1>4 DEF AgreedInv
<1>10. PICK P : Told(transcript).generations \in Seq(P)
  BY <1>4, ToldTyped DEF Tellings
<1>11. PICK C : Done(ledger).candidates \in Seq(C)
  BY <1>4, DoneTyped DEF Doings
<1>12. /\ candidates' \in Seq(ToSet(candidates'))
       /\ DOMAIN candidates' = 1 .. Len(candidates) + 1 /\ Len(candidates') = Len(candidates) + 1
       /\ DOMAIN candidates = 1 .. Len(candidates) /\ Len(candidates) \in Nat
       /\ \A n \in 1 .. Len(candidates) : candidates'[n] = candidates[n]
       /\ candidates'[Len(candidates) + 1] = c
  <2> DEFINE S == ToSet(candidates) \cup {c}
  <2>1. candidates \in Seq(S) /\ c \in S
    BY <1>9
  <2> HIDE DEF S
  <2>2. /\ candidates' \in Seq(S) /\ DOMAIN candidates' = 1 .. Len(candidates')
        /\ Len(candidates') = Len(candidates) + 1
        /\ DOMAIN candidates = 1 .. Len(candidates) /\ Len(candidates) \in Nat
        /\ \A n \in 1 .. Len(candidates) : candidates'[n] = candidates[n]
        /\ candidates'[Len(candidates) + 1] = c
    BY <1>2, <2>1
  <2>3. candidates' \in Seq(ToSet(candidates'))
    BY <2>2, OwnElements
  <2> QED
    BY <2>2, <2>3
<1>13. /\ Len(Told(transcript').generations) = Len(candidates')
       /\ \A n \in DOMAIN candidates' :
             Told(transcript').generations[n].candidate_sha256 = Sha256(candidates'[n])
  <2> DEFINE G == Told(transcript).generations
  <2>1. G \in Seq(P \cup {g}) /\ Len(G) = Len(candidates)
    BY <1>9, <1>10
  <2> HIDE DEF G
  <2>2. /\ Len(Append(G, g)) = Len(candidates) + 1
        /\ \A n \in 1 .. Len(candidates) : Append(G, g)[n] = G[n]
        /\ Append(G, g)[Len(candidates) + 1] = g
    BY <2>1
  <2> QED
    BY <1>6, <1>8, <1>9, <1>12, <2>2 DEF G
<1>14. Done(ledger').candidates \o AwaitedCandidates' = CandidatesOf'
  <2> DEFINE old == Done(ledger).candidates
             h   == Sha256(c)
  <2>1. old = CandidatesOf
    BY <1>9, <1>11
  <2>2. AwaitedCandidates' = <<h>>
    BY <1>1, WireAssumption DEF AwaitedCandidates
  <2>3. /\ old \in Seq(C \cup {h}) /\ Len(old) = Len(candidates)
        /\ \A n \in 1 .. Len(candidates) : old[n] = Sha256(candidates[n])
    <3>1. DOMAIN old = 1 .. Len(candidates)
      BY <1>12, <2>1 DEF CandidatesOf
    <3> QED
      BY <1>11, <1>12, <2>1, <3>1 DEF CandidatesOf
  <2> HIDE DEF old, h
  <2>4. /\ old \o <<h>> \in Seq(C \cup {h})
        /\ Len(old \o <<h>>) = Len(candidates) + 1
        /\ \A n \in 1 .. Len(candidates) : (old \o <<h>>)[n] = old[n]
        /\ (old \o <<h>>)[Len(candidates) + 1] = h
    BY <1>12, <2>3
  <2>5. old \o <<h>> = [n \in 1 .. Len(candidates) + 1 |-> (old \o <<h>>)[n]]
    BY <2>4
  <2>6. \A n \in 1 .. Len(candidates) + 1 : (old \o <<h>>)[n] = Sha256(candidates'[n])
    BY <1>12, <2>3, <2>4 DEF h
  <2>7. old \o <<h>> = CandidatesOf'
    BY <1>12, <2>5, <2>6 DEF CandidatesOf
  <2> QED
    BY <1>5, <2>2, <2>7 DEF old
<1>15. AgreedInv'
  <2>1. DecisionsBound(transcript', ledger')
    BY <1>5, <1>8 DEF DecisionsBound
  <2> QED
    BY <1>1, <1>4, <1>5, <1>9, <1>12, <1>13, <1>14, <2>1 DEF AgreedInv
<1>16. PhaseInv'
  <2>1. View' = View
    BY <1>2 DEF View, Gym!AgentView
  <2> QED
    BY <1>1, <1>2, <1>4, <1>5, <2>1 DEF PhaseInv, Gym!Phases
<1>17. JudgedInv'
  BY <1>1, <1>2 DEF JudgedInv, ProofValid
<1> QED
  BY <1>15, <1>16, <1>17

LEMMA AgentFails ==
  ASSUME RecordedInv, PhaseInv, JudgedInv, AgreedInv,
         AgentDecideRaises \/ \E d \in Decisions, t \in {turn, turn + 1} : AgentGenerateRaises(d, t)
  PROVE  AgreedInv' /\ PhaseInv' /\ JudgedInv'
<1>1. ledger \in Seq(ToSet(ledger))
  BY DEF PhaseInv
<1>2. /\ InGym /\ UNCHANGED <<task, stage>> /\ receipt' = receipt /\ failure' # None
      /\ outcome' = outcome /\ phase' = "close"
      /\ ledger' \in Seq(ToSet(ledger'))
  <2> USE GymAssumption DEF Gym!Failures, Gym!Raise, Gym!progress, Gym!inputs, Gym!effects
  <2>1. CASE AgentDecideRaises
    BY <1>1, <2>1 DEF AgentDecideRaises, Gym!PolicyRaises
  <2>2. ASSUME NEW d \in Decisions, NEW t, AgentGenerateRaises(d, t)
        PROVE  /\ InGym /\ UNCHANGED <<task, stage>> /\ receipt' = receipt /\ failure' # None
               /\ outcome' = outcome /\ phase' = "close"
               /\ ledger' \in Seq(ToSet(ledger'))
    <3>1. ledger' \in Seq(ToSet(ledger'))
      BY <1>1, <2>2, SameLedger, LedgerExtended
         DEF AgentGenerateRaises, Gym!GeneratorRaises, Gym!Decided, Gym!RecordDecision
    <3> QED
      BY <2>2, <3>1 DEF AgentGenerateRaises, Gym!GeneratorRaises, Gym!Decided
  <2> QED
    BY <2>1, <2>2
<1>3. AgreedInv' /\ PhaseInv'
  BY <1>2, Failed DEF InGym
<1>4. JudgedInv'
  BY <1>2 DEF JudgedInv, ProofValid
<1> QED
  BY <1>3, <1>4

-----------------------------------------------------------------------------
(* Binding *)

\* The transcript of an agent that numbers its turns tells its episode.
LEMMA HonestIsBound ==
  ASSUME GymInv, StageInv, HeardInv, AgreedInv, PhaseInv, stage = "bind", faults = 0
  PROVE  TranscriptBound
<1> DEFINE doc == ToTranscript(transcript)
           n == Len(transcript)
<1>1. /\ transcript \in Seq(ToSet(transcript)) /\ n > 1 /\ n \in Nat /\ transcript # <<>>
      /\ DOMAIN transcript = 1 .. n
      /\ \A i \in DOMAIN transcript : Chained(transcript, i)
      /\ transcript[1].kind = "AGENT_START"
      /\ transcript[1].payload = [session_id |-> number, agent_task_view_sha256 |-> Sha256(View)]
      /\ \A i \in DOMAIN transcript \ {1} :
            \/ transcript[i].kind \in Turns
            \/ i = n /\ transcript[i].kind = "AGENT_CLOSE"
      /\ transcript[n].kind = "AGENT_CLOSE"
      /\ transcript[n].payload = [session_id |-> number, closed |-> TRUE]
  BY DEF HeardInv, RecordedInv
<1>2. \A i \in TurnsOf(transcript) : TurnIsDue(transcript, i)
  BY DEF HeardInv, NumberedInv
<1>3. failure = None /\ phase = "end"
  BY DEF GymInv, StageInv, PhaseInv
<1> HIDE DEF n
<1>4. ASSUME NEW i \in DOMAIN transcript PROVE EntryAccepted(transcript, i)
  <2>1. CASE i = 1
    BY <1>1, <2>1 DEF EntryAccepted
  <2>2. CASE i # 1 /\ transcript[i].kind = "AGENT_DECISION"
    <3>1. i \in TurnsOf(transcript) /\ i > 1
      BY <1>1, <2>2 DEF TurnsOf, Turns
    <3>2. transcript[i].payload.decision \in Decisions
      BY <2>2 DEF HeardInv, SpokenInv, Said
    <3> QED
      BY <1>2, <2>2, <3>1, <3>2, WireAssumption DEF EntryAccepted, TurnIsDue
  <2>3. CASE i # 1 /\ transcript[i].kind = "AGENT_GENERATION"
    <3>1. i \in TurnsOf(transcript) /\ i > 1
      BY <1>1, <2>3 DEF TurnsOf, Turns
    <3>2. transcript[i].payload.attempt = AttemptDue(transcript, i) /\ FollowsCall(transcript, i)
      BY <2>3 DEF HeardInv, SpokenInv, Said
    <3> QED
      BY <1>2, <2>3, <3>1, <3>2 DEF EntryAccepted, TurnIsDue
  <2>4. CASE i # 1 /\ i = n /\ transcript[i].kind = "AGENT_CLOSE"
    BY <1>1, <2>4 DEF EntryAccepted, n
  <2> QED
    BY <1>1, <2>1, <2>2, <2>3, <2>4 DEF Turns
<1>5. VerifyTranscript(doc)
  <2>1. /\ doc.entries = transcript /\ doc.format = TranscriptFormat
        /\ doc.entry_count = n /\ doc.root_sha256 = RootSha256(transcript)
    BY DEF ToTranscript, n
  <2>2. \A i \in DOMAIN transcript :
          transcript[i] = LedgerEntry(i - 1, transcript[i].kind, PreviousHash(transcript, i),
                                      transcript[i].payload)
    BY <1>1 DEF Chained
  <2> HIDE DEF doc
  <2>3. n >= 2
    BY <1>1
  <2> QED
    BY <1>1, <1>4, <2>1, <2>2, <2>3 DEF VerifyTranscript, n
<1>6. CandidatesBound(doc.entries, EpisodeResult)
  <2>1. PICK P : Told(transcript).generations \in Seq(P)
    BY <1>1, ToldTyped DEF Tellings
  <2>2. /\ candidates \in Seq(ToSet(candidates)) /\ generativeCalls = Len(candidates)
        /\ Len(Told(transcript).generations) = Len(candidates)
        /\ \A m \in DOMAIN candidates :
              Told(transcript).generations[m].candidate_sha256 = Sha256(candidates[m])
        /\ Done(ledger).candidates \o <<>> = CandidatesOf
    BY <1>3 DEF AgreedInv, AwaitedCandidates
  <2>3. PICK C : Done(ledger).candidates \in Seq(C)
    <3>1. ledger \in Seq(ToSet(ledger))
      BY DEF PhaseInv
    <3> QED
      BY <3>1, DoneTyped DEF Doings
  <2>4. Done(ledger).candidates = CandidatesOf
    BY <2>2, <2>3
  <2>5. DOMAIN Told(transcript).generations = DOMAIN candidates
    BY <2>1, <2>2
  <2>6. [m \in DOMAIN Told(transcript).generations |->
            Told(transcript).generations[m].candidate_sha256] = CandidatesOf
    BY <2>2, <2>5 DEF CandidatesOf
  <2> QED
    BY <2>2, <2>4, <2>6 DEF CandidatesBound, EpisodeResult, ToTranscript, CandidatesOf
<1>7. DecisionsBound(doc.entries, EpisodeResult.ledger)
  BY <1>3 DEF AgreedInv, ToTranscript, EpisodeResult
<1>8. doc.entries[1].payload.agent_task_view_sha256 = Sha256(View)
  BY <1>1 DEF ToTranscript
<1> QED
  BY <1>5, <1>6, <1>7, <1>8 DEF TranscriptBound, VerifyAgainstEpisode

\* That of an agent that does not tells nothing.
LEMMA BoundIsHonest ==
  ASSUME NumberedInv, TranscriptBound
  PROVE  faults = 0
<1>1. \A i \in DOMAIN transcript : EntryAccepted(transcript, i)
  BY DEF TranscriptBound, VerifyAgainstEpisode, VerifyTranscript, ToTranscript
<1>2. \A i \in TurnsOf(transcript) : TurnIsDue(transcript, i)
  BY <1>1 DEF EntryAccepted, TurnsOf, Turns, TurnIsDue
<1> QED
  BY <1>2 DEF NumberedInv

\* The ledger is always that of the task the receipt was asked for.
LEMMA RequestedIsBound ==
  ASSUME GymInv, StageInv, SessionInv, PhaseInv, stage = "bind", mode = "attested"
  PROVE  EpisodeRequested
<1>1. request = AttestationRequest(number, Peer, View, task, Context)
  BY DEF SessionInv, Requested, Stages
<1>2. failure = None /\ phase # "start"
  BY DEF GymInv, StageInv, PhaseInv
<1>3. ledger[1].payload = [agent_task_view_sha256 |-> Sha256(View),
                           host_task_commitment |-> Sha256(task)]
  BY <1>2 DEF PhaseInv
<1> QED
  BY <1>1, <1>3 DEF EpisodeRequested, AttestationRequest

-----------------------------------------------------------------------------
\* A step of the run that leaves the gym alone, and what the transcript tells.
LEMMA RunKept ==
  ASSUME AgreedInv, PhaseInv, JudgedInv, UNCHANGED <<run, candidates>>,
         Told(transcript') = Told(transcript),
         stage' \in {"request", "attest", "open"} => stage \in {"request", "attest", "open"}
  PROVE  AgreedInv' /\ PhaseInv' /\ JudgedInv'
<1> USE DEF run
<1>1. AgreedInv'
  <2>1. AwaitedCandidates' = AwaitedCandidates /\ CandidatesOf' = CandidatesOf
    BY DEF AwaitedCandidates, CandidatesOf
  <2>2. DecisionsBound(transcript', ledger') <=> DecisionsBound(transcript, ledger)
    BY DEF DecisionsBound
  <2> QED
    BY <2>1, <2>2 DEF AgreedInv
<1>2. PhaseInv'
  BY DEF PhaseInv, View, Gym!AgentView
<1>3. JudgedInv'
  BY DEF JudgedInv, ProofValid
<1> QED
  BY <1>1, <1>2, <1>3

Parts == HeardInv /\ AgreedInv /\ PhaseInv /\ JudgedInv /\ RefusedInv

\* What a run begins with.
RunBegins ==
    /\ ledger = <<>> /\ trajectory = <<>> /\ candidates = <<>> /\ transcript = <<>>
    /\ generativeCalls = 0 /\ turn = 0 /\ faults = 0
    /\ phase = "start" /\ outcome = "running"
    /\ candidate = None /\ receipt = None /\ failure = None /\ raised = None
    /\ stage \in {"request", "open"}

LEMMA RunBegun == RunBegins => Parts
<1> SUFFICES ASSUME RunBegins PROVE Parts
  OBVIOUS
<1> USE DEF RunBegins
<1> DEFINE none == <<>>
<1>1. none \in Seq(ToSet(none)) /\ DOMAIN none = {} /\ Len(none) = 0
      /\ Told(none) = NothingTold /\ Done(none) = NothingDone
  BY OwnElements, NothingYet
<1>2. HeardInv
  BY NoTranscript
<1>3. AgreedInv
  <2>1. AwaitedCandidates = <<>> /\ CandidatesOf = <<>>
    BY DEF AwaitedCandidates, CandidatesOf
  <2>2. DecisionsBound(transcript, ledger)
    BY <1>1 DEF DecisionsBound, NothingTold, NothingDone
  <2> QED
    BY <1>1, <2>1, <2>2 DEF AgreedInv, NothingTold, NothingDone
<1>4. PhaseInv
  BY <1>1 DEF PhaseInv, Gym!Phases
<1>5. JudgedInv /\ RefusedInv
  BY NoneIsNoFailure DEF JudgedInv, RefusedInv, Failures
<1> QED
  BY <1>2, <1>3, <1>4, <1>5 DEF Parts

LEMMA RunBegunNext == (RunBegins => Parts)'
BY RunBegun, PTL

\* Every step keeps what binding rests on.
LEMMA PartsStep ==
  ASSUME NoneIsNoDigest, GymInv, GymInv', StageInv, StageInv', SessionInv, Parts, [Next]_vars
  PROVE  Parts'
<1>0. /\ HeardInv /\ AgreedInv /\ PhaseInv /\ JudgedInv /\ RefusedInv
      /\ stage \in Stages /\ RecordedInv
  BY DEF Parts, StageInv, HeardInv
<1>1. ASSUME UNCHANGED <<run, transcript, candidates, turn, faults, number>>, StageMoves,
             raised' = raised \/ raised' \notin {"transcript", "binding"}
      PROVE  Parts'
  <2>1. HeardInv'
    BY <1>0, <1>1, TranscriptKept DEF run
  <2>2. AgreedInv' /\ PhaseInv' /\ JudgedInv'
    BY <1>0, <1>1, RunKept DEF StageMoves
  <2>3. RefusedInv'
    BY <1>0, <1>1 DEF RefusedInv
  <2> QED
    BY <2>1, <2>2, <2>3 DEF Parts
<1>2. CASE Request \/ NotConnected \/ AttestorRaises
  BY <1>1, <1>2 DEF Request, NotConnected, AttestorRaises, Fail, StageMoves, boundary, arguments
<1>3. ASSUME NEW r \in Offers, Attested(r) \/ NotAttested(r) \/ Presented(r)
      PROVE  Parts'
  BY <1>1, <1>3 DEF Attested, NotAttested, Presented, Fail, StageMoves, boundary, arguments
<1>4. CASE OpenAgent
  <2>1. /\ UNCHANGED <<run, candidates>> /\ stage' = "gym" /\ raised' = raised
        /\ faults' = faults
    BY <1>4 DEF OpenAgent
  <2>2. HeardInv' /\ Told(transcript') = Told(transcript)
    BY <1>0, <1>4, TranscriptOpened
  <2>3. AgreedInv' /\ PhaseInv' /\ JudgedInv'
    BY <1>0, <2>1, <2>2, RunKept
  <2>4. RefusedInv'
    BY <1>0, <2>1 DEF RefusedInv
  <2> QED
    BY <2>2, <2>3, <2>4 DEF Parts
<1>5. CASE OpenAgentRaises
  BY <1>1, <1>5 DEF OpenAgentRaises, Fail, StageMoves, arguments
<1>6. CASE GymSteps
  <2>1. /\ stage = "gym" /\ stage' = "gym"
        /\ UNCHANGED <<task, transcript, candidates, turn, faults, number, raised>>
    BY <1>6, GymAlone
  <2>2. HeardInv'
    BY <1>0, <2>1, TranscriptKept DEF StageMoves
  <2>3. AgreedInv' /\ PhaseInv' /\ JudgedInv'
    BY <1>0, <1>6, GymStepAgreed
  <2>4. RefusedInv'
    BY <1>0, <2>1 DEF RefusedInv
  <2> QED
    BY <2>2, <2>3, <2>4 DEF Parts
<1>7. CASE AgentSteps
  <2>1. stage = "gym" /\ stage' = "gym" /\ raised' = raised /\ raised = None
    BY <1>7, InsideGym DEF StageInv
  <2>2. RefusedInv'
    BY <2>1, NoneIsNoFailure DEF RefusedInv, Failures
  <2>3. ASSUME NEW d \in Decisions, NEW t \in {turn, turn + 1}, AgentDecides(d, t)
        PROVE  HeardInv' /\ AgreedInv' /\ PhaseInv' /\ JudgedInv'
    <3>1. failure = None
      BY <1>0, <2>3 DEF PhaseInv, AgentDecides, Gym!DecideAction, Gym!SelectionInvalid,
                        Gym!GenerationRefused, Gym!Decided
    <3> QED
      BY <1>0, <2>1, <2>3, <3>1, TurnTaken, AgentDecidesAgreed
  <2>4. ASSUME NEW d \in Decisions, NEW t \in {turn, turn + 1}, NEW c \in Candidates,
               AgentGenerates(d, c, t)
        PROVE  HeardInv' /\ AgreedInv' /\ PhaseInv' /\ JudgedInv'
    <3>1. failure = None
      BY <1>0, <2>4 DEF PhaseInv, AgentGenerates, Gym!Generate, Gym!Decided
    <3> QED
      BY <1>0, <2>1, <2>4, <3>1, CandidateGiven, AgentGeneratesAgreed
  <2>5. ASSUME NEW d \in Decisions, NEW t \in {turn, turn + 1}, AgentGenerateRaises(d, t)
        PROVE  HeardInv' /\ AgreedInv' /\ PhaseInv' /\ JudgedInv'
    <3>1. failure = None
      BY <1>0, <2>5 DEF PhaseInv, AgentGenerateRaises, Gym!GeneratorRaises, Gym!Decided
    <3> QED
      BY <1>0, <2>1, <2>5, <3>1, TurnTaken, AgentFails
  <2>6. ASSUME AgentDecideRaises
        PROVE  HeardInv' /\ AgreedInv' /\ PhaseInv' /\ JudgedInv'
    <3>1. UNCHANGED <<task, transcript, turn, faults, number>> /\ StageMoves
      BY <2>6 DEF AgentDecideRaises, Gym!PolicyRaises, Gym!inputs, arguments, StageMoves
    <3> QED
      BY <1>0, <2>6, <3>1, TranscriptKept, AgentFails
  <2> QED
    BY <1>7, <2>2, <2>3, <2>4, <2>5, <2>6 DEF Parts, AgentSteps
<1>8. CASE CloseAgent
  <2>1. /\ UNCHANGED <<run, candidates>> /\ stage = "gym" /\ stage' \in {"bind", "over"}
        /\ raised' \notin {"transcript", "binding"}
    BY <1>0, <1>8, NoneIsNoFailure DEF CloseAgent, Fail, StageInv, Failures
  <2>2. HeardInv' /\ Told(transcript') = Told(transcript)
    BY <1>0, <1>8, <2>1, TranscriptClosed
  <2>3. AgreedInv' /\ PhaseInv' /\ JudgedInv'
    BY <1>0, <2>1, <2>2, RunKept
  <2>4. RefusedInv'
    BY <2>1 DEF RefusedInv
  <2> QED
    BY <2>2, <2>3, <2>4 DEF Parts
<1>9. CASE CloseAgentRaises
  BY <1>1, <1>9 DEF CloseAgentRaises, CloseFailure, Fail, StageMoves, arguments
<1>10. CASE Bind
  <2>1. /\ UNCHANGED <<run, transcript, candidates, turn, faults, number>>
        /\ stage = "bind" /\ StageMoves
        /\ raised' = raised \/ (~TranscriptBound /\ raised' = "transcript")
             \/ (mode = "attested" /\ ~EpisodeRequested /\ raised' = "binding")
    BY <1>10 DEF Bind, Fail, StageMoves, arguments
  <2>2. raised' # "binding"
    BY <1>0, <2>1, RequestedIsBound, NoneIsNoFailure DEF StageInv, Failures
  <2>3. raised' = "transcript" => faults > 0
    <3>1. faults = 0 => TranscriptBound
      BY <1>0, <2>1, HonestIsBound
    <3> QED
      BY <1>0, <2>1, <3>1, NoneIsNoFailure DEF StageInv, Failures, HeardInv, NumberedInv
  <2>4. HeardInv'
    BY <1>0, <2>1, TranscriptKept DEF run
  <2>5. AgreedInv' /\ PhaseInv' /\ JudgedInv'
    BY <1>0, <2>1, RunKept DEF StageMoves
  <2>6. RefusedInv'
    BY <2>1, <2>2, <2>3 DEF RefusedInv
  <2> QED
    BY <2>4, <2>5, <2>6 DEF Parts
<1>11. CASE LearnOrNot \/ SinkRaises
  BY <1>1, <1>11 DEF LearnOrNot, SinkRaises, Fail, StageMoves, boundary, arguments
<1>12. CASE NextRun
  <2>1. RunBegins'
    BY <1>12 DEF NextRun, NewRun, RunBegins
  <2> QED
    BY <2>1, RunBegunNext
<1>13. CASE UNCHANGED vars
  BY <1>1, <1>13 DEF vars, StageMoves, boundary, arguments
<1> QED
  BY <1>2, <1>3, <1>4, <1>5, <1>6, <1>7, <1>8, <1>9, <1>10, <1>11, <1>12, <1>13
     DEF Next, AgentSteps

-----------------------------------------------------------------------------
(* What two transcripts tell. *)

LEMMA ToldByTyped ==
  ASSUME NEW S, NEW s \in Seq(S), NEW n \in 0 .. Len(s)
  PROVE  ToldBy(s, n) \in Tellings(S)
<1>1. SubSeq(s, 1, n) \in Seq(S)
  BY Telling!Prefix
<1> QED
  BY <1>1, ToldTyped DEF ToldBy

\* What each entry adds to the decisions and to the generations.
LEMMA EachTold ==
  ASSUME NEW S, NEW s \in Seq(S), NEW n \in 1 .. Len(s)
  PROVE  /\ ToldBy(s, n).decisions =
              IF s[n].kind = "AGENT_DECISION"
              THEN Append(ToldBy(s, n - 1).decisions, s[n].payload)
              ELSE ToldBy(s, n - 1).decisions
         /\ ToldBy(s, n).generations =
              IF s[n].kind = "AGENT_GENERATION"
              THEN Append(ToldBy(s, n - 1).generations, s[n].payload)
              ELSE ToldBy(s, n - 1).generations
<1>1. ToldBy(s, n) = Tell(ToldBy(s, n - 1), s[n])
  BY ToldByStep
<1> QED
  BY <1>1 DEF Tell

\* A decision stays where it was told.
LEMMA DecisionAt ==
  ASSUME NEW S, NEW s \in Seq(S), NEW i \in 1 .. Len(s), s[i].kind = "AGENT_DECISION"
  PROVE  LET k == Len(ToldBy(s, i).decisions) IN
         /\ k \in 1 .. Len(Told(s).decisions)
         /\ Told(s).decisions[k] = s[i].payload
<1> DEFINE D(n) == ToldBy(s, n).decisions
           k == Len(D(i))
           Q == Payloads(S, "AGENT_DECISION")
           Stays == {n \in i .. Len(s) : k \in 1 .. Len(D(n)) /\ D(n)[k] = s[i].payload}
<1>1. Len(s) \in Nat /\ i \in Nat /\ i - 1 \in 0 .. Len(s)
  OBVIOUS
<1>2. \A n \in 0 .. Len(s) : D(n) \in Seq(Q)
  BY ToldByTyped DEF Tellings
<1>3. \A n \in 1 .. Len(s) :
          D(n) = IF s[n].kind = "AGENT_DECISION" THEN Append(D(n - 1), s[n].payload)
                 ELSE D(n - 1)
  BY EachTold
<1>4. \A n \in 1 .. Len(s) : s[n].kind = "AGENT_DECISION" => s[n].payload \in Q
  BY DEF Payloads
<1> HIDE DEF D, Q
<1>5. i \in Stays
  <2>1. D(i) = Append(D(i - 1), s[i].payload) /\ D(i - 1) \in Seq(Q)
    BY <1>1, <1>2, <1>3
  <2>2. s[i].payload \in Q
    BY <1>4
  <2>3. D(i)[Len(D(i))] = s[i].payload /\ Len(D(i)) \in 1 .. Len(D(i))
    BY <2>1, <2>2
  <2> QED
    BY <1>1, <2>3
<1>6. ASSUME NEW n \in i .. Len(s) - 1, n \in Stays PROVE n + 1 \in Stays
  <2>1. n + 1 \in 1 .. Len(s) /\ n + 1 \in i .. Len(s) /\ n \in 0 .. Len(s) /\ n + 1 - 1 = n
    BY <1>1
  <2>2. D(n) \in Seq(Q) /\ k \in 1 .. Len(D(n)) /\ D(n)[k] = s[i].payload
    BY <1>2, <1>6, <2>1
  <2>3. \/ D(n + 1) = D(n)
        \/ D(n + 1) = Append(D(n), s[n + 1].payload) /\ s[n + 1].payload \in Q
    BY <1>3, <1>4, <2>1
  <2>4. k \in 1 .. Len(D(n + 1)) /\ D(n + 1)[k] = s[i].payload
    BY <2>2, <2>3
  <2> QED
    BY <2>1, <2>4
<1>7. Len(s) \in Stays
  <2> HIDE DEF Stays
  <2>1. \A n \in i .. Len(s) : n \in Stays
    BY <1>1, <1>5, <1>6, Telling!UpTo
  <2> QED
    BY <1>1, <2>1
<1>8. D(Len(s)) = Told(s).decisions
  BY ToldByStep DEF D
<1> QED
  BY <1>7, <1>8 DEF D

\* Where the kinds of entries are the same, so are the places of decisions.
LEMMA SamePlaces ==
  ASSUME NEW S, NEW s \in Seq(S), NEW R, NEW r \in Seq(R), Len(r) = Len(s),
         \A i \in 1 .. Len(s) : r[i].kind = s[i].kind
  PROVE  \A n \in 0 .. Len(s) : Len(ToldBy(r, n).decisions) = Len(ToldBy(s, n).decisions)
<1> DEFINE D(n) == ToldBy(s, n).decisions
           E(n) == ToldBy(r, n).decisions
           Same == {n \in 0 .. Len(s) : Len(E(n)) = Len(D(n))}
<1>1. Len(s) \in Nat
  OBVIOUS
<1>2. \A n \in 0 .. Len(s) :
        D(n) \in Seq(Payloads(S, "AGENT_DECISION")) /\ E(n) \in Seq(Payloads(R, "AGENT_DECISION"))
  BY ToldByTyped DEF Tellings
<1>3. \A n \in 1 .. Len(s) :
        /\ D(n) = IF s[n].kind = "AGENT_DECISION" THEN Append(D(n - 1), s[n].payload)
                  ELSE D(n - 1)
        /\ E(n) = IF s[n].kind = "AGENT_DECISION" THEN Append(E(n - 1), r[n].payload)
                  ELSE E(n - 1)
  BY EachTold
<1>4. D(0) = <<>> /\ E(0) = <<>>
  BY ToldByStep DEF NothingTold
<1> HIDE DEF D, E
<1>5. 0 \in Same
  BY <1>1, <1>4
<1>6. ASSUME NEW n \in 0 .. Len(s) - 1, n \in Same PROVE n + 1 \in Same
  <2>1. n + 1 \in 1 .. Len(s) /\ n \in 0 .. Len(s) /\ n + 1 - 1 = n
    BY <1>1
  <2>2. \/ D(n + 1) = D(n) /\ E(n + 1) = E(n)
        \/ D(n + 1) = Append(D(n), s[n + 1].payload) /\ E(n + 1) = Append(E(n), r[n + 1].payload)
    BY <1>3, <2>1
  <2>3. Len(E(n + 1)) = Len(D(n + 1))
    BY <1>2, <1>6, <2>1, <2>2
  <2> QED
    BY <2>1, <2>3
<1> HIDE DEF Same
<1>7. \A n \in 0 .. Len(s) : n \in Same
  BY <1>1, <1>5, <1>6, Telling!UpTo
<1> QED
  BY <1>7 DEF Same, D, E

\* The same generations, as far as what the agent saw goes.
SameFrontiers(p, q) ==
    /\ Len(p) = Len(q)
    /\ \A n \in 1 .. Len(p) : p[n].observation_frontier_sha256 = q[n].observation_frontier_sha256

LEMMA FrontiersTold ==
  ASSUME NEW S, NEW s \in Seq(S), NEW R, NEW r \in Seq(R), Len(r) = Len(s),
         \A i \in 1 .. Len(s) :
            /\ r[i].kind = s[i].kind
            /\ s[i].kind = "AGENT_GENERATION" =>
                  r[i].payload.observation_frontier_sha256 = s[i].payload.observation_frontier_sha256
  PROVE  SameFrontiers(Told(r).generations, Told(s).generations)
<1> DEFINE D(n) == ToldBy(s, n).generations
           E(n) == ToldBy(r, n).generations
           Same == {n \in 0 .. Len(s) : SameFrontiers(E(n), D(n))}
<1>1. Len(s) \in Nat
  OBVIOUS
<1>2. \A n \in 0 .. Len(s) :
        /\ D(n) \in Seq(Payloads(S, "AGENT_GENERATION"))
        /\ E(n) \in Seq(Payloads(R, "AGENT_GENERATION"))
  BY ToldByTyped DEF Tellings
<1>3. \A n \in 1 .. Len(s) :
        /\ D(n) = IF s[n].kind = "AGENT_GENERATION" THEN Append(D(n - 1), s[n].payload)
                  ELSE D(n - 1)
        /\ E(n) = IF s[n].kind = "AGENT_GENERATION" THEN Append(E(n - 1), r[n].payload)
                  ELSE E(n - 1)
  BY EachTold
<1>4. /\ D(0) = <<>> /\ E(0) = <<>>
      /\ D(Len(s)) = Told(s).generations /\ E(Len(s)) = Told(r).generations
  BY ToldByStep DEF NothingTold
<1>5. \A n \in 1 .. Len(s) : s[n].kind = "AGENT_GENERATION" =>
        s[n].payload \in Payloads(S, "AGENT_GENERATION")
          /\ r[n].payload \in Payloads(R, "AGENT_GENERATION")
  BY DEF Payloads
<1> HIDE DEF D, E
<1>6. 0 \in Same
  BY <1>1, <1>4 DEF SameFrontiers
<1>7. ASSUME NEW n \in 0 .. Len(s) - 1, n \in Same PROVE n + 1 \in Same
  <2>1. n + 1 \in 1 .. Len(s) /\ n \in 0 .. Len(s) /\ n + 1 - 1 = n /\ n + 1 \in 0 .. Len(s)
    BY <1>1
  <2>2. CASE s[n + 1].kind # "AGENT_GENERATION"
    BY <1>3, <1>7, <2>1, <2>2
  <2>3. CASE s[n + 1].kind = "AGENT_GENERATION"
    <3> DEFINE x == s[n + 1].payload
               y == r[n + 1].payload
    <3>1. D(n + 1) = Append(D(n), x) /\ E(n + 1) = Append(E(n), y)
      BY <1>3, <2>1, <2>3
    <3>2. /\ D(n) \in Seq(Payloads(S, "AGENT_GENERATION")) /\ x \in Payloads(S, "AGENT_GENERATION")
          /\ E(n) \in Seq(Payloads(R, "AGENT_GENERATION")) /\ y \in Payloads(R, "AGENT_GENERATION")
          /\ SameFrontiers(E(n), D(n))
          /\ y.observation_frontier_sha256 = x.observation_frontier_sha256
      BY <1>2, <1>5, <1>7, <2>1, <2>3
    <3> HIDE DEF x, y
    <3> DEFINE p == E(n)
               q == D(n)
               u == Append(p, y)
               v == Append(q, x)
               k == Len(p)
    <3>3. /\ k \in Nat /\ Len(q) = k /\ Len(u) = k + 1 /\ Len(v) = k + 1
          /\ \A i \in 1 .. k : u[i] = p[i] /\ v[i] = q[i]
          /\ u[k + 1] = y /\ v[k + 1] = x
      BY <3>2 DEF SameFrontiers
    <3>4. \A i \in 1 .. k : p[i].observation_frontier_sha256 = q[i].observation_frontier_sha256
      BY <3>2 DEF SameFrontiers
    <3> HIDE DEF p, q, u, v, k
    <3>5. SameFrontiers(u, v)
      BY <3>2, <3>3, <3>4 DEF SameFrontiers
    <3>6. SameFrontiers(Append(E(n), y), Append(D(n), x))
      BY <3>5 DEF u, v, p, q
    <3> QED
      BY <2>1, <3>1, <3>6
  <2> QED
    BY <2>2, <2>3
<1> HIDE DEF Same
<1>8. \A n \in 0 .. Len(s) : n \in Same
  BY <1>1, <1>6, <1>7, Telling!UpTo
<1>9. Len(s) \in Same
  BY <1>1, <1>8
<1> QED
  BY <1>4, <1>9 DEF Same

\* A verified transcript: its session, its turns and its close.
Transcribed(s) ==
    /\ s \in Seq(ToSet(s)) /\ Len(s) >= 2
    /\ s[1].kind = "AGENT_START" /\ s[Len(s)].kind = "AGENT_CLOSE"
    /\ \A i \in 2 .. Len(s) - 1 : s[i].kind \in Turns
    /\ \A i \in 1 .. Len(s) : s[i].kind = "AGENT_GENERATION" => i > 1 /\ FollowsCall(s, i)

\* It is as long as what it tells.
LEMMA TranscribedLength ==
  ASSUME NEW s, Transcribed(s)
  PROVE  Len(s) = 2 + Len(Told(s).decisions) + Len(Told(s).generations)
<1> DEFINE S == ToSet(s)
           D(n) == ToldBy(s, n).decisions
           G(n) == ToldBy(s, n).generations
           Right == {n \in 1 .. Len(s) - 1 : Len(D(n)) + Len(G(n)) = n - 1}
<1>0. s \in Seq(S) /\ Len(s) \in Nat /\ Len(s) >= 2
  BY DEF Transcribed
<1> HIDE DEF S
<1>2. \A n \in 0 .. Len(s) :
        /\ D(n) \in Seq(Payloads(S, "AGENT_DECISION"))
        /\ G(n) \in Seq(Payloads(S, "AGENT_GENERATION"))
  BY <1>0, ToldByTyped DEF Tellings
<1>3. \A n \in 1 .. Len(s) :
        /\ D(n) = IF s[n].kind = "AGENT_DECISION" THEN Append(D(n - 1), s[n].payload)
                  ELSE D(n - 1)
        /\ G(n) = IF s[n].kind = "AGENT_GENERATION" THEN Append(G(n - 1), s[n].payload)
                  ELSE G(n - 1)
  BY <1>0, EachTold
<1>4. /\ D(0) = <<>> /\ G(0) = <<>>
      /\ D(Len(s)) = Told(s).decisions /\ G(Len(s)) = Told(s).generations
  BY <1>0, ToldByStep DEF NothingTold
<1> HIDE DEF D, G
<1>5. 1 \in Right
  <2>1. D(1) = D(0) /\ G(1) = G(0)
    BY <1>0, <1>3 DEF Transcribed
  <2> QED
    BY <1>0, <1>4, <2>1
<1>6. ASSUME NEW n \in 1 .. (Len(s) - 1) - 1, n \in Right PROVE n + 1 \in Right
  <2>1. n + 1 \in 2 .. Len(s) - 1 /\ n + 1 \in 1 .. Len(s) /\ n \in 0 .. Len(s) /\ n + 1 - 1 = n
    BY <1>0
  <2>2. s[n + 1].kind \in {"AGENT_DECISION", "AGENT_GENERATION"}
    BY <2>1 DEF Transcribed, Turns
  <2>3. \/ D(n + 1) = Append(D(n), s[n + 1].payload) /\ G(n + 1) = G(n)
        \/ D(n + 1) = D(n) /\ G(n + 1) = Append(G(n), s[n + 1].payload)
    BY <1>3, <2>1, <2>2
  <2>4. /\ Len(D(n)) \in Nat /\ Len(G(n)) \in Nat
        /\ \A x : Len(Append(D(n), x)) = Len(D(n)) + 1 /\ Len(Append(G(n), x)) = Len(G(n)) + 1
    BY <1>2, <2>1
  <2>5. Len(D(n)) + Len(G(n)) = n - 1 /\ n \in Nat
    BY <1>6
  <2>6. Len(D(n + 1)) + Len(G(n + 1)) = n
    BY <2>3, <2>4, <2>5
  <2> QED
    BY <1>0, <2>1, <2>6
<1>7. Len(s) - 1 \in Right
  <2> HIDE DEF Right
  <2> DEFINE last == Len(s) - 1
  <2>0. last \in Nat /\ last \in 1 .. last /\ \A n \in 1 .. last - 1 : n \in Right => n + 1 \in Right
    BY <1>0, <1>6
  <2> HIDE DEF last
  <2>1. \A n \in 1 .. last : n \in Right
    BY <1>5, <2>0, Telling!UpTo
  <2> QED
    BY <2>0, <2>1 DEF last
<1>8. D(Len(s)) = D(Len(s) - 1) /\ G(Len(s)) = G(Len(s) - 1)
  BY <1>0, <1>3 DEF Transcribed
<1> QED
  BY <1>0, <1>2, <1>4, <1>7, <1>8

-----------------------------------------------------------------------------
(* Altered transcripts, chained and numbered anew. *)

Fielded(e) == e.payload = [f \in FieldsOf(e.kind) |-> e.payload[f]]

\* Entry a is entry e, but for its chaining and its numbers.
Renumbered(a, e) ==
    /\ a.kind = e.kind
    /\ a.payload = [f \in DOMAIN e.payload |-> a.payload[f]]
    /\ \A f \in DOMAIN e.payload \ {"turn", "attempt"} : a.payload[f] = e.payload[f]

LEMMA RechainedEntries ==
  ASSUME NEW S, NEW s \in Seq(S)
  PROVE  LET r == Rechained(s) IN
         /\ r \in Seq(ToSet(r)) /\ Len(r) = Len(s)
         /\ \A i \in 1 .. Len(s) : Renumbered(r[i], s[i])
<1> DEFINE C(n) == Rechained(SubSeq(s, 1, n))
           Good == {n \in 0 .. Len(s) :
                      /\ C(n) \in Seq(ToSet(C(n))) /\ Len(C(n)) = n
                      /\ \A i \in 1 .. n : Renumbered(C(n)[i], s[i])}
<1>1. Len(s) \in Nat
  OBVIOUS
<1>2. C(0) = <<>>
  <2>1. SubSeq(s, 1, 0) = <<>>
    BY Chaining!Prefix
  <2> QED
    BY <2>1, RechainedIsFold, Chaining!FoldEmpty
<1>3. C(Len(s)) = Rechained(s)
  <2>1. SubSeq(s, 1, Len(s)) = s
    BY Chaining!Prefix
  <2> QED
    BY <2>1
<1>4. \A n \in 1 .. Len(s) : C(n) = Rechain(C(n - 1), s[n])
  <2> SUFFICES ASSUME NEW n \in 1 .. Len(s) PROVE C(n) = Rechain(C(n - 1), s[n])
    OBVIOUS
  <2>1. Chaining!Fold(SubSeq(s, 1, n)) = Rechain(Chaining!Fold(SubSeq(s, 1, n - 1)), s[n])
    BY Chaining!FoldPrefix
  <2> QED
    BY <2>1, RechainedIsFold
<1> HIDE DEF C
<1>5. 0 \in Good
  <2> DEFINE none == <<>>
  <2>1. none \in Seq(ToSet(none)) /\ Len(none) = 0
    BY OwnElements
  <2> HIDE DEF none
  <2>2. C(0) = none
    BY <1>2 DEF none
  <2>3. C(0) \in Seq(ToSet(C(0))) /\ Len(C(0)) = 0
    BY <2>1, <2>2
  <2>4. 0 \in 0 .. Len(s) /\ 1 .. 0 = {}
    BY <1>1
  <2> QED
    BY <2>3, <2>4
<1>6. ASSUME NEW n \in 0 .. Len(s) - 1, n \in Good PROVE n + 1 \in Good
  <2> DEFINE c == C(n)
             e == s[n + 1]
             p == Numbered(Told(c), e.payload)
             t == AppendEntry(c, e.kind, p)
  <2>1. n + 1 \in 1 .. Len(s) /\ n + 1 - 1 = n /\ n \in Nat /\ n + 1 \in 0 .. Len(s)
    BY <1>1
  <2>2. C(n + 1) = t
    BY <1>4, <2>1 DEF Rechain
  <2>3. c \in Seq(ToSet(c)) /\ Len(c) = n /\ \A i \in 1 .. n : Renumbered(c[i], s[i])
    BY <1>6
  <2> HIDE DEF c
  <2>4. /\ t \in Seq(ToSet(t)) /\ Len(t) = n + 1
        /\ \A i \in 1 .. n : t[i] = c[i]
        /\ t[n + 1].kind = e.kind /\ t[n + 1].payload = p
    BY <2>3, EntryAppended
  <2>5. /\ p = [f \in DOMAIN e.payload |-> p[f]]
        /\ \A f \in DOMAIN e.payload \ {"turn", "attempt"} : p[f] = e.payload[f]
    BY DEF Numbered
  <2> HIDE DEF t, p, e
  <2>6. Renumbered(t[n + 1], e)
    BY <2>4, <2>5 DEF Renumbered
  <2>7. \A i \in 1 .. n + 1 : Renumbered(t[i], s[i])
    BY <2>1, <2>3, <2>4, <2>6 DEF e
  <2> QED
    BY <2>1, <2>2, <2>4, <2>7
<1>7. Len(s) \in Good
  <2> HIDE DEF Good
  <2>1. \A n \in 0 .. Len(s) : n \in Good
    BY <1>1, <1>5, <1>6, Chaining!UpTo
  <2> QED
    BY <1>1, <2>1
<1> QED
  BY <1>3, <1>7

\* How an alteration differs from a transcript: in its length, in one entry
\* that keeps its kind and its fields, or in the order of two entries.
RetoldAt(e, t, i) ==
    /\ e[i].kind = t[i].kind
    /\ DOMAIN e[i].payload = DOMAIN t[i].payload
    /\ e[i].payload = [f \in DOMAIN t[i].payload |-> e[i].payload[f]]
    /\ \A j \in 1 .. Len(t) : j # i => e[j] = t[j]

SwappedAt(e, t, i) ==
    /\ i \in 1 .. Len(t) - 1
    /\ e[i] = t[i + 1] /\ e[i + 1] = t[i]
    /\ \A j \in 1 .. Len(t) : j \notin {i, i + 1} => e[j] = t[j]

LEMMA WithoutOrTwice ==
  ASSUME NEW S, NEW t \in Seq(S), NEW i \in DOMAIN t
  PROVE  /\ Without(t, i) \in Seq(S) /\ Len(Without(t, i)) = Len(t) - 1
         /\ Twice(t, i) \in Seq(S) /\ Len(Twice(t, i)) = Len(t) + 1
<1> DEFINE a == SubSeq(t, 1, i - 1)
           b == SubSeq(t, i + 1, Len(t))
           c == SubSeq(t, i, Len(t))
<1>1. i \in 1 .. Len(t) /\ Len(t) \in Nat
  OBVIOUS
<1>2. /\ a \in Seq(S) /\ Len(a) = i - 1
      /\ b \in Seq(S) /\ Len(b) = Len(t) - i
      /\ c \in Seq(S) /\ Len(c) = Len(t) - i + 1
      /\ <<t[i]>> \in Seq(S) /\ Len(<<t[i]>>) = 1
  BY <1>1
<1>3. Without(t, i) = a \o b /\ Twice(t, i) = a \o <<t[i]>> \o c
  BY DEF Without, Twice, RemoveAt, InsertAt
<1> HIDE DEF a, b, c
<1>4. a \o <<t[i]>> \in Seq(S) /\ Len(a \o <<t[i]>>) = i
  BY <1>1, <1>2
<1> QED
  BY <1>1, <1>2, <1>3, <1>4

LEMMA Altered ==
  ASSUME NEW t, t \in Seq(ToSet(t)), \A i \in DOMAIN t : Chained(t, i),
         NEW e \in Alterations(t)
  PROVE  \/ (\E S : e \in Seq(S)) /\ Len(e) \in {Len(t) - 1, Len(t) + 1}
         \/ /\ e \in Seq(ToSet(e)) /\ Len(e) = Len(t)
            /\ (\E i \in 1 .. Len(t) : RetoldAt(e, t, i)) \/ (\E i \in 1 .. Len(t) : SwappedAt(e, t, i))
<1>1. Len(t) \in Nat /\ DOMAIN t = 1 .. Len(t) /\ t = [j \in 1 .. Len(t) |-> t[j]]
  OBVIOUS
<1>2. ASSUME NEW i \in DOMAIN t, e \in {Without(t, i), Twice(t, i)}
      PROVE  (\E S : e \in Seq(S)) /\ Len(e) \in {Len(t) - 1, Len(t) + 1}
  BY <1>2, WithoutOrTwice
<1>3. ASSUME DOMAIN e = 1 .. Len(t), e = [j \in 1 .. Len(t) |-> e[j]]
      PROVE  e \in Seq(ToSet(e)) /\ Len(e) = Len(t)
  <2>1. e \in [1 .. Len(t) -> ToSet(e)]
    BY <1>3 DEF ToSet
  <2> QED
    BY <1>1, <2>1
<1>4. ASSUME NEW i \in DOMAIN t, e \in Retold(t, i)
      PROVE  e \in Seq(ToSet(e)) /\ Len(e) = Len(t) /\ RetoldAt(e, t, i)
  <2>1. PICK x, y : /\ x \in DOMAIN t[i].payload
                    /\ e = [t EXCEPT ![i] = [t[i] EXCEPT !.payload = [t[i].payload EXCEPT ![x] = y]]]
    <3>1. /\ t[i].payload = [f \in FieldsOf(t[i].kind) |-> t[i].payload[f]]
          /\ DOMAIN t[i].payload = FieldsOf(t[i].kind)
      BY DEF Chained
    <3>2. CASE \E d \in Decisions : t[i].kind = "AGENT_DECISION"
                                      /\ e = [t EXCEPT ![i].payload.decision = d]
      BY <3>1, <3>2 DEF FieldsOf
    <3>3. CASE \E c \in Candidates : t[i].kind = "AGENT_GENERATION"
                                      /\ e = [t EXCEPT ![i].payload.candidate_sha256 = Sha256(c)]
      BY <3>1, <3>3 DEF FieldsOf
    <3>4. CASE \E b \in StepBatches : t[i].kind \in Turns
                            /\ e = [t EXCEPT ![i].payload.observation_frontier_sha256 = Sha256(b)]
      BY <3>1, <3>4 DEF FieldsOf, Turns
    <3> QED
      BY <1>4, <3>2, <3>3, <3>4 DEF Retold
  <2>2. t[i] = LedgerEntry(i - 1, t[i].kind, PreviousHash(t, i), t[i].payload)
    BY DEF Chained
  <2>3. /\ t[i].payload = [f \in FieldsOf(t[i].kind) |-> t[i].payload[f]]
    BY DEF Chained
  <2> DEFINE q == [t[i].payload EXCEPT ![x] = y]
             w == [t[i] EXCEPT !.payload = q]
  <2>4. DOMAIN q = DOMAIN t[i].payload /\ q = [f \in DOMAIN t[i].payload |-> q[f]]
    OBVIOUS
  <2> HIDE DEF q
  <2>5. w.kind = t[i].kind /\ w.payload = q
    BY <2>2 DEF LedgerEntry
  <2>6. e = [t EXCEPT ![i] = w]
    BY <2>1 DEF q
  <2> HIDE DEF w
  <2>7. /\ e[i] = w /\ DOMAIN e = 1 .. Len(t) /\ e = [j \in 1 .. Len(t) |-> e[j]]
        /\ \A j \in 1 .. Len(t) : j # i => e[j] = t[j]
    BY <1>1, <2>6
  <2> QED
    BY <1>3, <2>4, <2>5, <2>7 DEF RetoldAt
<1>5. ASSUME NEW i \in 1 .. Len(t) - 1, e = Swapped(t, i)
      PROVE  e \in Seq(ToSet(e)) /\ Len(e) = Len(t) /\ SwappedAt(e, t, i)
  <2>1. i \in 1 .. Len(t) /\ i + 1 \in 1 .. Len(t) /\ i # i + 1
    BY <1>1
  <2>2. e = [t EXCEPT ![i] = t[i + 1], ![i + 1] = t[i]]
    BY <1>5 DEF Swapped
  <2>3. /\ DOMAIN e = 1 .. Len(t) /\ e = [j \in 1 .. Len(t) |-> e[j]]
        /\ e[i] = t[i + 1] /\ e[i + 1] = t[i]
        /\ \A j \in 1 .. Len(t) : j \notin {i, i + 1} => e[j] = t[j]
    BY <1>1, <2>1, <2>2
  <2> QED
    BY <1>3, <2>3 DEF SwappedAt
<1>6. \/ \E i \in DOMAIN t : e \in {Without(t, i), Twice(t, i)} \/ e \in Retold(t, i)
      \/ \E i \in 1 .. Len(t) - 1 : e = Swapped(t, i)
  BY DEF Alterations
<1>7. \A i \in 1 .. Len(t) - 1 : i \in 1 .. Len(t)
  BY <1>1
<1> QED
  BY <1>1, <1>2, <1>4, <1>5, <1>6, <1>7

-----------------------------------------------------------------------------
(* Another transcript of the same episode. *)

\* What verification makes of a transcript.
LEMMA VerifiedIsTranscribed ==
  ASSUME NEW s, s \in Seq(ToSet(s)), VerifyTranscript(ToTranscript(s))
  PROVE  Transcribed(s)
<1>1. /\ Len(s) >= 2 /\ s[Len(s)].kind = "AGENT_CLOSE" /\ Len(s) \in Nat
      /\ DOMAIN s = 1 .. Len(s)
      /\ \A i \in DOMAIN s : EntryAccepted(s, i)
  BY DEF VerifyTranscript, ToTranscript
<1>2. s[1].kind = "AGENT_START"
  BY <1>1 DEF EntryAccepted
<1>3. \A i \in 2 .. Len(s) - 1 : s[i].kind \in Turns
  BY <1>1 DEF EntryAccepted, Turns
<1>4. \A i \in 1 .. Len(s) : s[i].kind = "AGENT_GENERATION" => i > 1 /\ FollowsCall(s, i)
  BY <1>1 DEF EntryAccepted
<1> QED
  BY <1>1, <1>2, <1>3, <1>4 DEF Transcribed

\* Two transcripts bound to the same episode.
BothBound(s, r, episode) ==
    /\ Transcribed(s) /\ Transcribed(r)
    /\ DecisionsBound(s, episode.ledger) /\ DecisionsBound(r, episode.ledger)
    /\ CandidatesBound(s, episode) /\ CandidatesBound(r, episode)

LEMMA BoundLengths ==
  ASSUME NEW s, NEW r, NEW episode, BothBound(s, r, episode)
  PROVE  /\ Len(r) = Len(s)
         /\ Len(Told(r).decisions) = Len(Told(s).decisions)
         /\ Len(Told(r).generations) = Len(Told(s).generations)
<1>1. /\ Len(s) = 2 + Len(Told(s).decisions) + Len(Told(s).generations)
      /\ Len(r) = 2 + Len(Told(r).decisions) + Len(Told(r).generations)
  BY TranscribedLength DEF BothBound
<1>2. /\ Len(Told(r).decisions) = Len(Told(s).decisions)
      /\ Len(Told(r).generations) = Len(Told(s).generations)
  BY DEF BothBound, DecisionsBound, CandidatesBound
<1> QED
  BY <1>1, <1>2

\* What is told of fielded entries.
LEMMA FieldedTold ==
  ASSUME NEW s, s \in Seq(ToSet(s)), \A i \in 1 .. Len(s) : Fielded(s[i])
  PROVE  /\ DOMAIN Told(s).decisions = 1 .. Len(Told(s).decisions)
         /\ DOMAIN Told(s).generations = 1 .. Len(Told(s).generations)
         /\ \A n \in 1 .. Len(Told(s).decisions) :
              DOMAIN Told(s).decisions[n] = FieldsOf("AGENT_DECISION")
         /\ \A n \in 1 .. Len(Told(s).generations) :
              DOMAIN Told(s).generations[n] = FieldsOf("AGENT_GENERATION")
<1> DEFINE S == ToSet(s)
<1>1. \A e \in S : Fielded(e)
  BY DEF ToSet
<1>2. ASSUME NEW k, NEW q \in Payloads(S, k) PROVE DOMAIN q = FieldsOf(k)
  BY <1>1 DEF Payloads, Fielded
<1>3. /\ Told(s).decisions \in Seq(Payloads(S, "AGENT_DECISION"))
      /\ Told(s).generations \in Seq(Payloads(S, "AGENT_GENERATION"))
  BY ToldTyped DEF Tellings
<1> HIDE DEF S
<1> QED
  BY <1>2, <1>3

\* They tell the same, if their generations are on the same observations.
LEMMA BoundStories ==
  ASSUME NEW s, NEW r, NEW episode, BothBound(s, r, episode),
         \A i \in 1 .. Len(s) : Fielded(s[i]),
         \A i \in 1 .. Len(r) : Fielded(r[i]),
         SameFrontiers(Told(r).generations, Told(s).generations)
  PROVE  Story(r) = Story(s)
<1> DEFINE d == Told(s).decisions
           e == Told(r).decisions
           g == Told(s).generations
           h == Told(r).generations
<1>1. s \in Seq(ToSet(s)) /\ r \in Seq(ToSet(r))
  BY DEF BothBound, Transcribed
<1>2. Len(e) = Len(d) /\ Len(h) = Len(g)
  BY BoundLengths
<1>3. /\ DOMAIN d = 1 .. Len(d) /\ DOMAIN e = 1 .. Len(d)
      /\ DOMAIN g = 1 .. Len(g) /\ DOMAIN h = 1 .. Len(g)
      /\ \A n \in 1 .. Len(d) :
            /\ DOMAIN d[n] = FieldsOf("AGENT_DECISION")
            /\ DOMAIN e[n] = FieldsOf("AGENT_DECISION")
      /\ \A n \in 1 .. Len(g) :
            /\ DOMAIN g[n] = FieldsOf("AGENT_GENERATION")
            /\ DOMAIN h[n] = FieldsOf("AGENT_GENERATION")
  BY <1>1, <1>2, FieldedTold
<1>4. \A n \in 1 .. Len(d) :
        /\ e[n].observation_frontier_sha256 = d[n].observation_frontier_sha256
        /\ e[n].decision = d[n].decision
        /\ e[n].trajectory_sha256 = d[n].trajectory_sha256
  BY <1>3 DEF BothBound, DecisionsBound, DecisionBound
<1>5. \A n \in 1 .. Len(g) :
        /\ h[n].observation_frontier_sha256 = g[n].observation_frontier_sha256
        /\ h[n].candidate_sha256 = g[n].candidate_sha256
  <2>1. [n \in DOMAIN g |-> g[n].candidate_sha256] = [n \in DOMAIN h |-> h[n].candidate_sha256]
    BY DEF BothBound, CandidatesBound
  <2>2. \A n \in 1 .. Len(g) : h[n].candidate_sha256 = g[n].candidate_sha256
    BY <1>3, <2>1
  <2> QED
    BY <1>2, <2>2 DEF SameFrontiers
<1>6. Story(r) = [decisions |-> [n \in DOMAIN e |-> Unnumbered(e[n])],
                  generations |-> [n \in DOMAIN h |-> Unnumbered(h[n])]]
  BY DEF Story
<1>7. Story(s) = [decisions |-> [n \in DOMAIN d |-> Unnumbered(d[n])],
                  generations |-> [n \in DOMAIN g |-> Unnumbered(g[n])]]
  BY DEF Story
<1> HIDE DEF d, e, g, h
<1>8. \A n \in 1 .. Len(d) : Unnumbered(e[n]) = Unnumbered(d[n])
  BY <1>3, <1>4 DEF Unnumbered, FieldsOf
<1>9. \A n \in 1 .. Len(g) : Unnumbered(h[n]) = Unnumbered(g[n])
  BY <1>3, <1>5 DEF Unnumbered, FieldsOf
<1> QED
  BY <1>3, <1>6, <1>7, <1>8, <1>9

\* ... as they are if their entries are of the same kinds.
LEMMA SameKindsSameFrontiers ==
  ASSUME NEW s, NEW r, NEW episode, BothBound(s, r, episode),
         \A i \in 1 .. Len(s) : r[i].kind = s[i].kind
  PROVE  SameFrontiers(Told(r).generations, Told(s).generations)
<1>0. s \in Seq(ToSet(s)) /\ r \in Seq(ToSet(r))
  BY DEF BothBound, Transcribed
<1>1. s \in Seq(ToSet(s)) /\ r \in Seq(ToSet(r)) /\ Len(r) = Len(s) /\ Len(s) \in Nat
  BY <1>0, BoundLengths
<1>2. ASSUME NEW i \in 1 .. Len(s), s[i].kind = "AGENT_GENERATION"
      PROVE  r[i].payload.observation_frontier_sha256 = s[i].payload.observation_frontier_sha256
  <2> DEFINE j == i - 1
             k == Len(ToldBy(s, j).decisions)
  <2>1. i > 1 /\ FollowsCall(s, i) /\ FollowsCall(r, i)
    BY <1>1, <1>2 DEF BothBound, Transcribed
  <2>2. j \in 1 .. Len(s) /\ j \in 0 .. Len(s)
    BY <1>1, <2>1
  <2>3. /\ s[j].kind = "AGENT_DECISION" /\ r[j].kind = "AGENT_DECISION"
        /\ s[i].payload.observation_frontier_sha256 = s[j].payload.observation_frontier_sha256
        /\ r[i].payload.observation_frontier_sha256 = r[j].payload.observation_frontier_sha256
    BY <2>1 DEF FollowsCall
  <2> HIDE DEF j
  <2>4. Len(ToldBy(r, j).decisions) = k
    BY <1>1, <2>2, SamePlaces
  <2>5. k \in 1 .. Len(Told(s).decisions) /\ Told(s).decisions[k] = s[j].payload
    BY <1>1, <2>2, <2>3, DecisionAt
  <2>6. Told(r).decisions[k] = r[j].payload
    BY <1>1, <2>2, <2>3, <2>4, DecisionAt
  <2>7. DOMAIN Told(s).decisions = 1 .. Len(Told(s).decisions)
    BY <1>1, ToldTyped DEF Tellings
  <2>8. Told(r).decisions[k].observation_frontier_sha256
          = Told(s).decisions[k].observation_frontier_sha256
    <3>1. DOMAIN Told(r).decisions = 1 .. Len(Told(r).decisions)
      BY <1>1, ToldTyped DEF Tellings
    <3> QED
      BY <2>5, <2>7, <3>1, BoundLengths DEF BothBound, DecisionsBound, DecisionBound
  <2> QED
    BY <2>3, <2>5, <2>6, <2>8
<1> QED
  BY <1>1, <1>2, FrontiersTold

\* Turns of two kinds, swapped, are told as before.
LEMMA SwappedTold ==
  ASSUME NEW S, NEW t \in Seq(S), NEW e \in Seq(S), Len(e) = Len(t), NEW i \in 1 .. Len(t) - 1,
         SwappedAt(e, t, i), t[i].kind \in Turns, t[i + 1].kind \in Turns,
         t[i].kind # t[i + 1].kind
  PROVE  Told(e).generations = Told(t).generations
<1> DEFINE G(n) == ToldBy(t, n).generations
           H(n) == ToldBy(e, n).generations
           Same == {n \in 0 .. Len(t) : H(n) = G(n)}
<1>0. Len(t) \in Nat /\ i \in Nat /\ i - 1 \in Nat /\ i + 1 \in Nat
  OBVIOUS
<1>1. \A n \in 1 .. Len(t) :
        /\ G(n) = IF t[n].kind = "AGENT_GENERATION" THEN Append(G(n - 1), t[n].payload)
                  ELSE G(n - 1)
        /\ H(n) = IF e[n].kind = "AGENT_GENERATION" THEN Append(H(n - 1), e[n].payload)
                  ELSE H(n - 1)
  BY EachTold
<1>2. /\ G(0) = <<>> /\ H(0) = <<>>
      /\ G(Len(t)) = Told(t).generations /\ H(Len(t)) = Told(e).generations
  BY ToldByStep DEF NothingTold
<1> HIDE DEF G, H
<1>3. ASSUME NEW n \in 0 .. Len(t) - 1, n \in Same, n + 1 \notin {i, i + 1} PROVE n + 1 \in Same
  <2>1. n + 1 \in 1 .. Len(t) /\ n + 1 - 1 = n /\ n + 1 \in 0 .. Len(t)
    BY <1>0
  <2>2. e[n + 1] = t[n + 1]
    BY <1>3, <2>1 DEF SwappedAt
  <2> DEFINE m == n + 1
  <2>3. /\ G(m) = IF t[m].kind = "AGENT_GENERATION" THEN Append(G(m - 1), t[m].payload)
                  ELSE G(m - 1)
        /\ H(m) = IF t[m].kind = "AGENT_GENERATION" THEN Append(H(m - 1), t[m].payload)
                  ELSE H(m - 1)
    BY <1>1, <2>1, <2>2
  <2>4. m - 1 = n /\ H(n) = G(n)
    BY <1>3, <2>1
  <2> HIDE DEF m
  <2>5. H(m) = G(m)
    BY <2>3, <2>4
  <2> QED
    BY <2>1, <2>5 DEF m
<1>4. 0 \in Same
  BY <1>0, <1>2
<1>5. i - 1 \in Same
  <2> DEFINE m == i - 1
  <2>1. m \in Nat /\ m \in 0 .. m
        /\ \A n \in 0 .. m - 1 : n \in 0 .. Len(t) - 1 /\ n + 1 \notin {i, i + 1}
    BY <1>0
  <2> HIDE DEF m, Same
  <2>2. \A n \in 0 .. m : n \in Same
    BY <1>3, <1>4, <2>1, Telling!UpTo
  <2> QED
    BY <2>1, <2>2 DEF m
<1>6. i + 1 \in Same
  <2> DEFINE m == i + 1
  <2>1. /\ i \in 1 .. Len(t) /\ m \in 1 .. Len(t) /\ m - 1 = i /\ m \in 0 .. Len(t)
        /\ H(i - 1) = G(i - 1)
    BY <1>0, <1>5
  <2>2. e[i] = t[m] /\ e[m] = t[i]
    BY DEF SwappedAt
  <2>3. /\ G(m) = IF t[m].kind = "AGENT_GENERATION" THEN Append(G(i), t[m].payload) ELSE G(i)
        /\ H(m) = IF t[i].kind = "AGENT_GENERATION" THEN Append(H(i), t[i].payload) ELSE H(i)
    BY <1>1, <2>1, <2>2
  <2>4. /\ G(i) = IF t[i].kind = "AGENT_GENERATION" THEN Append(G(i - 1), t[i].payload)
                  ELSE G(i - 1)
        /\ H(i) = IF t[m].kind = "AGENT_GENERATION" THEN Append(G(i - 1), t[m].payload)
                  ELSE G(i - 1)
    BY <1>1, <2>1, <2>2
  <2>5. \/ t[i].kind = "AGENT_GENERATION" /\ t[m].kind # "AGENT_GENERATION"
        \/ t[i].kind # "AGENT_GENERATION" /\ t[m].kind = "AGENT_GENERATION"
    BY DEF Turns
  <2> HIDE DEF m
  <2>6. H(m) = G(m)
    BY <2>3, <2>4, <2>5
  <2> QED
    BY <2>1, <2>6 DEF m
<1>7. Len(t) \in Same
  <2> DEFINE m == i + 1
  <2>1. /\ m \in Nat /\ Len(t) \in Nat /\ Len(t) \in m .. Len(t)
        /\ \A n \in m .. Len(t) - 1 : n \in 0 .. Len(t) - 1 /\ n + 1 \notin {i, i + 1}
    BY <1>0
  <2>2. m \in Same
    BY <1>6
  <2> HIDE DEF m, Same
  <2>3. \A n \in m .. Len(t) : n \in Same
    BY <1>3, <2>1, <2>2, Telling!UpTo
  <2> QED
    BY <2>1, <2>3
<1> QED
  BY <1>2, <1>7

\* A bound transcript, altered, is bound no longer or tells the same.
LEMMA OnlyItsStory ==
  ASSUME NEW t, t \in Seq(ToSet(t)), \A i \in DOMAIN t : Chained(t, i),
         NEW view, NEW episode, VerifyAgainstEpisode(ToTranscript(t), view, episode),
         NEW e \in Alterations(t), VerifyAgainstEpisode(ToTranscript(Rechained(e)), view, episode)
  PROVE  Story(Rechained(e)) = Story(t) /\ Len(Rechained(e)) = Len(t)
<1> DEFINE a == Rechained(e)
<1>1. /\ t \in Seq(ToSet(t)) /\ Len(t) \in Nat /\ DOMAIN t = 1 .. Len(t)
      /\ \A i \in DOMAIN t : Chained(t, i)
  OBVIOUS
<1>2. PICK S : e \in Seq(S)
  BY <1>1, Altered
<1>3. /\ a \in Seq(ToSet(a)) /\ Len(a) = Len(e) /\ Len(e) \in Nat
      /\ \A i \in 1 .. Len(e) : Renumbered(a[i], e[i])
  BY <1>2, RechainedEntries
<1>4. BothBound(t, a, episode)
  <2>1. Transcribed(t)
    BY <1>1, VerifiedIsTranscribed DEF VerifyAgainstEpisode
  <2>2. Transcribed(a)
    BY <1>3, VerifiedIsTranscribed DEF VerifyAgainstEpisode
  <2> QED
    BY <2>1, <2>2 DEF BothBound, VerifyAgainstEpisode, ToTranscript
<1>5. Len(a) = Len(t)
  BY <1>4, BoundLengths
<1> HIDE DEF a
<1>6. /\ e \in Seq(ToSet(e)) /\ Len(e) = Len(t)
      /\ (\E i \in 1 .. Len(t) : RetoldAt(e, t, i)) \/ (\E i \in 1 .. Len(t) : SwappedAt(e, t, i))
  <2> DEFINE n == Len(t)
  <2>0. n \in Nat /\ Len(e) = n
    BY <1>1, <1>3, <1>5
  <2> HIDE DEF n
  <2>1. Len(e) \notin {n - 1, n + 1}
    BY <2>0
  <2> USE DEF n
  <2> QED
    BY <1>1, <2>1, Altered
<1>7. \A i \in 1 .. Len(t) : Fielded(t[i])
  BY <1>1 DEF Chained, Fielded
<1>8. \A i \in 1 .. Len(t) : Fielded(e[i])
  <2>1. ASSUME NEW i \in 1 .. Len(t), RetoldAt(e, t, i)
        PROVE  \A j \in 1 .. Len(t) : Fielded(e[j])
    <3>1. DOMAIN t[i].payload = FieldsOf(e[i].kind)
      BY <1>7, <2>1 DEF Fielded, RetoldAt
    <3>2. Fielded(e[i])
      BY <2>1, <3>1 DEF Fielded, RetoldAt
    <3> QED
      BY <1>7, <2>1, <3>2 DEF RetoldAt
  <2>2. ASSUME NEW i \in 1 .. Len(t), SwappedAt(e, t, i)
        PROVE  \A j \in 1 .. Len(t) : Fielded(e[j])
    <3>1. i \in 1 .. Len(t) /\ i + 1 \in 1 .. Len(t) /\ e[i] = t[i + 1] /\ e[i + 1] = t[i]
          /\ \A j \in 1 .. Len(t) : j \notin {i, i + 1} => e[j] = t[j]
      BY <1>1, <2>2 DEF SwappedAt
    <3> QED
      BY <1>7, <3>1
  <2> QED
    BY <1>6, <2>1, <2>2
<1>9. \A i \in 1 .. Len(t) :
        /\ Fielded(a[i]) /\ a[i].kind = e[i].kind
        /\ e[i].kind = "AGENT_GENERATION" =>
              a[i].payload.observation_frontier_sha256 = e[i].payload.observation_frontier_sha256
  <2> SUFFICES ASSUME NEW i \in 1 .. Len(t)
               PROVE  /\ Fielded(a[i]) /\ a[i].kind = e[i].kind
                      /\ e[i].kind = "AGENT_GENERATION" =>
                            a[i].payload.observation_frontier_sha256
                                = e[i].payload.observation_frontier_sha256
    OBVIOUS
  <2>1. Renumbered(a[i], e[i]) /\ Fielded(e[i])
    BY <1>3, <1>6, <1>8
  <2>2. DOMAIN e[i].payload = FieldsOf(e[i].kind)
    BY <2>1 DEF Fielded
  <2>3. Fielded(a[i]) /\ a[i].kind = e[i].kind
    BY <2>1, <2>2 DEF Fielded, Renumbered
  <2>4. e[i].kind = "AGENT_GENERATION" => "observation_frontier_sha256" \in DOMAIN e[i].payload
    BY <2>2 DEF FieldsOf
  <2> QED
    BY <2>1, <2>3, <2>4 DEF Renumbered
<1>10. SameFrontiers(Told(a).generations, Told(t).generations)
  <2>1. CASE \A i \in 1 .. Len(t) : e[i].kind = t[i].kind
    <3>1. \A i \in 1 .. Len(t) : a[i].kind = t[i].kind
      BY <1>9, <2>1
    <3> QED
      BY <1>4, <3>1, SameKindsSameFrontiers
  <2>2. ASSUME NEW i \in 1 .. Len(t), SwappedAt(e, t, i), t[i].kind # t[i + 1].kind
        PROVE  SameFrontiers(Told(a).generations, Told(t).generations)
    <3>1. /\ i \in 1 .. Len(t) - 1 /\ i + 1 \in 1 .. Len(t)
          /\ e[i] = t[i + 1] /\ e[i + 1] = t[i]
          /\ a[i].kind = t[i + 1].kind /\ a[i + 1].kind = t[i].kind
      <4>1. /\ i \in 1 .. Len(t) - 1 /\ i + 1 \in 1 .. Len(t)
            /\ e[i] = t[i + 1] /\ e[i + 1] = t[i]
        BY <1>1, <2>2 DEF SwappedAt
      <4> QED
        BY <1>9, <4>1
    <3>2. /\ t[1].kind = "AGENT_START" /\ t[Len(t)].kind = "AGENT_CLOSE" /\ Len(t) >= 2
          /\ a[1].kind = "AGENT_START" /\ a[Len(t)].kind = "AGENT_CLOSE"
          /\ \A j \in 2 .. Len(t) - 1 : t[j].kind \in Turns /\ a[j].kind \in Turns
      BY <1>4, <1>5 DEF BothBound, Transcribed
    <3>3. i # 1
      BY <1>1, <3>1, <3>2 DEF Turns
    <3>4. i + 1 # Len(t)
      <4>1. i \in 2 .. Len(t) - 1
        BY <1>1, <3>1, <3>3
      <4>2. a[i].kind \in Turns
        BY <3>2, <4>1
      <4> QED
        BY <3>1, <3>2, <4>2 DEF Turns
    <3>5. t[i].kind \in Turns /\ t[i + 1].kind \in Turns
      <4> DEFINE n == Len(t)
      <4>0. n \in Nat /\ i \in 1 .. n - 1 /\ i # 1 /\ i + 1 # n
        BY <1>1, <3>1, <3>3, <3>4
      <4> HIDE DEF n
      <4>1. i \in 2 .. n - 1 /\ i + 1 \in 2 .. n - 1
        BY <4>0
      <4> USE DEF n
      <4> QED
        BY <3>2, <4>1
    <3> DEFINE U == ToSet(t) \cup ToSet(e)
    <3>6. t \in Seq(U) /\ e \in Seq(U)
      BY <1>1, <1>6
    <3> HIDE DEF U
    <3>7. Told(e).generations = Told(t).generations
      BY <1>6, <2>2, <3>1, <3>5, <3>6, SwappedTold
    <3>8. SameFrontiers(Told(a).generations, Told(e).generations)
      BY <1>3, <1>5, <1>6, <1>9, FrontiersTold
    <3> QED
      BY <3>7, <3>8
  <2>3. ASSUME NEW i \in 1 .. Len(t), SwappedAt(e, t, i), t[i].kind = t[i + 1].kind
        PROVE  \A j \in 1 .. Len(t) : e[j].kind = t[j].kind
    BY <2>3 DEF SwappedAt
  <2>4. ASSUME NEW i \in 1 .. Len(t), RetoldAt(e, t, i)
        PROVE  \A j \in 1 .. Len(t) : e[j].kind = t[j].kind
    BY <2>4 DEF RetoldAt
  <2> QED
    BY <1>6, <2>1, <2>2, <2>3, <2>4
<1>11. Story(a) = Story(t)
  <2>1. \A i \in 1 .. Len(a) : Fielded(a[i])
    BY <1>5, <1>9
  <2> QED
    BY <1>4, <1>7, <1>10, <2>1, BoundStories
<1> QED
  BY <1>5, <1>11 DEF a

\* The transcript of a bound episode tells it, and only it.
LEMMA BoundTellsEpisode == BoundInv => TranscriptTellsEpisode
<1> SUFFICES ASSUME BoundInv PROVE TranscriptTellsEpisode
  OBVIOUS
<1>1. RecordedInv /\ NumberedInv /\ RefusedInv /\ StageInv
  BY DEF BoundInv, AttestedInv, IsolatedInv
<1>2. ASSUME stage = "learn", NEW e \in Alterations(transcript),
             VerifyAgainstEpisode(ToTranscript(Rechained(e)), View, EpisodeResult)
      PROVE  Story(Rechained(e)) = Story(transcript) /\ Len(Rechained(e)) = Len(transcript)
  <2>1. /\ transcript \in Seq(ToSet(transcript))
        /\ \A i \in DOMAIN transcript : Chained(transcript, i)
    BY <1>1 DEF RecordedInv
  <2>2. VerifyAgainstEpisode(ToTranscript(transcript), View, EpisodeResult)
    BY <1>1, <1>2 DEF StageInv, TranscriptBound
  <2> QED
    BY <1>2, <2>1, <2>2, OnlyItsStory
<1>3. stage = "learn" => faults = 0
  BY <1>1, BoundIsHonest DEF StageInv
<1> QED
  BY <1>1, <1>2, <1>3 DEF TranscriptTellsEpisode, RefusedInv

-----------------------------------------------------------------------------
(* What a training receipt says. *)

LEMMA DigestOf ==
  ASSUME NEW body, body = [f \in DOMAIN body |-> body[f]], "receipt_sha256" \notin DOMAIN body
  PROVE  LET r == Digested(body) IN
         /\ [f \in DOMAIN r \ {"receipt_sha256"} |-> r[f]] = body
         /\ \A f \in DOMAIN body : r[f] = body[f]
<1> DEFINE r == Digested(body)
<1>1. DOMAIN r = DOMAIN body \cup {"receipt_sha256"}
  BY DEF Digested
<1>2. \A f \in DOMAIN body : r[f] = body[f]
  BY DEF Digested
<1> HIDE DEF r
<1>3. DOMAIN r \ {"receipt_sha256"} = DOMAIN body
  BY <1>1
<1> QED
  BY <1>2, <1>3 DEF r

\* What the fields of a receipt must be.
Says(b) ==
    LET proofs == ProofValid(b.admission) IN
    /\ b.format = ReceiptFormat
    /\ b.split = "train"
    /\ ~b.gym_applied_learning
    /\ \/ /\ b.experience_kind = "positive"
          /\ b.learning_admissible /\ b.accepted
          /\ b.admission.semantic_valid /\ proofs
       \/ /\ b.experience_kind = "typed_negative"
          /\ b.learning_admissible /\ ~b.accepted
          /\ ~b.admission.semantic_valid /\ proofs
          /\ ~b.budget_exhausted /\ b.terminal_reason = "ENVIRONMENT_DONE"
       \/ /\ b.experience_kind = "none"
          /\ ~b.learning_admissible

BodyFields ==
    {"format", "split", "experience_kind", "learning_admissible", "accepted", "terminal_reason",
     "budget_exhausted", "admission", "ledger_root_sha256", "agent_transcript_root_sha256",
     "agent_task_view_sha256", "decision_trace", "gym_applied_learning"}

LEMMA VerifiedSays ==
  ASSUME NEW body, body = [f \in BodyFields |-> body[f]]
  PROVE  VerifyTrainingReceipt(Digested(body)) <=> Says(body)
<1> DEFINE r == Digested(body)
<1>1. DOMAIN body = BodyFields /\ "receipt_sha256" \notin DOMAIN body
      /\ body = [f \in DOMAIN body |-> body[f]]
  BY DEF BodyFields
<1>2. /\ [f \in DOMAIN r \ {"receipt_sha256"} |-> r[f]] = body
      /\ \A f \in BodyFields : r[f] = body[f]
  BY <1>1, DigestOf
<1>3. r = Digested([f \in DOMAIN r \ {"receipt_sha256"} |-> r[f]])
  BY <1>2
<1> HIDE DEF r
<1>4. /\ r.format = body.format /\ r.split = body.split
      /\ r.gym_applied_learning = body.gym_applied_learning
      /\ r.experience_kind = body.experience_kind
      /\ r.learning_admissible = body.learning_admissible
      /\ r.accepted = body.accepted /\ r.admission = body.admission
      /\ r.budget_exhausted = body.budget_exhausted
      /\ r.terminal_reason = body.terminal_reason
  BY <1>2 DEF BodyFields
<1> QED
  BY <1>3, <1>4 DEF VerifyTrainingReceipt, Says, r

\* The receipt of a judged episode.
Exact(entries, episode) ==
    LET r == TrainingReceipt("train", entries, episode)
        body == [f \in DOMAIN r \ {"receipt_sha256"} |-> r[f]]
    IN  /\ VerifyTrainingReceipt(r)
        /\ r.experience_kind = "positive" <=> episode.admission.admitted
        /\ \A kind \in {"positive", "typed_negative"} \ {r.experience_kind},
              says \in BOOLEAN :
            ~VerifyTrainingReceipt(Digested(
                [body EXCEPT !.experience_kind = kind, !.learning_admissible = says]))

LEMMA ReceiptExact ==
  ASSUME NEW entries, NEW episode, episode.admission \in Gym!Receipts,
         episode.admission.admitted <=>
            episode.admission.semantic_valid /\ ProofValid(episode.admission)
  PROVE  Exact(entries, episode)
<1> DEFINE receipt0 == episode.admission
           evidence == [d \in DOMAIN receipt0 \ {"admitted"} |-> receipt0[d]]
           b == [format |-> ReceiptFormat, split |-> "train",
                 experience_kind |-> ExperienceKind(episode),
                 learning_admissible |-> ExperienceKind(episode) # "none",
                 accepted |-> receipt0.admitted,
                 terminal_reason |-> episode.terminal_reason,
                 budget_exhausted |-> episode.budget_exhausted,
                 admission |-> evidence,
                 ledger_root_sha256 |-> RootSha256(episode.ledger),
                 agent_transcript_root_sha256 |-> RootSha256(entries),
                 agent_task_view_sha256 |-> entries[1].payload.agent_task_view_sha256,
                 decision_trace |-> Told(entries).turns,
                 gym_applied_learning |-> FALSE]
           r == Digested(b)
           other(kind, says) == [b EXCEPT !.experience_kind = kind, !.learning_admissible = says]
<1>1. r = TrainingReceipt("train", entries, episode)
  BY DEF TrainingReceipt
<1>2. /\ receipt0.admitted \in BOOLEAN
      /\ evidence.semantic_valid = receipt0.semantic_valid
      /\ ProofValid(evidence) <=> ProofValid(receipt0)
  BY DEF Gym!Receipts, ProofValid
<1> HIDE DEF evidence
<1>3. /\ b.format = ReceiptFormat /\ b.split = "train" /\ b.gym_applied_learning = FALSE
      /\ b.experience_kind = ExperienceKind(episode)
      /\ b.learning_admissible = (ExperienceKind(episode) # "none")
      /\ b.accepted = receipt0.admitted /\ b.admission = evidence
      /\ b.terminal_reason = episode.terminal_reason
      /\ b.budget_exhausted = episode.budget_exhausted
  OBVIOUS
<1>4. b = [f \in BodyFields |-> b[f]] /\ DOMAIN b = BodyFields
  BY DEF BodyFields
<1> HIDE DEF b
<1>5. ExperienceKind(episode) =
        IF receipt0.admitted THEN "positive"
        ELSE IF TypedNegative(episode) THEN "typed_negative" ELSE "none"
  BY DEF ExperienceKind, Positive, TypedNegative
<1>6. Says(b)
  BY <1>2, <1>3, <1>5 DEF Says, TypedNegative
<1>7. ASSUME NEW kind \in {"positive", "typed_negative"}, kind # ExperienceKind(episode),
             NEW says \in BOOLEAN
      PROVE  ~Says(other(kind, says))
  <2> DEFINE o == other(kind, says)
  <2>1. /\ o.experience_kind = kind
        /\ o.accepted = receipt0.admitted /\ o.admission = evidence
        /\ o.terminal_reason = episode.terminal_reason
        /\ o.budget_exhausted = episode.budget_exhausted
    BY <1>3, <1>4 DEF BodyFields
  <2> HIDE DEF o
  <2>2. ~Says(o)
    BY <1>2, <1>5, <1>7, <2>1 DEF Says, TypedNegative
  <2> QED
    BY <2>2 DEF o
<1>8. \A kind, says :
        /\ other(kind, says) = [f \in BodyFields |-> other(kind, says)[f]]
  BY <1>4
<1> HIDE DEF other
<1>9. \A kind \in {"positive", "typed_negative"} \ {ExperienceKind(episode)}, says \in BOOLEAN :
        ~VerifyTrainingReceipt(Digested(other(kind, says)))
  BY <1>7, <1>8, VerifiedSays
<1>10. VerifyTrainingReceipt(r)
  BY <1>4, <1>6, VerifiedSays
<1>11. /\ [f \in DOMAIN r \ {"receipt_sha256"} |-> r[f]] = b
       /\ r.experience_kind = ExperienceKind(episode)
  <2>1. "receipt_sha256" \notin DOMAIN b /\ b = [f \in DOMAIN b |-> b[f]]
    BY <1>4 DEF BodyFields
  <2>2. /\ [f \in DOMAIN r \ {"receipt_sha256"} |-> r[f]] = b
        /\ \A f \in DOMAIN b : r[f] = b[f]
    BY <2>1, DigestOf
  <2> QED
    BY <1>3, <1>4, <2>2 DEF BodyFields
<1>12. r.experience_kind = "positive" <=> receipt0.admitted
  BY <1>2, <1>5, <1>11
<1> HIDE DEF r
<1> QED
  BY <1>1, <1>9, <1>10, <1>11, <1>12 DEF other, Exact

LEMMA JudgedReceiptExact == BoundInv => TrainingReceiptExact
<1> SUFFICES ASSUME BoundInv, stage = "learn", task.split = "train" PROVE TrainingReceiptExact
  BY DEF TrainingReceiptExact
<1>1. GymInv /\ StageInv /\ PhaseInv /\ JudgedInv
  BY DEF BoundInv, AttestedInv, IsolatedInv
<1>2. failure = None /\ phase = "end"
  BY <1>1 DEF GymInv, StageInv, PhaseInv
<1>3. receipt \in Gym!Receipts /\ (receipt.admitted <=> receipt.semantic_valid /\ ProofValid(receipt))
  BY <1>1, <1>2 DEF JudgedInv
<1>4. EpisodeResult.admission = receipt
  BY DEF EpisodeResult
<1> DEFINE episode == EpisodeResult
<1> HIDE DEF episode
<1>5. /\ episode.admission \in Gym!Receipts
      /\ episode.admission.admitted <=>
            episode.admission.semantic_valid /\ ProofValid(episode.admission)
  BY <1>3, <1>4 DEF episode
<1>6. Exact(transcript, EpisodeResult)
  BY <1>5, ReceiptExact DEF episode
<1> QED
  BY <1>4, <1>6 DEF TrainingReceiptExact, Exact

-----------------------------------------------------------------------------
LEMMA BoundInvariance ==
  ASSUME Unforgeable, NoneIsNoDigest
  PROVE  Spec => []BoundInv
<1>1. Init => Parts
  <2>1. Init => RunBegins
    BY DEF Init, Gym!Init, RunBegins
  <2> QED
    BY <2>1, RunBegun
<1>2. AttestedInv /\ AttestedInv' /\ Parts /\ [Next]_vars => Parts'
  BY PartsStep DEF AttestedInv, IsolatedInv
<1>3. AttestedInv /\ Parts => BoundInv
  BY DEF Parts, HeardInv, BoundInv
<1> QED
  BY <1>1, <1>2, <1>3, AttestedInvariance, PTL DEF Spec

(* The transcript of a run that is bound to its episode tells that         *)
(* episode: an agent that numbers its turns is never refused, one that     *)
(* does not always is, and no answer can be left out, repeated, reordered  *)
(* or replaced without being refused, even if the transcript is chained    *)
(* anew (verify_agent_transcript_against_episode).                         *)
THEOREM TranscriptsTellEpisodes ==
  ASSUME Unforgeable, NoneIsNoDigest
  PROVE  Spec => []TranscriptTellsEpisode
BY BoundInvariance, BoundTellsEpisode, PTL

(* The receipt an external agent may train on verifies, is positive        *)
(* exactly if the gym admitted the episode, and no other claim to have     *)
(* something to learn from verifies in its place                           *)
(* (build_external_training_receipt, verify_external_training_receipt).    *)
THEOREM TrainingReceiptsExact ==
  ASSUME Unforgeable, NoneIsNoDigest
  PROVE  Spec => []TrainingReceiptExact
BY BoundInvariance, JudgedReceiptExact, PTL
=============================================================================
