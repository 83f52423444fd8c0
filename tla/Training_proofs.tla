---------------------------- MODULE Training_proofs ----------------------------
(***************************************************************************)
(* Theorems about Training: what any course of episodes keeps, whoever     *)
(* plays, for every set of tasks and curricula; and about the receipts of  *)
(* promotion that a curriculum's course leaves.                            *)
(***************************************************************************)
EXTENDS Training, SequenceTheorems, FiniteSetTheorems, TLAPS

\* The steps of an episode.
Plays ==
    \/ Opened \/ Unopened \/ OutOfSteps \/ Decide \/ Answered \/ AnswerRaises \/ Rejected
    \/ Judge \/ Learn \/ Close

\* The steps between episodes.
Moves == Retry \/ NextTask \/ NextPart \/ Finish \/ Abort \/ NextOfStage \/ EndOfStage

\* A step plays an episode, is one between episodes, or changes nothing.
LEMMA NextCases == [Next]_vars => Plays \/ Moves \/ UNCHANGED vars
BY DEF Next, Plays, Moves, Over

\* The parts of an episode that no step of it changes, and those of its course.
LEMMA PlaysKeeps == Plays => UNCHANGED <<task, generator, sink, progress>>
<1> SUFFICES ASSUME Plays PROVE UNCHANGED <<task, generator, sink, progress>>
  OBVIOUS
<1>1. CASE Opened
  BY <1>1 DEF Opened, Gym!Start, Gym!inputs
<1>2. CASE Unopened
  BY <1>2 DEF Unopened, Gym!StartRaises, Gym!inputs
<1>3. CASE OutOfSteps
  BY <1>3 DEF OutOfSteps, Gym!StepBudgetExhausted, Gym!inputs
<1>4. CASE Decide
  BY <1>4 DEF Decide, Gym!DecideAction, Gym!SelectionInvalid, Gym!GenerationRefused, Gym!Generate,
              Gym!Decided, Gym!inputs
<1>5. CASE Answered
  BY <1>5 DEF Answered, Gym!HostStep, Gym!inputs
<1>6. CASE AnswerRaises
  BY <1>6 DEF AnswerRaises, Gym!HostStepRaises, Gym!inputs
<1>7. CASE Rejected
  BY <1>7 DEF Rejected, Gym!HostRejects, Gym!inputs
<1>8. CASE Judge
  BY <1>8 DEF Judge, Gym!Admit, Gym!inputs
<1>9. CASE Learn
  BY <1>9 DEF Learn, Learns, Gym!Learn, Gym!inputs
<1>10. CASE Close
  BY <1>10 DEF Close, Gym!Close, Gym!inputs
<1> QED
  BY <1>1, <1>2, <1>3, <1>4, <1>5, <1>6, <1>7, <1>8, <1>9, <1>10 DEF Plays

-----------------------------------------------------------------------------
(* What a chain of promotion receipts commits to, and what a promotion     *)
(* takes: gym/curriculum.py.                                               *)

\* The least-number principle of FoldFacts, whatever is folded.
Numbers == INSTANCE FoldFacts WITH Op <- CountUp, Base <- <<>>

\* A receipt is a function, its checkpoint among its fields.
Receipted(r) == "checkpoint" \in DOMAIN r /\ r = [f \in DOMAIN r |-> r[f]]

\* A checkpoint fixes its receipt.
LEMMA CheckpointFixesReceipt ==
  ASSUME NEW r, NEW s, Receipted(r), Receipted(s),
         r.checkpoint = Sha256(Payload(r)), s.checkpoint = Sha256(Payload(s)),
         r.checkpoint = s.checkpoint
  PROVE  r = s
<1>1. Payload(r) = Payload(s)
  BY DEF Sha256
<1>2. DOMAIN r \ {"checkpoint"} = DOMAIN s \ {"checkpoint"}
  BY <1>1 DEF Payload
<1>3. DOMAIN r = DOMAIN s
  BY <1>2 DEF Receipted
<1>4. ASSUME NEW f \in DOMAIN r PROVE r[f] = s[f]
  <2>1. CASE f = "checkpoint"
    BY <2>1
  <2>2. CASE f # "checkpoint"
    <3>1. Payload(r)[f] = r[f] /\ Payload(s)[f] = s[f]
      BY <1>3, <2>2 DEF Payload
    <3> QED
      BY <1>1, <3>1
  <2> QED
    BY <2>1, <2>2
<1> QED
  BY <1>3, <1>4 DEF Receipted

(* The last checkpoint commits to the whole chain: two chains of a         *)
(* curriculum that verify_promotion_chain accepts and that end in the same *)
(* checkpoint are the same receipts, so a chain with a receipt left out,   *)
(* exchanged or edited is refused, however its checkpoints were stamped    *)
(* again, unless the last one changes.                                     *)
THEOREM CheckpointCommitsToChain ==
  ASSUME NEW c, NEW G, c.stages \in Seq(G), CurriculumWellFormed(c),
         NEW S, NEW a \in Seq(S), NEW b \in Seq(S), a # <<>>, b # <<>>,
         \A r \in S : Receipted(r),
         VerifyPromotionChain(c, a), VerifyPromotionChain(c, b),
         a[Len(a)].checkpoint = b[Len(b)].checkpoint
  PROVE  a = b
<1>1. /\ Len(a) \in 1 .. Len(a) /\ Len(b) \in 1 .. Len(b)
      /\ DOMAIN a = 1 .. Len(a) /\ DOMAIN b = 1 .. Len(b)
  BY EmptySeq
<1>2. ASSUME NEW i \in DOMAIN a, NEW j \in DOMAIN b, a[i].checkpoint = b[j].checkpoint
      PROVE  a[i] = b[j] /\ i = j
  <2>1. /\ Receipted(a[i]) /\ Receipted(b[j])
        /\ a[i].checkpoint = Sha256(Payload(a[i])) /\ b[j].checkpoint = Sha256(Payload(b[j]))
        /\ a[i].stage_index = c.stages[i].index /\ b[j].stage_index = c.stages[j].index
    BY <1>1 DEF VerifyPromotionChain
  <2>2. a[i] = b[j]
    BY <1>2, <2>1, CheckpointFixesReceipt
  <2>3. i \in DOMAIN c.stages /\ j \in DOMAIN c.stages
    BY <1>1 DEF VerifyPromotionChain
  <2>4. c.stages[i].index = i - 1 /\ c.stages[j].index = j - 1
    BY <2>3 DEF CurriculumWellFormed
  <2> QED
    BY <1>1, <2>1, <2>2, <2>4
<1>3. Len(a) = Len(b) /\ a[Len(a)] = b[Len(b)]
  BY <1>1, <1>2
<1> DEFINE n == Len(a)
           Differs == {k \in 0 .. (n - 1) : a[n - k] # b[n - k]}
<1>4. Differs = {}
  <2> SUFFICES ASSUME Differs # {} PROVE FALSE
    OBVIOUS
  <2>1. PICK k \in Differs : \A j \in Differs : k <= j
    <3>1. Differs \subseteq Nat
      BY <1>1
    <3> HIDE DEF Differs
    <3> QED
      BY <3>1, Numbers!LeastNatural
  <2>2. k \in 1 .. (n - 1) /\ a[n - k] # b[n - k]
    BY <1>1, <1>3, <2>1
  <2> DEFINE m == n - (k - 1)
  <2>3. m \in 2 .. n /\ m - 1 = n - k /\ k - 1 \in 0 .. (n - 1)
    BY <1>1, <2>2
  <2>4. a[m] = b[m]
    <3>1. k - 1 \notin Differs
      <4> HIDE DEF Differs
      <4>1. ~(k <= k - 1)
        BY <2>2
      <4> QED
        BY <2>1, <4>1
    <3> QED
      BY <2>3, <3>1
  <2> HIDE DEF m, Differs
  <2>5. /\ a[m].previous_checkpoint = a[m - 1].checkpoint
        /\ b[m].previous_checkpoint = b[m - 1].checkpoint
    BY <1>1, <1>3, <2>3 DEF VerifyPromotionChain, PreviousCheckpoint
  <2>6. m - 1 \in DOMAIN a /\ m - 1 \in DOMAIN b
    BY <1>1, <1>3, <2>3
  <2>7. a[m - 1] = b[m - 1]
    BY <1>2, <2>4, <2>5, <2>6
  <2> QED
    BY <2>2, <2>3, <2>7
<1>5. \A i \in 1 .. n : a[i] = b[i]
  <2> SUFFICES ASSUME NEW i \in 1 .. n PROVE a[i] = b[i]
    OBVIOUS
  <2>1. n - i \in 0 .. (n - 1) /\ n - (n - i) = i
    BY <1>1
  <2> QED
    BY <1>4, <2>1
<1> QED
  BY <1>3, <1>5, SeqEqual

\* What evaluate_stage returns is the stage's receipt under its checkpoint.
LEMMA StageEvaluated ==
  ASSUME NEW c, NEW stage, NEW train, NEW validation, NEW previous,
         EvidenceMatches(stage, train, validation)
  PROVE  LET r == EvaluateStage(c, stage, train, validation, previous) IN
         /\ r = [f \in DOMAIN r |-> r[f]] /\ "checkpoint" \in DOMAIN r
         /\ Payload(r) = Receipt(c, stage, train, validation, previous)
         /\ r.checkpoint = Sha256(Payload(r))
         /\ \A f \in DOMAIN Payload(r) : r[f] = Payload(r)[f]
<1> DEFINE r == EvaluateStage(c, stage, train, validation, previous)
           p == Receipt(c, stage, train, validation, previous)
<1>1. r = Stamped(p)
  BY DEF EvaluateStage
<1>2. "checkpoint" \notin DOMAIN p /\ p = [f \in DOMAIN p |-> p[f]]
  BY DEF Receipt
<1> HIDE DEF p, r
<1>3. /\ r = [f \in DOMAIN p \cup {"checkpoint"} |-> r[f]]
      /\ DOMAIN r = DOMAIN p \cup {"checkpoint"}
      /\ r.checkpoint = Sha256(p) /\ \A f \in DOMAIN p : r[f] = p[f]
  BY <1>1, <1>2 DEF Stamped
<1>4. Payload(r) = p
  BY <1>2, <1>3 DEF Payload
<1> QED
  BY <1>1, <1>3, <1>4 DEF p, r

(* A stage goes on where the last one was promoted: the receipt that       *)
(* evaluate_stage makes of the stage's evidence, after a chain of          *)
(* promotions its verifier accepts, is one more receipt of such a chain.   *)
(* After a stage that failed the verifier accepts no receipt at all.       *)
THEOREM StageExtendsChain ==
  ASSUME NEW c, NEW G, c.stages \in Seq(G), NEW S, NEW receipts \in Seq(S),
         VerifyPromotionChain(c, receipts), Len(receipts) < Len(c.stages),
         NEW train, NEW validation, EvidenceMatches(c.stages[Len(receipts) + 1], train, validation)
  PROVE  LET n == Len(receipts) + 1
             r == EvaluateStage(c, c.stages[n], train, validation, PreviousCheckpoint(receipts, n))
         IN  /\ (\A i \in DOMAIN receipts : receipts[i].promoted) =>
                    VerifyPromotionChain(c, Append(receipts, r))
             /\ \A i \in DOMAIN receipts : ~receipts[i].promoted =>
                    \A s : ~VerifyPromotionChain(c, Append(receipts, s))
<1> DEFINE n == Len(receipts) + 1
           previous == PreviousCheckpoint(receipts, n)
           r == EvaluateStage(c, c.stages[n], train, validation, previous)
<1>1. /\ DOMAIN receipts = 1 .. Len(receipts) /\ Len(receipts) \in Nat /\ n \in Nat \ {0}
      /\ \A s : /\ DOMAIN Append(receipts, s) = 1 .. n /\ Len(Append(receipts, s)) = n
                /\ Append(receipts, s)[n] = s
                /\ \A i \in 1 .. Len(receipts) : Append(receipts, s)[i] = receipts[i]
  <2>1. ASSUME NEW s
        PROVE  /\ DOMAIN Append(receipts, s) = 1 .. n /\ Len(Append(receipts, s)) = n
               /\ Append(receipts, s)[n] = s
               /\ \A i \in 1 .. Len(receipts) : Append(receipts, s)[i] = receipts[i]
    <3>1. receipts \in Seq(S \cup {s})
      OBVIOUS
    <3> QED
      BY <3>1, AppendProperties
  <2> QED
    BY <2>1
<1>2. \A s : \A i \in 1 .. n :
        PreviousCheckpoint(Append(receipts, s), i) = PreviousCheckpoint(receipts, i)
  <2> SUFFICES ASSUME NEW s, NEW i \in 1 .. n, i # 1
               PROVE  Append(receipts, s)[i - 1].checkpoint = receipts[i - 1].checkpoint
    BY DEF PreviousCheckpoint
  <2>1. i - 1 \in 1 .. Len(receipts)
    BY <1>1
  <2> QED
    BY <1>1, <2>1
<1>3. ASSUME \A i \in DOMAIN receipts : receipts[i].promoted
      PROVE  VerifyPromotionChain(c, Append(receipts, r))
  <2> DEFINE p == Receipt(c, c.stages[n], train, validation, previous)
  <2>1. /\ Payload(r) = p /\ r.checkpoint = Sha256(Payload(r))
        /\ \A f \in DOMAIN p : r[f] = p[f]
    BY StageEvaluated
  <2>2. /\ r.format = ReceiptFormat /\ r.curriculum_id = c.id
        /\ r.stage_index = c.stages[n].index /\ r.stage_name = c.stages[n].name
        /\ r.previous_checkpoint = previous
    BY <2>1 DEF Receipt
  <2> HIDE DEF r, previous, p
  <2> DEFINE t == Append(receipts, r)
  <2>3. ASSUME NEW i \in 1 .. n
        PROVE  /\ t[i].format = ReceiptFormat
               /\ t[i].curriculum_id = c.id
               /\ t[i].stage_index = c.stages[i].index
               /\ t[i].stage_name = c.stages[i].name
               /\ t[i].previous_checkpoint = PreviousCheckpoint(t, i)
               /\ t[i].checkpoint = Sha256(Payload(t[i]))
               /\ ~t[i].promoted => i = n
    <3>1. CASE i = n
      BY <1>1, <1>2, <2>1, <2>2, <3>1 DEF previous
    <3>2. CASE i # n
      <4>1. i \in DOMAIN receipts /\ t[i] = receipts[i]
        BY <1>1, <3>2
      <4> QED
        BY <1>2, <1>3, <4>1 DEF VerifyPromotionChain
    <3> QED
      BY <3>1, <3>2
  <2>4. DOMAIN t = 1 .. n /\ Len(t) = n /\ n <= Len(c.stages)
    BY <1>1
  <2> HIDE DEF t
  <2> QED
    BY <2>3, <2>4 DEF VerifyPromotionChain, t
<1>4. ASSUME NEW i \in DOMAIN receipts, ~receipts[i].promoted, NEW s
      PROVE  ~VerifyPromotionChain(c, Append(receipts, s))
  <2>1. i \in DOMAIN Append(receipts, s) /\ Append(receipts, s)[i] = receipts[i] /\ i # Len(Append(receipts, s))
    BY <1>1, <1>4
  <2> QED
    BY <1>4, <2>1 DEF VerifyPromotionChain
<1> QED
  BY <1>3, <1>4

\* A share that is not below one is all of them.
LEMMA FullRate ==
  ASSUME NEW T, NEW list \in Seq(T), NEW flag, NEW k \in Nat \ {0},
         ~RateBelow(Rate(list, flag), <<k, k>>)
  PROVE  /\ \A i \in DOMAIN list : list[i][flag]
         /\ Rate(list, flag) = <<Len(list), Len(list)>>
<1> DEFINE n == Len(list)
           having == {i \in DOMAIN list : list[i][flag]}
<1>1. n \in Nat /\ DOMAIN list = 1 .. n
  OBVIOUS
<1>2. IsFiniteSet(1 .. n) /\ Cardinality(1 .. n) = n
  <2>1. 1 \in Int /\ n \in Int
    BY <1>1
  <2>2. IsFiniteSet(1 .. n) /\ Cardinality(1 .. n) = IF 1 > n THEN 0 ELSE n - 1 + 1
    BY <2>1, FS_Interval, Zenon
  <2> QED
    BY <1>1, <2>2
<1>3. having \subseteq 1 .. n
  BY <1>1
<1>4. Cardinality(having) \in Nat /\ (Cardinality(having) = n => having = 1 .. n)
  <2> HIDE DEF having
  <2>1. IsFiniteSet(having) /\ Cardinality(having) <= Cardinality(1 .. n)
        /\ (Cardinality(having) = Cardinality(1 .. n) => having = 1 .. n)
    BY <1>2, <1>3, FS_Subset
  <2> QED
    BY <1>2, <2>1, FS_CardinalityType
<1>5. Cardinality(having) <= n
  BY <1>2, <1>3, FS_Subset
<1>6. ~(Cardinality(having) * k < k * n)
  BY DEF RateBelow, Rate
<1>7. Cardinality(having) = n
  <2> DEFINE m == Cardinality(having)
  <2>1. m \in Nat /\ m <= n /\ ~(m * k < k * n)
    BY <1>4, <1>5, <1>6
  <2> HIDE DEF m, n
  <2>2. ASSUME m < n PROVE FALSE
    <3>1. PICK d \in Nat \ {0} : n = m + d
      <4>1. n - m \in Nat \ {0} /\ n = m + (n - m)
        BY <1>1, <2>1, <2>2
      <4> QED
        BY <4>1
    <3>2. k * n = m * k + k * d /\ k * d > 0
      BY <2>1, <3>1
    <3> QED
      BY <2>1, <3>2
  <2> QED
    BY <1>1, <2>1, <2>2 DEF m, n
<1> QED
  BY <1>1, <1>4, <1>7 DEF Rate

(* A promotion is earned by every task.  Where a stage demands that all    *)
(* train tasks are admitted, a receipt that promotes was made of an        *)
(* admitted train episode of each of them, each of which taught something  *)
(* if the stage requires updates, and of validation episodes of each       *)
(* validation task, admitted as well if the stage demands it, that taught  *)
(* nothing.                                                                *)
THEOREM PromotionTakesAll ==
  ASSUME NEW c, NEW stage, NEW T, NEW train \in Seq(T), NEW validation \in Seq(T),
         NEW previous, stage.min_train = <<1, 1>>,
         LET r == EvaluateStage(c, stage, train, validation, previous) IN r # None /\ r.promoted
  PROVE  /\ \A id \in ToIds(stage.train) : \E i \in DOMAIN train :
                /\ train[i].task_id = id /\ train[i].split = "train" /\ train[i].accepted
                /\ stage.require_updates => train[i].learning_updated
         /\ \A id \in ToIds(stage.validation) : \E i \in DOMAIN validation :
                /\ validation[i].task_id = id /\ validation[i].split = "validation"
                /\ stage.min_validation = <<1, 1>> => validation[i].accepted
         /\ \A i \in DOMAIN validation : ~validation[i].learning_updated
<1> DEFINE r == EvaluateStage(c, stage, train, validation, previous)
           p == Receipt(c, stage, train, validation, previous)
<1>1. EvidenceMatches(stage, train, validation) /\ r.promoted = p.promoted
  <2>1. "promoted" \in DOMAIN p
    BY DEF Receipt
  <2>2. EvidenceMatches(stage, train, validation)
    BY DEF EvaluateStage
  <2>3. Payload(r) = p /\ \A f \in DOMAIN Payload(r) : r[f] = Payload(r)[f]
    BY <2>2, StageEvaluated
  <2> HIDE DEF r, p
  <2>4. r["promoted"] = p["promoted"]
    BY <2>1, <2>3
  <2> QED
    BY <2>2, <2>4
<1>2. Reasons(stage, train, validation) = {}
  BY <1>1 DEF Receipt
<1>3. ~RateBelow(Rate(train, "accepted"), <<1, 1>>)
  BY <1>2 DEF Reasons
<1>4. stage.require_updates =>
        ~RateBelow(Rate(train, "learning_updated"), Rate(train, "accepted"))
  <2>1. "admitted_train_episode_missing_learning_update" \notin Reasons(stage, train, validation)
    BY <1>2
  <2> QED
    BY <2>1 DEF Reasons
<1>5. /\ \A i \in DOMAIN train : train[i].accepted
      /\ Rate(train, "accepted") = <<Len(train), Len(train)>>
  <2>1. 1 \in Nat \ {0}
    OBVIOUS
  <2> QED
    BY <1>3, <2>1, FullRate
<1>6. stage.require_updates => \A i \in DOMAIN train : train[i].learning_updated
  <2>1. Len(train) \in Nat /\ DOMAIN train = 1 .. Len(train)
    OBVIOUS
  <2>2. CASE Len(train) = 0
    BY <2>1, <2>2
  <2>3. CASE Len(train) # 0
    BY <1>4, <1>5, <2>1, <2>3, FullRate
  <2> QED
    BY <2>2, <2>3
<1>7. stage.min_validation = <<1, 1>> => \A i \in DOMAIN validation : validation[i].accepted
  <2>1. stage.min_validation = <<1, 1>> => ~RateBelow(Rate(validation, "accepted"), <<1, 1>>)
    BY <1>2 DEF Reasons
  <2>2. 1 \in Nat \ {0}
    OBVIOUS
  <2> QED
    BY <2>1, <2>2, FullRate
<1> QED
  BY <1>1, <1>5, <1>6, <1>7 DEF EvidenceMatches, Matches

-----------------------------------------------------------------------------
(* The course. *)

\* A list stays one.
LEMMA ListGrows ==
  ASSUME NEW s, NEW e, s \in Seq(ToSet(s))
  PROVE  /\ Append(s, e) \in Seq(ToSet(Append(s, e)))
         /\ Len(s) \in Nat /\ DOMAIN s = 1 .. Len(s)
         /\ Len(Append(s, e)) = Len(s) + 1
         /\ DOMAIN Append(s, e) = 1 .. (Len(s) + 1)
         /\ \A i \in 1 .. Len(s) : Append(s, e)[i] = s[i]
         /\ Append(s, e)[Len(s) + 1] = e
<1> DEFINE t == Append(s, e)
<1>1. s \in Seq(ToSet(s) \cup {e})
  OBVIOUS
<1>2. /\ t \in Seq(ToSet(s) \cup {e}) /\ Len(s) \in Nat /\ DOMAIN s = 1 .. Len(s)
      /\ Len(t) = Len(s) + 1 /\ DOMAIN t = 1 .. (Len(s) + 1)
      /\ \A i \in 1 .. Len(s) : t[i] = s[i]
      /\ t[Len(s) + 1] = e
  BY <1>1
<1> HIDE DEF t
<1>3. t \in Seq(ToSet(t))
  <2>1. t \in [1 .. Len(t) -> ToSet(t)] /\ Len(t) \in Nat
    BY <1>2 DEF ToSet
  <2> QED
    BY <2>1
<1> QED
  BY <1>2, <1>3 DEF t

LEMMA CourseStart == Init => CourseInv
<1> SUFFICES ASSUME Init PROVE CourseInv
  OBVIOUS
<1>1. course \in Courses /\ granted \in Nat /\ attempt \in Nat
  BY GrantsAssumption DEF Init
<1>2. part \in Evaluations \cup {"train", "over"} /\ (course = "curriculum" => part = "train")
  BY DEF Init, Evaluations, Trainings, Searches
<1>3. pending \subseteq Tasks
  BY DEF Init, Evaluated, Of
<1>4. IF course = "curriculum"
      THEN /\ curriculum \in Curricula
           /\ CurriculumWellFormed(curriculum) /\ TasksFit(curriculum, Registry)
      ELSE curriculum = None /\ chain = <<>> /\ results = <<>>
  BY DEF Init
<1>5. chain \in Seq(ToSet(chain)) /\ results \in Seq(ToSet(results))
  BY DEF Init
<1> QED
  BY <1>1, <1>2, <1>3, <1>4, <1>5 DEF CourseInv

LEMMA CourseStep == CourseInv /\ [Next]_vars => CourseInv'
<1> SUFFICES ASSUME CourseInv, [Next]_vars PROVE CourseInv'
  OBVIOUS
<1>1. CASE Plays \/ UNCHANGED vars
  <2>1. UNCHANGED progress
    BY <1>1, PlaysKeeps DEF vars
  <2> QED
    BY <2>1 DEF progress, CourseInv
<1>2. CASE Retry
  BY <1>2 DEF Retry, CourseInv
<1>3. CASE NextTask
  <2>1. /\ UNCHANGED <<course, granted, part, curriculum, results, chain>>
        /\ attempt' = 1 /\ pending' \subseteq pending
    BY <1>3 DEF NextTask, Concludes
  <2> QED
    BY <2>1 DEF CourseInv
<1>4. CASE NextPart
  <2>1. /\ UNCHANGED <<course, granted, curriculum, results, chain>>
        /\ attempt' = 1 /\ part' \in {"train", "after"} /\ course \in Trainings
        /\ pending' \subseteq Tasks
    BY <1>4 DEF NextPart, Concludes, Evaluated, Of
  <2> QED
    BY <2>1 DEF CourseInv, Trainings, Searches, Evaluations
<1>5. CASE Finish
  BY <1>5 DEF Finish, Concludes, CourseInv
<1>6. CASE Abort
  BY <1>6 DEF Abort, CourseInv
<1>7. CASE NextOfStage
  <2>1. results' \in Seq(ToSet(results'))
    BY <1>7, ListGrows DEF NextOfStage, CourseInv
  <2> QED
    BY <1>7, <2>1 DEF NextOfStage, InStage, CourseInv
<1>8. CASE EndOfStage
  <2>1. /\ UNCHANGED <<course, granted, pending, attempt, curriculum>>
        /\ course = "curriculum" /\ part' \in {part, "over"} /\ results' = <<>>
    BY <1>8 DEF EndOfStage, InStage
  <2>2. chain' \in Seq(ToSet(chain')) /\ results' \in Seq(ToSet(results'))
    <3>1. results' \in Seq(ToSet(results'))
      BY <2>1
    <3> QED
      BY <1>8, <3>1, ListGrows DEF EndOfStage, CourseInv
  <2> QED
    BY <2>1, <2>2 DEF CourseInv
<1> QED
  BY <1>1, <1>2, <1>3, <1>4, <1>5, <1>6, <1>7, <1>8, NextCases DEF Moves

\* A task is that of its id.
LEMMA Registered ==
  ASSUME NEW id \in DOMAIN Registry
  PROVE  Registry[id] \in Tasks /\ Registry[id].task_id = id
<1>1. \E t \in Tasks : t.task_id = id
  BY DEF Registry
<1> QED
  BY <1>1 DEF Registry

\* Two lists as one.
LEMMA Joined ==
  ASSUME NEW S, NEW a \in Seq(S), NEW b \in Seq(S)
  PROVE  /\ Len(a) \in Nat /\ Len(b) \in Nat
         /\ DOMAIN a = 1 .. Len(a) /\ DOMAIN b = 1 .. Len(b)
         /\ Len(a \o b) = Len(a) + Len(b)
         /\ \A k \in 1 .. Len(a) : (a \o b)[k] = a[k]
         /\ \A k \in 1 .. Len(b) : (a \o b)[Len(a) + k] = b[k]
         /\ \A k \in 1 .. Len(a \o b) :
               \/ k \in 1 .. Len(a)
               \/ \E j \in 1 .. Len(b) : k = Len(a) + j /\ ~(k <= Len(a))
<1> DEFINE n == Len(a)
           m == Len(b)
           t == a \o b
<1>1. n \in Nat /\ m \in Nat /\ DOMAIN a = 1 .. n /\ DOMAIN b = 1 .. m
  OBVIOUS
<1>2. Len(t) = n + m /\ \A k \in 1 .. n + m : t[k] = IF k <= n THEN a[k] ELSE b[k - n]
  BY ConcatProperties
<1> HIDE DEF n, m, t
<1>3. \A k \in 1 .. n : t[k] = a[k]
  BY <1>1, <1>2
<1>4. ASSUME NEW k \in 1 .. m PROVE t[n + k] = b[k]
  <2>1. n + k \in 1 .. n + m /\ ~(n + k <= n) /\ (n + k) - n = k
    BY <1>1
  <2> QED
    BY <1>2, <2>1
<1>5. ASSUME NEW k \in 1 .. Len(t), k \notin 1 .. n
      PROVE  \E j \in 1 .. m : k = n + j /\ ~(k <= n)
  <2>1. k - n \in 1 .. m /\ k = n + (k - n) /\ ~(k <= n)
    BY <1>1, <1>2, <1>5
  <2> QED
    BY <2>1
<1> QED
  BY <1>1, <1>2, <1>3, <1>4, <1>5 DEF n, m, t

\* The plan of a stage: its train tasks and then its validation tasks.
LEMMA Planned ==
  ASSUME NEW c \in Curricula, CurriculumWellFormed(c), TasksFit(c, Registry),
         NEW i \in DOMAIN c.stages
  PROVE  LET s    == c.stages[i]
             plan == s.train \o s.validation
         IN  /\ Len(s.train) \in Nat \ {0} /\ Len(s.validation) \in Nat \ {0}
             /\ DOMAIN s.train = 1 .. Len(s.train)
             /\ DOMAIN s.validation = 1 .. Len(s.validation)
             /\ Len(plan) = Len(s.train) + Len(s.validation) /\ Len(plan) \in Nat \ {0}
             /\ \A k \in 1 .. Len(s.train) : plan[k] = s.train[k]
             /\ \A k \in 1 .. Len(s.validation) : plan[Len(s.train) + k] = s.validation[k]
             /\ \A k \in 1 .. Len(plan) :
                   /\ plan[k] \in DOMAIN Registry
                   /\ Registry[plan[k]].split =
                         IF k <= Len(s.train) THEN "train" ELSE "validation"
<1> DEFINE s    == c.stages[i]
           plan == s.train \o s.validation
           S    == ToSet(s.train) \cup ToSet(s.validation)
<1>1. s.train \in Seq(S) /\ s.validation \in Seq(S) /\ s.train # <<>> /\ s.validation # <<>>
  BY CurriculaAssumption DEF CurriculumWellFormed, StageWellFormed
<1>2. /\ \A id \in ToIds(s.train) : id \in DOMAIN Registry /\ Registry[id].split = "train"
      /\ \A id \in ToIds(s.validation) :
            id \in DOMAIN Registry /\ Registry[id].split = "validation"
  <2> DEFINE served(split) == IF split = "train" THEN s.train ELSE s.validation
  <2>1. \A split \in {"train", "validation"} : \A id \in ToIds(served(split)) :
            id \in DOMAIN Registry /\ Registry[id].split = split
    BY DEF TasksFit
  <2> QED
    BY <2>1
<1> HIDE DEF S, s
<1>3. /\ Len(s.train) \in Nat \ {0} /\ Len(s.validation) \in Nat \ {0}
      /\ DOMAIN s.train = 1 .. Len(s.train)
      /\ DOMAIN s.validation = 1 .. Len(s.validation)
      /\ Len(plan) = Len(s.train) + Len(s.validation) /\ Len(plan) \in Nat \ {0}
      /\ \A k \in 1 .. Len(s.train) : plan[k] = s.train[k]
      /\ \A k \in 1 .. Len(s.validation) : plan[Len(s.train) + k] = s.validation[k]
  <2>1. Len(s.train) # 0 /\ Len(s.validation) # 0
    BY <1>1
  <2>2. /\ Len(s.train) \in Nat /\ Len(s.validation) \in Nat
        /\ DOMAIN s.train = 1 .. Len(s.train)
        /\ DOMAIN s.validation = 1 .. Len(s.validation)
        /\ Len(plan) = Len(s.train) + Len(s.validation)
        /\ \A k \in 1 .. Len(s.train) : plan[k] = s.train[k]
        /\ \A k \in 1 .. Len(s.validation) : plan[Len(s.train) + k] = s.validation[k]
    <3> DEFINE a == s.train
               b == s.validation
    <3>1. a \in Seq(S) /\ b \in Seq(S)
      BY <1>1
    <3> HIDE DEF a, b
    <3>2. /\ Len(a) \in Nat /\ Len(b) \in Nat
          /\ DOMAIN a = 1 .. Len(a) /\ DOMAIN b = 1 .. Len(b)
          /\ Len(a \o b) = Len(a) + Len(b)
          /\ \A k \in 1 .. Len(a) : (a \o b)[k] = a[k]
          /\ \A k \in 1 .. Len(b) : (a \o b)[Len(a) + k] = b[k]
      BY <3>1, Joined
    <3> QED
      BY <3>2 DEF a, b
  <2>3. Len(plan) \in Nat \ {0}
    <3> DEFINE n == Len(s.train)
               m == Len(s.validation)
               l == Len(plan)
    <3>1. n \in Nat /\ m \in Nat /\ l = n + m /\ n # 0
      BY <2>1, <2>2
    <3> HIDE DEF n, m, l
    <3>2. l \in Nat \ {0}
      BY <3>1
    <3> QED
      BY <3>2 DEF l
  <2> HIDE DEF plan
  <2> QED
    BY <2>1, <2>2, <2>3
<1>4. ASSUME NEW k \in 1 .. Len(plan)
      PROVE  /\ plan[k] \in DOMAIN Registry
             /\ Registry[plan[k]].split = IF k <= Len(s.train) THEN "train" ELSE "validation"
  <2>1. CASE k \in 1 .. Len(s.train)
    <3>1. plan[k] \in ToIds(s.train) /\ k <= Len(s.train)
      BY <1>3, <2>1 DEF ToIds
    <3> QED
      BY <1>2, <3>1
  <2>2. CASE k \notin 1 .. Len(s.train)
    <3>1. PICK j \in 1 .. Len(s.validation) : k = Len(s.train) + j /\ ~(k <= Len(s.train))
      BY <1>1, <2>2, Joined
    <3>2. plan[k] \in ToIds(s.validation)
      BY <1>3, <3>1 DEF ToIds
    <3> QED
      BY <1>2, <3>1, <3>2
  <2> QED
    BY <2>1, <2>2
<1> QED
  BY <1>3, <1>4 DEF s

\* The stage under way is one of the curriculum, and the results so far are fewer
\* than its plan has tasks.
LEMMA StageUnderWay ==
  ASSUME CourseInv, StageInv, course = "curriculum", part # "over"
  PROVE  /\ Len(chain) \in Nat /\ Len(chain) + 1 \in DOMAIN curriculum.stages
         /\ Len(curriculum.stages) \in Nat
         /\ DOMAIN curriculum.stages = 1 .. Len(curriculum.stages)
         /\ Len(results) \in Nat /\ Len(StagePlan) \in Nat /\ Len(results) < Len(StagePlan)
<1>1. /\ Len(chain) \in Nat /\ Len(results) \in Nat /\ curriculum \in Curricula
      /\ Len(chain) < Len(curriculum.stages) /\ Len(results) < Len(StagePlan)
  BY DEF CourseInv, StageInv
<1>2. /\ Len(curriculum.stages) \in Nat
      /\ DOMAIN curriculum.stages = 1 .. Len(curriculum.stages)
  BY <1>1, CurriculaAssumption
<1>3. Len(chain) + 1 \in DOMAIN curriculum.stages
  BY <1>1, <1>2
<1>4. Len(StagePlan) \in Nat
  BY <1>1, <1>3, Planned DEF CourseInv, StagePlan, Stage
<1> QED
  BY <1>1, <1>2, <1>3, <1>4

\* Between episodes: one begins on a task, or the course is over.
LEMMA Entering ==
  ASSUME CourseInv, RunInv, StageInv, Moves
  PROVE  /\ UNCHANGED <<q, credited, granted, curriculum, course>>
         /\ \/ \E t \in Tasks : FreshEpisode(t) /\ part' # "over"
            \/ part' = "over" /\ UNCHANGED <<episode, env>>
<1> USE DEF Ended, learning
<1>1. CASE Retry
  <2>1. task \in Tasks
    BY DEF RunInv
  <2> QED
    BY <1>1, <2>1 DEF Retry, Observe
<1>2. CASE NextTask
  <2>1. \A t \in Upcoming(pending, part) : pending # {} => t \in pending
    BY DEF Upcoming
  <2>2. CASE pending # {}
    <3>1. pending \subseteq Tasks
      BY DEF CourseInv
    <3> QED
      BY <1>2, <2>1, <2>2, <3>1 DEF NextTask, Concludes
  <2>3. CASE pending = {}
    BY <1>2, <2>3 DEF NextTask, Upcoming
  <2> QED
    BY <2>2, <2>3
<1>3. CASE NextPart
  <2>1. PICK t \in Upcoming(IF part' = "train" THEN Of("train") ELSE Evaluated, part') :
          FreshEpisode(t)
    BY <1>3 DEF NextPart
  <2>2. t \in Tasks
    BY <2>1 DEF Upcoming, Of, Evaluated
  <2> QED
    BY <1>3, <2>1, <2>2 DEF NextPart, Concludes
<1>4. CASE Finish
  BY <1>4 DEF Finish, Concludes
<1>5. CASE Abort
  BY <1>5 DEF Abort
<1>6. CASE NextOfStage
  <2>1. course = "curriculum" /\ part # "over" /\ part' = part
        /\ Len(results) + 1 < Len(StagePlan) /\ UNCHANGED <<q, credited, granted, curriculum, course>>
        /\ FreshEpisode(Registry[StagePlan[Len(results) + 2]])
    BY <1>6 DEF NextOfStage, InStage
  <2>2. Registry[StagePlan[Len(results) + 2]] \in Tasks
    <3>1. Len(results) + 2 \in 1 .. Len(StagePlan) /\ Len(chain) + 1 \in DOMAIN curriculum.stages
      BY <2>1, StageUnderWay
    <3>2. StagePlan[Len(results) + 2] \in DOMAIN Registry
      BY <2>1, <3>1, Planned DEF CourseInv, StagePlan, Stage
    <3> QED
      BY <3>2, Registered
  <2> QED
    BY <2>1, <2>2
<1>7. CASE EndOfStage
  <2>1. /\ course = "curriculum" /\ part # "over"
        /\ UNCHANGED <<q, credited, granted, curriculum, course>>
    BY <1>7 DEF EndOfStage, InStage
  <2>2. CASE part' = part /\ Len(chain') < Len(curriculum.stages)
             /\ FreshEpisode(Registry[StagePlan'[1]])
    <3>1. chain' \in Seq(ToSet(chain')) /\ curriculum \in Curricula
      BY <2>1, CourseStep, Zenon, <1>7 DEF CourseInv, Next
    <3>2. Len(chain') + 1 \in DOMAIN curriculum.stages
      BY <2>1, <2>2, <3>1, StageUnderWay
    <3>3. StagePlan'[1] \in DOMAIN Registry
      <4> DEFINE s == curriculum.stages[Len(chain') + 1]
      <4>1. StagePlan' = s.train \o s.validation
        BY <2>1 DEF StagePlan, Stage
      <4>2. 1 \in 1 .. Len(s.train \o s.validation)
        <5> DEFINE n == Len(s.train \o s.validation)
        <5>1. n \in Nat \ {0}
          BY <2>1, <3>1, <3>2, Planned DEF CourseInv
        <5> HIDE DEF n
        <5>2. 1 \in 1 .. n
          BY <5>1
        <5> QED
          BY <5>2 DEF n
      <4>3. (s.train \o s.validation)[1] \in DOMAIN Registry
        BY <2>1, <3>1, <3>2, <4>2, Planned DEF CourseInv
      <4> QED
        BY <4>1, <4>3
    <3> QED
      BY <2>1, <2>2, <3>3, Registered
  <2> QED
    BY <1>7, <2>1, <2>2 DEF EndOfStage
<1> QED
  BY <1>1, <1>2, <1>3, <1>4, <1>5, <1>6, <1>7 DEF Moves

-----------------------------------------------------------------------------
(* The episode. *)

\* A step of the loop: up to the next outside call, or out of the loop.
GoesOn ==
    /\ \/ phase = "start" /\ phase' \in {"loop", "seal"} /\ stepsTaken' = stepsTaken
       \/ phase = "loop" /\ phase' = "seal" /\ stepsTaken' = stepsTaken
       \/ /\ phase = "loop" /\ phase' \in {"step", "seal"}
          /\ stepsTaken < task.max_steps /\ stepsTaken' = stepsTaken + 1
       \/ phase = "step" /\ phase' \in {"loop", "seal"} /\ stepsTaken' = stepsTaken
    /\ UNCHANGED <<receipt, updates, failure, outcome, credited, q>>

\* An outside call raises: before the try, or in it.
Raises ==
    /\ \/ phase = "start" /\ phase' = "end" /\ outcome' = "raised"
       \/ phase = "step" /\ phase' = "close" /\ UNCHANGED outcome
    /\ failure' \in Gym!Failures
    /\ UNCHANGED <<receipt, updates, stepsTaken, credited, q>>

\* The receipt is a receipt.
LEMMA Receives ==
  ASSUME NEW v \in BOOLEAN, NEW p \in BOOLEAN, Gym!Admit(v, p)
  PROVE  receipt' \in Gym!Receipts
<1> DEFINE semantic   == Gym!SemanticValid(v)
           provenance == Gym!ProvenanceValid(observations)
           document   == Gym!ToDocument(Gym!SealedLedger(v))
           valid      == Gym!VerifyLedgerDocument(document)
           integrity  == Gym!BundleAccepted(document, semantic, provenance) /\ p
<1>1. receipt' = Gym!AdmissionReceipt(semantic, provenance, valid, integrity)
  BY DEF Gym!Admit
<1>2. semantic \in BOOLEAN /\ provenance \in BOOLEAN /\ integrity \in BOOLEAN
  BY DEF Gym!SemanticValid, Gym!ProvenanceValid
<1>3. valid \in BOOLEAN
  BY DEF Gym!VerifyLedgerDocument
<1> HIDE DEF semantic, provenance, valid, integrity, document
<1> QED
  BY <1>1, <1>2, <1>3, Zenon DEF Gym!Receipts, Gym!AdmissionReceipt

\* What the steps of an episode do to what run knows.
LEMMA PlayCases ==
  ASSUME Plays
  PROVE  \/ GoesOn
         \/ Raises
         \/ /\ Judge /\ phase = "seal" /\ phase' = "learn" /\ receipt' \in Gym!Receipts
            /\ UNCHANGED <<updates, failure, outcome, stepsTaken, credited, q>>
         \/ Learn
         \/ Close
<1> USE DEF Gym!inputs, Gym!progress, Gym!verdicts, Gym!effects, Gym!Failures, learning
<1>1. CASE Opened
  BY <1>1 DEF Opened, Gym!Start, Gym!Exhaust, GoesOn
<1>2. CASE Unopened
  BY <1>2 DEF Unopened, Gym!StartRaises, Raises
<1>3. CASE OutOfSteps
  BY <1>3 DEF OutOfSteps, Gym!StepBudgetExhausted, Gym!Exhaust, GoesOn
<1>4. CASE Decide
  <2>1. PICK d \in Proposals :
          \/ Gym!DecideAction(d) \/ Gym!SelectionInvalid(d) \/ Gym!GenerationRefused(d)
          \/ \E c \in Generated : Gym!Generate(d, c)
    BY <1>4 DEF Decide
  <2>2. phase = "loop" /\ UNCHANGED <<credited, q>>
    BY <1>4 DEF Decide
  <2>3. Gym!Decided(d) /\ phase' \in {"step", "seal"} /\ UNCHANGED failure
    BY <2>1 DEF Gym!DecideAction, Gym!SelectionInvalid, Gym!GenerationRefused, Gym!Generate,
                Gym!RefuseDecision
  <2> QED
    BY <2>2, <2>3 DEF Gym!Decided, GoesOn
<1>5. CASE Answered
  BY <1>5 DEF Answered, Gym!HostStep, Gym!ConcludeStep, Gym!Overrun, Gym!Finish, Gym!GoOn,
              Gym!Exhaust, GoesOn
<1>6. CASE AnswerRaises
  BY <1>6 DEF AnswerRaises, Gym!HostStepRaises, Gym!Raise, Raises
<1>7. CASE Rejected
  BY <1>7 DEF Rejected, Gym!HostRejects, Gym!RefuseDecision, GoesOn
<1>8. CASE Judge
  <2>1. PICK p \in BOOLEAN : Gym!Admit(Gym!AsksVerdict /\ env.semantic, p)
    BY <1>8 DEF Judge
  <2>2. receipt' \in Gym!Receipts
    <3>1. (Gym!AsksVerdict /\ env.semantic) \in BOOLEAN
      OBVIOUS
    <3> DEFINE v == Gym!AsksVerdict /\ env.semantic
    <3> HIDE DEF v
    <3>2. v \in BOOLEAN /\ Gym!Admit(v, p)
      BY <2>1, <3>1 DEF v
    <3> QED
      BY <3>2, Receives
  <2>3. phase = "seal" /\ phase' = "learn"
        /\ UNCHANGED <<updates, failure, outcome, stepsTaken>>
    BY <2>1 DEF Gym!Admit
  <2>4. UNCHANGED <<credited, q>>
    BY <1>8 DEF Judge
  <2> QED
    BY <1>8, <2>2, <2>3, <2>4
<1> QED
  BY <1>1, <1>2, <1>3, <1>4, <1>5, <1>6, <1>7, <1>8 DEF Plays

LEMMA RunStart == Init => RunInv
<1> SUFFICES ASSUME Init PROVE RunInv
  OBVIOUS
<1>1. task \in Tasks /\ sink = SinkGiven
  BY DEF Init, Gym!Init
<1>2. /\ phase = "start" /\ outcome = "running" /\ stepsTaken = 0 /\ receipt = None
      /\ failure = None /\ updates = 0
  BY DEF Init, Gym!Init
<1> QED
  BY <1>1, <1>2, TasksAssumption DEF RunInv, Gym!Phases

LEMMA RunStep == CourseInv /\ RunInv /\ StageInv /\ [Next]_vars => RunInv'
<1> SUFFICES ASSUME CourseInv, RunInv, StageInv, [Next]_vars PROVE RunInv'
  OBVIOUS
<1> USE DEF Gym!Phases
<1>1. CASE Plays
  <2>1. UNCHANGED <<task, sink, part>>
    BY <1>1, PlaysKeeps DEF progress
  <2>2. task.max_steps \in Nat /\ stepsTaken \in 0 .. task.max_steps
    BY TasksAssumption DEF RunInv
  <2>3. CASE GoesOn
    <3>1. stepsTaken' \in 0 .. task'.max_steps
      BY <2>1, <2>2, <2>3 DEF GoesOn
    <3> QED
      BY <2>1, <2>3, <3>1 DEF GoesOn, RunInv, SinkGiven
  <2>4. CASE Raises
    BY <2>1, <2>4, NoneAssumption DEF Raises, RunInv, SinkGiven
  <2>5. CASE /\ Judge /\ phase = "seal" /\ phase' = "learn" /\ receipt' \in Gym!Receipts
             /\ UNCHANGED <<updates, failure, outcome, stepsTaken, credited, q>>
    BY <2>1, <2>5 DEF RunInv, SinkGiven
  <2>6. CASE Learn
    <3>1. /\ phase = "learn" /\ phase' = "close" /\ UNCHANGED <<receipt, failure, outcome, stepsTaken>>
          /\ updates' = IF Gym!Creditable THEN updates + 1 ELSE updates
          /\ credited' = IF Gym!Creditable THEN credited \cup {<<task.task_id, Lesson>>}
                         ELSE credited
      BY <2>6 DEF Learn, Learns, Gym!Learn, Gym!progress
    <3>2. Gym!Creditable' <=> Gym!Creditable
      BY <2>1, <3>1 DEF Gym!Creditable
    <3>3. Gym!Creditable => task.task_id \in Taught'
      <4> DEFINE l == Lesson
                 id == task.task_id
      <4>1. <<id, l>>[1] = id
        OBVIOUS
      <4>2. Gym!Creditable => <<id, l>> \in credited'
        BY <3>1
      <4> HIDE DEF l, id
      <4> QED
        BY <4>1, <4>2, Zenon DEF id, Taught
    <3> QED
      BY <2>1, <3>1, <3>2, <3>3 DEF RunInv, SinkGiven
  <2>7. CASE Close
    <3>1. /\ phase = "close" /\ phase' = "end"
          /\ UNCHANGED <<receipt, failure, stepsTaken, updates, credited>>
          /\ outcome' = IF failure = None THEN "returned" ELSE "raised"
      BY <2>7 DEF Close, Gym!Close, Gym!progress, Gym!effects
    <3>2. Gym!Creditable' <=> Gym!Creditable
      BY <2>1, <3>1 DEF Gym!Creditable
    <3> QED
      BY <2>1, <3>1, <3>2 DEF RunInv, SinkGiven, Taught
  <2> QED
    BY <1>1, <2>3, <2>4, <2>5, <2>6, <2>7, PlayCases
<1>2. CASE Moves
  <2>1. CASE \E t \in Tasks : FreshEpisode(t) /\ part' # "over"
    <3>1. PICK t \in Tasks : FreshEpisode(t)
      BY <2>1
    <3>2. task' \in Tasks /\ stepsTaken' \in 0 .. task'.max_steps
      BY <3>1, TasksAssumption DEF FreshEpisode
    <3> QED
      BY <3>1, <3>2 DEF FreshEpisode, RunInv
  <2>2. CASE part' = "over" /\ UNCHANGED <<episode, env>>
    <3>1. UNCHANGED credited
      BY <1>2, Entering
    <3>2. Gym!Creditable' <=> Gym!Creditable
      BY <2>2 DEF Gym!Creditable, episode
    <3> QED
      BY <2>2, <3>1, <3>2 DEF RunInv, episode, Taught
  <2> QED
    BY <1>2, <2>1, <2>2, Entering
<1>3. CASE UNCHANGED vars
  <2>1. UNCHANGED <<episode, part, credited>>
    BY <1>3 DEF vars, progress
  <2>2. Gym!Creditable' <=> Gym!Creditable
    BY <2>1 DEF Gym!Creditable, episode
  <2> QED
    BY <2>1, <2>2 DEF RunInv, episode, SinkGiven, Taught
<1> QED
  BY <1>1, <1>2, <1>3, NextCases

-----------------------------------------------------------------------------
(* The stages of a curriculum. *)

\* An episode of a stage that returns has the result its task in the plan calls
\* for, and what it taught has been credited.
LEMMA ResultTells ==
  ASSUME CourseInv, RunInv, StageInv, Ended, outcome = "returned", course = "curriculum"
  PROVE  Tells(StageResult, StagePlan[Len(results) + 1], Taught)
<1> DEFINE id == StagePlan[Len(results) + 1]
<1>1. id \in DOMAIN Registry
  <2>1. Len(results) + 1 \in 1 .. Len(StagePlan) /\ Len(chain) + 1 \in DOMAIN curriculum.stages
    BY StageUnderWay DEF Ended
  <2> QED
    BY <2>1, Planned DEF CourseInv, StagePlan, Stage
<1>2. task = Registry[id] /\ task.task_id = id
  BY <1>1, Registered DEF StageInv, Ended
<1>3. phase = "end" /\ part = "train" /\ failure = None /\ sink
  BY DEF Ended, RunInv, CourseInv, SinkGiven
<1>4. receipt \in Gym!Receipts
  BY <1>3 DEF RunInv
<1>5. receipt.admitted \in BOOLEAN
  BY <1>4 DEF Gym!Receipts
<1>6. updates = (IF Gym!Creditable THEN 1 ELSE 0)
      /\ (Gym!Creditable => task.task_id \in Taught)
  BY <1>3 DEF RunInv
<1>7. Gym!Creditable <=> receipt.admitted /\ task.split = "train"
  BY <1>3, <1>5 DEF Gym!Creditable
<1> HIDE DEF id
<1>8. updates > 0 <=> Gym!Creditable
  BY <1>6
<1> QED
  BY <1>2, <1>6, <1>7, <1>8 DEF Tells, StageResult, id

\* What such a result says.
LEMMA Told ==
  ASSUME NEW r, NEW id, NEW taught, Tells(r, id, taught)
  PROVE  /\ r.task_id = id /\ r.split = Registry[id].split
         /\ r.learning_updated => r.accepted /\ r.split = "train"
         /\ r.accepted /\ r.split = "train" => id \in taught
         /\ DOMAIN r = {"task_id", "split", "accepted", "learning_updated", "budget_exhausted"}
<1> DEFINE a == r.accepted
           l == r.learning_updated
           b == r.budget_exhausted
<1>1. r = [task_id |-> id, split |-> Registry[id].split, accepted |-> a,
           learning_updated |-> l, budget_exhausted |-> b]
  BY DEF Tells
<1> HIDE DEF a, l, b
<1>2. /\ r.task_id = id /\ r.split = Registry[id].split
      /\ DOMAIN r = {"task_id", "split", "accepted", "learning_updated", "budget_exhausted"}
  BY <1>1
<1> QED
  BY <1>2 DEF Tells

\* The results of a stage that is over are those of its plan, and its evidence.
LEMMA StageEvidence ==
  ASSUME CourseInv, RunInv, StageInv, StageOver
  PROVE  LET all == Append(results, StageResult)
             T   == ToSet(all)
         IN  /\ Len(chain) + 1 \in DOMAIN curriculum.stages
             /\ TrainResults(all) \in Seq(T) /\ ValidationResults(all) \in Seq(T)
             /\ Len(TrainResults(all)) = Len(Stage.train)
             /\ Len(ValidationResults(all)) = Len(Stage.validation)
             /\ \A i \in 1 .. Len(Stage.train) :
                   /\ Tells(TrainResults(all)[i], Stage.train[i], Taught)
                   /\ TrainResults(all)[i].split = "train"
             /\ \A i \in 1 .. Len(Stage.validation) :
                   /\ Tells(ValidationResults(all)[i], Stage.validation[i], Taught)
                   /\ ValidationResults(all)[i].split = "validation"
<1> DEFINE all == Append(results, StageResult)
           T == ToSet(all)
           n == Len(Stage.train)
           m == Len(Stage.validation)
           l == Len(StagePlan)
           k == Len(results)
<1>1. part # "over" /\ course = "curriculum" /\ k + 1 = l /\ Ended /\ outcome = "returned"
  BY DEF StageOver, Ended
<1>2. /\ Len(chain) + 1 \in DOMAIN curriculum.stages /\ k \in Nat /\ l \in Nat
  BY <1>1, StageUnderWay
<1>3. /\ n \in Nat \ {0} /\ m \in Nat \ {0} /\ l = n + m
      /\ \A i \in 1 .. n : StagePlan[i] = Stage.train[i]
      /\ \A i \in 1 .. m : StagePlan[n + i] = Stage.validation[i]
      /\ \A i \in 1 .. l : Registry[StagePlan[i]].split = IF i <= n THEN "train" ELSE "validation"
  <2> DEFINE s == curriculum.stages[Len(chain) + 1]
             plan == s.train \o s.validation
  <2>1. /\ Len(s.train) \in Nat \ {0} /\ Len(s.validation) \in Nat \ {0}
        /\ Len(plan) = Len(s.train) + Len(s.validation)
        /\ \A i \in 1 .. Len(s.train) : plan[i] = s.train[i]
        /\ \A i \in 1 .. Len(s.validation) : plan[Len(s.train) + i] = s.validation[i]
        /\ \A i \in 1 .. Len(plan) :
              Registry[plan[i]].split = IF i <= Len(s.train) THEN "train" ELSE "validation"
    <3>1. curriculum \in Curricula /\ CurriculumWellFormed(curriculum)
          /\ TasksFit(curriculum, Registry)
      BY <1>1 DEF CourseInv
    <3> QED
      BY <1>2, <3>1, Planned
  <2>2. Stage = s /\ StagePlan = plan
    BY DEF Stage, StagePlan
  <2> HIDE DEF s, plan
  <2> QED
    BY <2>1, <2>2
<1>4. /\ all \in Seq(T) /\ Len(all) = l
      /\ \A i \in 1 .. k : all[i] = results[i]
      /\ all[k + 1] = StageResult
  BY <1>1, ListGrows DEF CourseInv
<1>5. ASSUME NEW i \in 1 .. l PROVE Tells(all[i], StagePlan[i], Taught)
  <2>1. CASE i = k + 1
    BY <1>1, <1>4, <2>1, ResultTells
  <2>2. CASE i # k + 1
    <3>1. i \in 1 .. k
      BY <1>1, <1>2, <2>2
    <3>2. i \in DOMAIN results
      BY <3>1, ListGrows DEF CourseInv
    <3> QED
      BY <1>1, <1>4, <3>1, <3>2 DEF StageInv
  <2> QED
    BY <2>1, <2>2
<1> DEFINE train == TrainResults(all)
           validation == ValidationResults(all)
<1>6. train = SubSeq(all, 1, n) /\ validation = SubSeq(all, n + 1, Len(all))
  BY DEF TrainResults, ValidationResults
<1> HIDE DEF train, validation, all, T, n, m, l, k
<1>7. /\ train \in Seq(T) /\ Len(train) = n
      /\ \A i \in 1 .. n : train[i] = all[i]
  <2>1. 1 \in 1 .. Len(all) + 1 /\ n \in 1 - 1 .. Len(all)
    BY <1>3, <1>4
  <2>2. /\ train \in Seq(T) /\ Len(train) = n - 1 + 1
        /\ \A i \in 1 .. n - 1 + 1 : train[i] = all[1 + i - 1]
    BY <1>4, <1>6, <2>1, SubSeqProperties
  <2>3. n - 1 + 1 = n /\ \A i \in 1 .. n : 1 + i - 1 = i
    BY <1>3
  <2> QED
    BY <2>2, <2>3
<1>8. /\ validation \in Seq(T) /\ Len(validation) = m
      /\ \A i \in 1 .. m : validation[i] = all[n + i]
  <2>1. n + 1 \in 1 .. Len(all) + 1 /\ Len(all) \in n + 1 - 1 .. Len(all)
    BY <1>3, <1>4
  <2>2. /\ validation \in Seq(T) /\ Len(validation) = Len(all) - (n + 1) + 1
        /\ \A i \in 1 .. Len(all) - (n + 1) + 1 : validation[i] = all[n + 1 + i - 1]
    BY <1>4, <1>6, <2>1, SubSeqProperties
  <2>3. Len(all) - (n + 1) + 1 = m /\ \A i \in 1 .. m : n + 1 + i - 1 = n + i
    BY <1>3, <1>4
  <2> QED
    BY <2>2, <2>3
<1>9. ASSUME NEW i \in 1 .. n
      PROVE  Tells(train[i], Stage.train[i], Taught) /\ train[i].split = "train"
  <2>1. i \in 1 .. l /\ i <= n
    BY <1>3
  <2>2. Tells(train[i], StagePlan[i], Taught) /\ StagePlan[i] = Stage.train[i]
    BY <1>3, <1>5, <1>7, <2>1
  <2>3. train[i].split = Registry[StagePlan[i]].split
    BY <2>2, Told
  <2> QED
    BY <1>3, <2>1, <2>2, <2>3
<1>10. ASSUME NEW i \in 1 .. m
       PROVE  Tells(validation[i], Stage.validation[i], Taught) /\ validation[i].split = "validation"
  <2>1. n + i \in 1 .. l /\ ~(n + i <= n)
    BY <1>3
  <2>2. Tells(validation[i], StagePlan[n + i], Taught) /\ StagePlan[n + i] = Stage.validation[i]
    BY <1>3, <1>5, <1>8, <2>1
  <2>3. validation[i].split = Registry[StagePlan[n + i]].split
    BY <2>2, Told
  <2> QED
    BY <1>3, <2>1, <2>2, <2>3
<1> QED
  BY <1>2, <1>7, <1>8, <1>9, <1>10 DEF train, validation, all, T, n, m

\* Results that tell of a list of tasks match it.
LEMMA TellingMatches ==
  ASSUME NEW T, NEW rs \in Seq(T), NEW G, NEW ids \in Seq(G), Len(rs) = Len(ids), Unique(ids),
         NEW taught, \A i \in 1 .. Len(ids) : Tells(rs[i], ids[i], taught)
  PROVE  Matches(rs, ids)
<1>1. DOMAIN rs = 1 .. Len(ids) /\ DOMAIN ids = 1 .. Len(ids)
  OBVIOUS
<1>2. \A i \in 1 .. Len(ids) : rs[i].task_id = ids[i]
  BY Told
<1>3. [i \in DOMAIN rs |-> rs[i].task_id] = ids
  BY <1>1, <1>2
<1>4. {rs[i].task_id : i \in DOMAIN rs} = ToIds(ids)
  BY <1>1, <1>2 DEF ToIds
<1> QED
  BY <1>3, <1>4 DEF Matches

\* The evidence of a stage that is over is complete: it is evaluated.
LEMMA EvidenceComplete ==
  ASSUME CourseInv, RunInv, StageInv, StageOver
  PROVE  LET all == Append(results, StageResult) IN
         /\ Stage.train \in Seq(ToSet(Stage.train)) /\ Unique(Stage.train)
         /\ Stage.validation \in Seq(ToSet(Stage.validation)) /\ Unique(Stage.validation)
         /\ Len(Stage.train) \in Nat \ {0} /\ Len(Stage.validation) \in Nat \ {0}
         /\ EvidenceMatches(Stage, TrainResults(all), ValidationResults(all))
<1> DEFINE all == Append(results, StageResult)
           T == ToSet(all)
           train == TrainResults(all)
           validation == ValidationResults(all)
<1>1. /\ Len(chain) + 1 \in DOMAIN curriculum.stages
      /\ train \in Seq(T) /\ validation \in Seq(T)
      /\ Len(train) = Len(Stage.train) /\ Len(validation) = Len(Stage.validation)
      /\ \A i \in 1 .. Len(Stage.train) :
            Tells(train[i], Stage.train[i], Taught) /\ train[i].split = "train"
      /\ \A i \in 1 .. Len(Stage.validation) :
            Tells(validation[i], Stage.validation[i], Taught) /\ validation[i].split = "validation"
  BY StageEvidence
<1>2. curriculum \in Curricula /\ CurriculumWellFormed(curriculum)
      /\ TasksFit(curriculum, Registry)
  BY DEF CourseInv, StageOver
<1> HIDE DEF train, validation, all, T
<1>3. /\ Stage.train \in Seq(ToSet(Stage.train)) /\ Unique(Stage.train)
      /\ Stage.validation \in Seq(ToSet(Stage.validation)) /\ Unique(Stage.validation)
  BY <1>1, <1>2, CurriculaAssumption DEF CurriculumWellFormed, StageWellFormed, Stage
<1>4. Len(Stage.train) \in Nat \ {0} /\ Len(Stage.validation) \in Nat \ {0}
  BY <1>1, <1>2, Planned DEF Stage
<1>5. Matches(train, Stage.train) /\ Matches(validation, Stage.validation)
  BY <1>1, <1>3, TellingMatches
<1>6. \A i \in DOMAIN train : train[i].split = "train"
  BY <1>1
<1>7. ASSUME NEW i \in DOMAIN validation
      PROVE  validation[i].split = "validation" /\ ~validation[i].learning_updated
  <2>1. i \in 1 .. Len(Stage.validation)
    BY <1>1
  <2> QED
    BY <1>1, <2>1, Told
<1> QED
  BY <1>3, <1>4, <1>5, <1>6, <1>7 DEF EvidenceMatches, train, validation, all

\* Stamping again changes nothing but the checkpoint, which is then the receipt's.
LEMMA RestampedIs ==
  ASSUME NEW r
  PROVE  /\ Receipted(Restamped(r)) /\ Payload(Restamped(r)) = Payload(r)
         /\ Restamped(r).checkpoint = Sha256(Payload(r))
         /\ Restamped(Restamped(r)) = Restamped(r)
<1> DEFINE p == Payload(r)
           t == Stamped(p)
<1>1. p = [f \in DOMAIN p |-> p[f]] /\ "checkpoint" \notin DOMAIN p
  BY DEF Payload
<1> HIDE DEF p
<1>2. /\ DOMAIN t = DOMAIN p \cup {"checkpoint"} /\ t = [f \in DOMAIN t |-> t[f]]
      /\ t.checkpoint = Sha256(p) /\ \A f \in DOMAIN p : t[f] = p[f]
  BY <1>1 DEF Stamped
<1> HIDE DEF t
<1>3. Payload(t) = p
  BY <1>1, <1>2 DEF Payload
<1> QED
  BY <1>2, <1>3 DEF Receipted, Restamped, t, p

\* The receipt of a stage that is over, and what its promotion takes.
LEMMA StageJudged ==
  ASSUME CourseInv, RunInv, StageInv, StageOver
  PROVE  LET r == StageReceipt(Append(results, StageResult)) IN
         /\ r = Restamped(r) /\ "promoted" \in DOMAIN r
         /\ VerifyPromotionChain(curriculum, Append(chain, r))
         /\ r.promoted /\ Stage.min_train = <<1, 1>> =>
               ToIds(Stage.train) \subseteq Taught
<1> DEFINE all == Append(results, StageResult)
           train == TrainResults(all)
           validation == ValidationResults(all)
           previous == PreviousCheckpoint(chain, Len(chain) + 1)
           r == EvaluateStage(curriculum, Stage, train, validation, previous)
           p == Receipt(curriculum, Stage, train, validation, previous)
<1>1. StageReceipt(all) = r
  BY DEF StageReceipt
<1>2. EvidenceMatches(Stage, train, validation)
  BY EvidenceComplete
<1>3. r = Restamped(r) /\ "promoted" \in DOMAIN r /\ r.promoted = p.promoted
  <2>1. "promoted" \in DOMAIN p
    BY DEF Receipt
  <2>2. /\ Payload(r) = p /\ r = Stamped(p)
        /\ \A f \in DOMAIN Payload(r) : r[f] = Payload(r)[f]
    BY <1>2, StageEvaluated DEF EvaluateStage
  <2> HIDE DEF r, p
  <2>3. "promoted" \in DOMAIN r /\ r["promoted"] = p["promoted"]
    BY <2>1, <2>2 DEF Payload
  <2> QED
    BY <2>2, <2>3 DEF Restamped
<1>4. VerifyPromotionChain(curriculum, Append(chain, r))
  <2> DEFINE stages == curriculum.stages
             n == Len(chain) + 1
  <2>1. /\ course = "curriculum" /\ part # "over" /\ curriculum \in Curricula
        /\ chain \in Seq(ToSet(chain))
    BY DEF StageOver, Ended, CourseInv
  <2>2. /\ VerifyPromotionChain(curriculum, chain) /\ Len(chain) < Len(stages)
        /\ \A i \in DOMAIN chain : chain[i].promoted
        /\ stages \in Seq(ToSet(stages))
    BY <2>1, CurriculaAssumption DEF StageInv
  <2>3. r = EvaluateStage(curriculum, stages[n], train, validation, PreviousCheckpoint(chain, n))
        /\ EvidenceMatches(stages[n], train, validation)
    BY <1>2 DEF Stage
  <2> HIDE DEF r, train, validation
  <2> QED
    BY <2>1, <2>2, <2>3, StageExtendsChain
<1>5. ASSUME r.promoted, Stage.min_train = <<1, 1>>
      PROVE  ToIds(Stage.train) \subseteq Taught
  <2>1. Reasons(Stage, train, validation) = {}
    BY <1>3, <1>5 DEF Receipt
  <2>2. ~RateBelow(Rate(train, "accepted"), <<1, 1>>)
    BY <1>5, <2>1 DEF Reasons
  <2>3. /\ train \in Seq(ToSet(all)) /\ Len(train) = Len(Stage.train)
        /\ \A i \in 1 .. Len(Stage.train) :
              Tells(train[i], Stage.train[i], Taught) /\ train[i].split = "train"
        /\ DOMAIN Stage.train = 1 .. Len(Stage.train)
    <3>1. /\ train \in Seq(ToSet(all)) /\ Len(train) = Len(Stage.train)
          /\ \A i \in 1 .. Len(Stage.train) :
                Tells(train[i], Stage.train[i], Taught) /\ train[i].split = "train"
      BY StageEvidence
    <3>2. Stage.train \in Seq(ToSet(Stage.train))
      BY EvidenceComplete
    <3> HIDE DEF train, all
    <3>3. DOMAIN Stage.train = 1 .. Len(Stage.train)
      BY <3>2
    <3> QED
      BY <3>1, <3>3
  <2> HIDE DEF train, all, r
  <2>4. \A i \in DOMAIN train : train[i].accepted
    <3>1. 1 \in Nat \ {0}
      OBVIOUS
    <3> QED
      BY <2>2, <2>3, <3>1, FullRate
  <2>5. ASSUME NEW i \in DOMAIN Stage.train
        PROVE  Stage.train[i] \in Taught
    BY <2>3, <2>4, Told
  <2> QED
    BY <2>5 DEF ToIds
<1> QED
  BY <1>1, <1>3, <1>4, <1>5

LEMMA StageStart == Init => StageInv
<1> SUFFICES ASSUME Init, course = "curriculum" PROVE StageInv
  BY DEF StageInv
<1>1. /\ chain = <<>> /\ results = <<>> /\ task = Registry[StagePlan[1]]
      /\ curriculum \in Curricula /\ CurriculumWellFormed(curriculum)
      /\ TasksFit(curriculum, Registry)
  BY DEF Init
<1>2. Len(chain) = 0 /\ Len(results) = 0 /\ DOMAIN chain = {} /\ DOMAIN results = {}
  BY <1>1
<1>3. Len(curriculum.stages) \in Nat \ {0} /\ 1 \in DOMAIN curriculum.stages
  BY <1>1, CurriculaAssumption DEF CurriculumWellFormed
<1>4. Len(StagePlan) \in Nat \ {0}
  <2> DEFINE s == curriculum.stages[1]
  <2>1. Len(s.train \o s.validation) \in Nat \ {0}
    BY <1>1, <1>3, Planned
  <2>2. StagePlan = s.train \o s.validation
    BY <1>2 DEF StagePlan, Stage
  <2> QED
    BY <2>1, <2>2
<1>5. VerifyPromotionChain(curriculum, chain)
  BY <1>2, <1>3 DEF VerifyPromotionChain
<1> QED
  BY <1>1, <1>2, <1>3, <1>4, <1>5 DEF StageInv

\* The next task of the stage.
LEMMA StageGoesOn ==
  ASSUME CourseInv, RunInv, StageInv, NextOfStage
  PROVE  StageInv'
<1>1. /\ Ended /\ outcome = "returned" /\ course = "curriculum" /\ part # "over"
      /\ UNCHANGED <<course, part, chain, curriculum, credited>>
      /\ results' = Append(results, StageResult) /\ Len(results) + 1 < Len(StagePlan)
      /\ task' = Registry[StagePlan[Len(results) + 2]]
  BY DEF NextOfStage, InStage, Ended, FreshEpisode
<1> DEFINE k == Len(results)
           l == Len(StagePlan)
<1>2. StagePlan' = StagePlan /\ Taught' = Taught
  BY <1>1 DEF StagePlan, Stage, Taught
<1>3. /\ k \in Nat /\ Len(results') = k + 1 /\ DOMAIN results' = 1 .. k + 1
      /\ \A i \in 1 .. k : results'[i] = results[i] /\ i \in DOMAIN results
      /\ results'[k + 1] = StageResult
  BY <1>1, ListGrows DEF CourseInv
<1>4. ASSUME NEW i \in 1 .. k + 1 PROVE Tells(results'[i], StagePlan[i], Taught)
  <2>1. CASE i = k + 1
    BY <1>1, <1>3, <2>1, ResultTells
  <2>2. CASE i # k + 1
    <3>1. i \in 1 .. k
      BY <1>3, <2>2
    <3> QED
      BY <1>1, <1>3, <3>1 DEF StageInv
  <2> QED
    BY <2>1, <2>2
<1> HIDE DEF k, l
<1>5. k + 1 < l /\ k + 2 = (k + 1) + 1 /\ task' = Registry[StagePlan[k + 2]]
  BY <1>1, <1>3 DEF k, l
<1>6. task' = Registry[StagePlan'[Len(results') + 1]] /\ Len(results') < Len(StagePlan')
  BY <1>2, <1>3, <1>5 DEF l
<1>7. \A i \in DOMAIN results' : Tells(results'[i], StagePlan'[i], Taught')
  BY <1>2, <1>3, <1>4
<1> QED
  BY <1>1, <1>2, <1>6, <1>7 DEF StageInv

\* The stage is over, and the next one begins if there is one and it is promoted.
LEMMA StageEnds ==
  ASSUME CourseInv, RunInv, StageInv, EndOfStage
  PROVE  StageInv'
<1> DEFINE r == StageReceipt(Append(results, StageResult))
           n == Len(chain)
<1>1. /\ StageOver /\ course = "curriculum" /\ part # "over"
      /\ UNCHANGED <<course, curriculum, credited>>
      /\ results' = <<>> /\ chain' = Append(chain, r)
      /\ \/ /\ chain'[Len(chain')].promoted /\ Len(chain') < Len(curriculum.stages)
            /\ task' = Registry[StagePlan'[1]]
         \/ part' = "over"
  BY DEF EndOfStage, InStage, Ended, StageOver, FreshEpisode
<1>2. /\ r = Restamped(r) /\ "promoted" \in DOMAIN r
      /\ VerifyPromotionChain(curriculum, Append(chain, r))
      /\ r.promoted /\ Stage.min_train = <<1, 1>> => ToIds(Stage.train) \subseteq Taught
  BY <1>1, StageJudged
<1> HIDE DEF r
<1>3. /\ n \in Nat /\ Len(chain') = n + 1 /\ DOMAIN chain' = 1 .. n + 1
      /\ \A i \in 1 .. n : chain'[i] = chain[i] /\ i \in DOMAIN chain
      /\ chain'[n + 1] = r
  BY <1>1, ListGrows DEF CourseInv
<1>4. Stage = curriculum.stages[n + 1] /\ Taught' = Taught
  BY <1>1 DEF Stage, Taught
<1> HIDE DEF n
<1>5. ASSUME NEW i \in 1 .. n + 1
      PROVE  /\ chain'[i] = Restamped(chain'[i]) /\ "promoted" \in DOMAIN chain'[i]
             /\ chain'[i].promoted /\ curriculum.stages[i].min_train = <<1, 1>> =>
                   ToIds(curriculum.stages[i].train) \subseteq Taught
             /\ i # n + 1 => chain'[i].promoted
  <2>1. CASE i = n + 1
    BY <1>2, <1>3, <1>4, <2>1
  <2>2. CASE i # n + 1
    <3>1. i \in 1 .. n
      BY <1>3, <2>2
    <3> QED
      BY <1>1, <1>3, <3>1 DEF StageInv
  <2> QED
    BY <2>1, <2>2
<1>6. ASSUME part' # "over"
      PROVE  /\ Len(chain') < Len(curriculum'.stages)
             /\ \A i \in DOMAIN chain' : chain'[i].promoted
             /\ Len(results') < Len(StagePlan')
             /\ task' = Registry[StagePlan'[Len(results') + 1]]
  <2>1. Len(results') = 0 /\ Len(results') + 1 = 1
    BY <1>1
  <2>2. Len(chain') < Len(curriculum'.stages) /\ task' = Registry[StagePlan'[1]]
        /\ chain'[n + 1].promoted
    BY <1>1, <1>3, <1>6
  <2>3. Len(StagePlan') \in Nat \ {0}
    <3> DEFINE s == curriculum.stages[Len(chain') + 1]
    <3>1. /\ curriculum \in Curricula /\ CurriculumWellFormed(curriculum)
          /\ TasksFit(curriculum, Registry)
      BY <1>1 DEF CourseInv
    <3>2. Len(chain') + 1 \in DOMAIN curriculum.stages
      <4>1. curriculum.stages \in Seq(ToSet(curriculum.stages))
        BY <3>1, CurriculaAssumption
      <4> QED
        BY <1>1, <1>3, <2>2, <4>1
    <3>3. Len(s.train \o s.validation) \in Nat \ {0}
      BY <3>1, <3>2, Planned
    <3> QED
      BY <1>1, <3>3 DEF StagePlan, Stage
  <2>4. Len(results') < Len(StagePlan')
    <3> DEFINE l == Len(StagePlan')
    <3>1. l \in Nat \ {0}
      BY <2>3
    <3> HIDE DEF l
    <3>2. 0 < l
      BY <3>1
    <3> QED
      BY <2>1, <3>2 DEF l
  <2> QED
    BY <1>3, <1>5, <2>1, <2>2, <2>4
<1>7. DOMAIN results' = {}
  BY <1>1
<1> QED
  BY <1>1, <1>2, <1>3, <1>4, <1>5, <1>6, <1>7 DEF StageInv

LEMMA StageStep == CourseInv /\ RunInv /\ StageInv /\ [Next]_vars => StageInv'
<1> SUFFICES ASSUME CourseInv, RunInv, StageInv, [Next]_vars PROVE StageInv'
  OBVIOUS
<1>1. CASE Plays \/ UNCHANGED vars
  <2>1. UNCHANGED <<task, course, part, curriculum, results, chain>>
    BY <1>1, PlaysKeeps DEF vars, progress, episode
  <2>2. credited \subseteq credited'
    <3>1. CASE Plays
      BY <3>1, PlayCases DEF GoesOn, Raises, Learn, Learns, Close
    <3>2. CASE UNCHANGED vars
      BY <3>2 DEF vars
    <3> QED
      BY <1>1, <3>1, <3>2
  <2>3. Taught \subseteq Taught' /\ StagePlan' = StagePlan
    BY <2>1, <2>2 DEF Taught, StagePlan, Stage
  <2>4. \A r, id : Tells(r, id, Taught) => Tells(r, id, Taught')
    <3> SUFFICES ASSUME NEW r, NEW id, Tells(r, id, Taught) PROVE Tells(r, id, Taught')
      OBVIOUS
    <3> QED
      BY <2>3, Zenon DEF Tells
  <2> QED
    BY <2>1, <2>3, <2>4 DEF StageInv
<1>2. CASE NextOfStage
  BY <1>2, StageGoesOn
<1>3. CASE EndOfStage
  BY <1>3, StageEnds
<1>4. CASE Abort
  <2>1. UNCHANGED <<course, curriculum, chain, credited>> /\ part' = "over"
    BY <1>4 DEF Abort
  <2>2. Taught' = Taught
    BY <2>1 DEF Taught
  <2> QED
    BY <2>1, <2>2 DEF StageInv
<1>5. CASE Retry \/ NextTask \/ NextPart \/ Finish
  <2>1. course # "curriculum" /\ course' = course
    BY <1>5 DEF Retry, NextTask, NextPart, Finish, Concludes, Searching, Searches
  <2> QED
    BY <2>1 DEF StageInv
<1> QED
  BY <1>1, <1>2, <1>3, <1>4, <1>5, NextCases DEF Moves

-----------------------------------------------------------------------------
(* What holds of every course. *)

LEMMA CourseHolds == Spec => [](CourseInv /\ RunInv /\ StageInv)
<1>1. Init => CourseInv /\ RunInv /\ StageInv
  BY CourseStart, RunStart, StageStart
<1>2. CourseInv /\ RunInv /\ StageInv /\ [Next]_vars => (CourseInv /\ RunInv /\ StageInv)'
  BY CourseStep, RunStep, StageStep
<1> QED
  BY <1>1, <1>2, PTL DEF Spec

(* Evaluation teaches nothing: whoever plays and whatever its episodes     *)
(* show, while the learner is evaluated the sink is not given, and neither *)
(* its values nor the memory of a search change.                           *)
THEOREM EvaluationReadsOnly == Spec => EvaluationIsReadOnly
<1>1. CourseInv /\ RunInv /\ StageInv /\ [Next]_vars =>
        [(part \in Evaluations) => UNCHANGED <<q, cursor, rejections, credited>>]_vars
  <2> SUFFICES ASSUME CourseInv, RunInv, StageInv, Next, part \in Evaluations
               PROVE  UNCHANGED <<q, cursor, rejections, credited>>
    OBVIOUS
  <2>1. part # "over" /\ part # "train" /\ ~sink
    BY DEF Evaluations, RunInv, SinkGiven
  <2>2. CASE Plays
    <3>1. UNCHANGED <<cursor, rejections>>
      BY <2>2 DEF Plays, Opened, Unopened, OutOfSteps, Decide, Answered, AnswerRaises, Rejected,
                  Judge, Learn, Close, learning
    <3>2. UNCHANGED <<q, credited>>
      BY <2>1, <2>2, PlayCases
         DEF GoesOn, Raises, Learn, Learns, Close, Teaches, Gym!Creditable, learning
    <3> QED
      BY <3>1, <3>2
  <2>3. CASE Moves
    <3>1. UNCHANGED <<q, credited>>
      BY <2>3, Entering
    <3>2. ~Searching
      BY <2>1 DEF Searching
    <3>3. UNCHANGED <<cursor, rejections>>
      BY <2>3, <3>2 DEF Moves, Retry, NextTask, NextPart, Finish, Concludes, Abort, NextOfStage,
                        EndOfStage, InStage, learning
    <3> QED
      BY <3>1, <3>3
  <2>4. CASE UNCHANGED vars
    BY <2>4 DEF vars, learning
  <2> QED
    BY <2>2, <2>3, <2>4, NextCases
<1> QED
  BY <1>1, CourseHolds, PTL DEF Spec, EvaluationIsReadOnly

\* The receipts of a course are well formed and in order.
LEMMA ChainInOrder ==
  ASSUME CourseInv, StageInv, course = "curriculum"
  PROVE  /\ Len(chain) \in Nat /\ DOMAIN chain = 1 .. Len(chain)
         /\ Len(chain) <= Len(curriculum.stages) /\ Len(curriculum.stages) \in Nat
         /\ \A i \in 1 .. Len(chain) :
               /\ Receipted(chain[i]) /\ "promoted" \in DOMAIN chain[i]
               /\ chain[i].checkpoint = Sha256(Payload(chain[i]))
               /\ chain[i].stage_index = i - 1
               /\ i # 1 => chain[i].previous_checkpoint = chain[i - 1].checkpoint
         /\ \A i \in 1 .. Len(chain) : curriculum.stages[i].index = i - 1
<1>1. chain \in Seq(ToSet(chain)) /\ VerifyPromotionChain(curriculum, chain)
      /\ curriculum \in Curricula /\ CurriculumWellFormed(curriculum)
  BY DEF CourseInv, StageInv
<1>2. Len(chain) \in Nat /\ DOMAIN chain = 1 .. Len(chain)
  BY <1>1
<1>3. /\ Len(chain) <= Len(curriculum.stages) /\ Len(curriculum.stages) \in Nat
      /\ DOMAIN curriculum.stages = 1 .. Len(curriculum.stages)
  BY <1>1, CurriculaAssumption DEF VerifyPromotionChain
<1>4. \A i \in 1 .. Len(chain) : curriculum.stages[i].index = i - 1
  BY <1>1, <1>2, <1>3 DEF CurriculumWellFormed
<1>5. ASSUME NEW i \in 1 .. Len(chain)
      PROVE  /\ Receipted(chain[i]) /\ "promoted" \in DOMAIN chain[i]
             /\ chain[i].checkpoint = Sha256(Payload(chain[i]))
             /\ chain[i].stage_index = i - 1
             /\ i # 1 => chain[i].previous_checkpoint = chain[i - 1].checkpoint
  <2>1. chain[i] = Restamped(chain[i]) /\ "promoted" \in DOMAIN chain[i]
    BY <1>2 DEF StageInv
  <2>2. Receipted(chain[i])
    BY <2>1, RestampedIs
  <2>3. /\ chain[i].checkpoint = Sha256(Payload(chain[i]))
        /\ chain[i].stage_index = curriculum.stages[i].index
        /\ chain[i].previous_checkpoint = PreviousCheckpoint(chain, i)
    BY <1>1, <1>2 DEF VerifyPromotionChain
  <2> QED
    BY <1>4, <2>1, <2>2, <2>3 DEF PreviousCheckpoint
<1> QED
  BY <1>2, <1>3, <1>4, <1>5

(* A promotion chain commits to its history: for every curriculum and      *)
(* whatever its episodes bring, the receipts of a course are accepted by   *)
(* verify_promotion_chain at every moment, and refused with one left out,  *)
(* two exchanged, one edited, or one edited and stamped again under later  *)
(* ones; and so is any receipt that follows a failed stage.                *)
THEOREM ChainAlwaysTellsHistory == Spec => []ChainTellsHistory
<1>1. CourseInv /\ StageInv => ChainTellsHistory
  <2> SUFFICES ASSUME CourseInv, StageInv, course = "curriculum"
               PROVE  /\ VerifyPromotionChain(curriculum, chain)
                      /\ \A altered \in AlteredChains : ~VerifyPromotionChain(curriculum, altered)
                      /\ chain # <<>> /\ ~chain[Len(chain)].promoted =>
                            ~VerifyPromotionChain(curriculum, Continued)
    BY DEF ChainTellsHistory
  <2> DEFINE n == Len(chain)
  <2>1. /\ n \in Nat /\ DOMAIN chain = 1 .. n
        /\ n <= Len(curriculum.stages) /\ Len(curriculum.stages) \in Nat
        /\ \A i \in 1 .. n :
              /\ Receipted(chain[i]) /\ "promoted" \in DOMAIN chain[i]
              /\ chain[i].checkpoint = Sha256(Payload(chain[i]))
              /\ chain[i].stage_index = i - 1
              /\ i # 1 => chain[i].previous_checkpoint = chain[i - 1].checkpoint
        /\ \A i \in 1 .. n : curriculum.stages[i].index = i - 1
        /\ chain \in Seq(ToSet(chain)) /\ VerifyPromotionChain(curriculum, chain)
    BY ChainInOrder DEF CourseInv, StageInv
  <2> HIDE DEF n
  <2>2. ASSUME NEW i \in 1 .. n - 1
        PROVE  ~VerifyPromotionChain(curriculum, [k \in 1 .. n - 1 |->
                                                    chain[IF k < i THEN k ELSE k + 1]])
    <3> DEFINE t == [k \in 1 .. n - 1 |-> chain[IF k < i THEN k ELSE k + 1]]
    <3>1. i \in DOMAIN t /\ t[i] = chain[i + 1] /\ i + 1 \in 1 .. n /\ i \in 1 .. n
      BY <2>1
    <3>2. t[i].stage_index # curriculum.stages[i].index
      BY <2>1, <3>1
    <3> HIDE DEF t
    <3> QED
      BY <3>1, <3>2 DEF VerifyPromotionChain, t
  <2>3. ASSUME NEW i \in DOMAIN chain, NEW j \in DOMAIN chain,
               [chain EXCEPT ![i] = chain[j], ![j] = chain[i]] # chain
        PROVE  ~VerifyPromotionChain(curriculum, [chain EXCEPT ![i] = chain[j], ![j] = chain[i]])
    <3> DEFINE t == [chain EXCEPT ![i] = chain[j], ![j] = chain[i]]
    <3>1. i # j
      <4> SUFFICES ASSUME i = j PROVE t = chain
        BY <2>3
      <4> QED
        BY <2>1
    <3>2. i \in DOMAIN t /\ t[i] = chain[j]
      BY <2>1, <3>1
    <3> HIDE DEF t
    <3>3. t[i].stage_index # curriculum.stages[i].index
      BY <2>1, <3>1, <3>2
    <3> QED
      BY <3>2, <3>3 DEF VerifyPromotionChain, t
  <2>4. ASSUME NEW i \in DOMAIN chain
        PROVE  ~VerifyPromotionChain(curriculum,
                    [chain EXCEPT ![i] = [chain[i] EXCEPT !.promoted = ~ @]])
    <3> DEFINE r == chain[i]
               s == [r EXCEPT !.promoted = ~ @]
               t == [chain EXCEPT ![i] = s]
    <3>1. i \in DOMAIN t /\ t[i] = s
      BY <2>1
    <3>2. Receipted(r) /\ "promoted" \in DOMAIN r /\ r.checkpoint = Sha256(Payload(r))
      BY <2>1
    <3> HIDE DEF r, t
    <3>3. /\ DOMAIN s = DOMAIN r /\ s.checkpoint = r.checkpoint
          /\ s["promoted"] = (~ r["promoted"])
      BY <3>2 DEF Receipted
    <3> HIDE DEF s
    <3>4. Payload(s)["promoted"] = s["promoted"] /\ Payload(r)["promoted"] = r["promoted"]
      BY <3>2, <3>3 DEF Payload
    <3>5. Payload(s) # Payload(r)
      BY <3>3, <3>4, Zenon
    <3>6. s.checkpoint # Sha256(Payload(s))
      BY <3>2, <3>3, <3>5 DEF Sha256
    <3> QED
      BY <3>1, <3>6 DEF VerifyPromotionChain, t, s, r
  <2>5. ASSUME NEW i \in 1 .. n - 1, NEW h, [chain EXCEPT ![i] = Restamped(h)] # chain
        PROVE  ~VerifyPromotionChain(curriculum, [chain EXCEPT ![i] = Restamped(h)])
    <3> DEFINE s == Restamped(h)
               t == [chain EXCEPT ![i] = s]
    <3> SUFFICES ASSUME VerifyPromotionChain(curriculum, t) PROVE s = chain[i]
      BY <2>1, <2>5
    <3> HIDE DEF s
    <3>1. /\ i \in 1 .. n /\ i + 1 \in 1 .. n /\ i + 1 # 1 /\ (i + 1) - 1 = i
      BY <2>1
    <3>2. /\ DOMAIN t = 1 .. n /\ t[i] = s /\ t[i + 1] = chain[i + 1]
      BY <2>1, <3>1
    <3> HIDE DEF t
    <3>3. t[i + 1].previous_checkpoint = s.checkpoint
      BY <3>1, <3>2 DEF VerifyPromotionChain, PreviousCheckpoint
    <3>4. s.checkpoint = chain[i].checkpoint
      BY <2>1, <3>1, <3>2, <3>3
    <3>5. Receipted(s) /\ s.checkpoint = Sha256(Payload(s))
      BY RestampedIs DEF s
    <3>6. Receipted(chain[i]) /\ chain[i].checkpoint = Sha256(Payload(chain[i]))
      BY <2>1, <3>1
    <3> QED
      BY <3>4, <3>5, <3>6, CheckpointFixesReceipt
  <2>6. \A altered \in AlteredChains : ~VerifyPromotionChain(curriculum, altered)
    <3> DEFINE others(i) == [k \in 1 .. n - 1 |-> chain[IF k < i THEN k ELSE k + 1]]
               exchanged(i, j) == [chain EXCEPT ![i] = chain[j], ![j] = chain[i]]
               edited(i) == [chain EXCEPT ![i] = [chain[i] EXCEPT !.promoted = ~ @]]
               history(i) == [chain[i] EXCEPT !.rates[2] = <<0, 1>>]
               again(i) == [chain EXCEPT ![i] = Restamped(history(i))]
    <3>1. AlteredChains = {others(i) : i \in 1 .. n - 1}
                          \cup ({exchanged(i, j) : i, j \in DOMAIN chain} \ {chain})
                          \cup {edited(i) : i \in DOMAIN chain}
                          \cup ({again(i) : i \in 1 .. n - 1} \ {chain})
      BY DEF AlteredChains, n
    <3>2. \A i \in 1 .. n - 1 : ~VerifyPromotionChain(curriculum, others(i))
      BY <2>2
    <3>3. \A i, j \in DOMAIN chain :
            exchanged(i, j) # chain => ~VerifyPromotionChain(curriculum, exchanged(i, j))
      BY <2>3, Zenon
    <3>4. \A i \in DOMAIN chain : ~VerifyPromotionChain(curriculum, edited(i))
      BY <2>4
    <3>5. \A i \in 1 .. n - 1 :
            again(i) # chain => ~VerifyPromotionChain(curriculum, again(i))
      BY <2>5, Zenon
    <3> HIDE DEF others, exchanged, edited, again
    <3> QED
      BY <3>1, <3>2, <3>3, <3>4, <3>5
  <2>7. ASSUME chain # <<>>, ~chain[n].promoted, NEW s
        PROVE  ~VerifyPromotionChain(curriculum, Append(chain, s))
    <3>1. n \in DOMAIN chain
      BY <2>1, <2>7 DEF n
    <3>2. /\ n \in DOMAIN Append(chain, s) /\ Append(chain, s)[n] = chain[n]
          /\ n # Len(Append(chain, s))
      <4>1. /\ Len(Append(chain, s)) = n + 1 /\ DOMAIN Append(chain, s) = 1 .. n + 1
            /\ Append(chain, s)[n] = chain[n]
        BY <2>1, <3>1, ListGrows DEF n
      <4> HIDE DEF n
      <4> QED
        BY <2>1, <3>1, <4>1
    <3> QED
      BY <2>7, <3>2 DEF VerifyPromotionChain
  <2> QED
    BY <2>1, <2>6, <2>7 DEF Continued, n
<1> QED
  BY <1>1, CourseHolds, PTL

\* Results that match a list of tasks are as many.
LEMMA MatchingLength ==
  ASSUME NEW T, NEW rs \in Seq(T), NEW ids, Unique(ids), Matches(rs, ids)
  PROVE  Len(rs) = Len(ids)
<1> DEFINE f == [i \in DOMAIN rs |-> rs[i].task_id]
<1>1. f \in [1 .. Len(rs) -> ToIds(f)] /\ Len(rs) \in Nat
  BY DEF ToIds
<1>2. Unique(f) /\ ToIds(f) = ToIds(ids)
  BY DEF Matches, ToIds
<1> HIDE DEF f
<1>3. f \in Seq(ToIds(f)) /\ Len(f) = Len(rs)
  BY <1>1
<1> QED
  BY <1>2, <1>3 DEF Unique

\* Fewer results with one flag than with another, if one has only the other.
LEMMA FewerHave ==
  ASSUME NEW T, NEW rs \in Seq(T), NEW flag, NEW other, Len(rs) # 0,
         \A i \in DOMAIN rs : rs[i][flag] => rs[i][other],
         NEW k \in DOMAIN rs, ~rs[k][flag], rs[k][other]
  PROVE  RateBelow(Rate(rs, flag), Rate(rs, other))
<1> DEFINE n == Len(rs)
           A == {i \in DOMAIN rs : rs[i][flag]}
           B == {i \in DOMAIN rs : rs[i][other]}
<1>1. n \in Nat /\ DOMAIN rs = 1 .. n
  OBVIOUS
<1>2. IsFiniteSet(1 .. n)
  BY <1>1, FS_Interval
<1>3. A \subseteq B /\ B \subseteq 1 .. n /\ A # B
  BY <1>1
<1> HIDE DEF A, B
<1>4. IsFiniteSet(B) /\ IsFiniteSet(A)
  BY <1>2, <1>3, FS_Subset
<1>5. Cardinality(A) <= Cardinality(B) /\ Cardinality(A) # Cardinality(B)
  BY <1>3, <1>4, FS_Subset
<1> DEFINE a == Cardinality(A)
           b == Cardinality(B)
<1>6. a \in Nat /\ b \in Nat /\ a < b
  BY <1>4, <1>5, FS_CardinalityType
<1>7. Rate(rs, flag) = <<a, n>> /\ Rate(rs, other) = <<b, n>>
  BY DEF Rate, A, B
<1> HIDE DEF a, b, n
<1>8. n \in Nat \ {0}
  BY <1>1 DEF n
<1>9. a * n < b * n
  BY <1>6, <1>8
<1> QED
  BY <1>6, <1>7, <1>8, <1>9 DEF RateBelow

(* A promotion is earned, in every course and for every curriculum: where  *)
(* a stage demands that every train task is admitted, a promoted receipt   *)
(* means that the sink was given an admitted episode of every one; and no  *)
(* leaving out, repeating, exchanging or editing of the stage's results    *)
(* makes better evidence of them.                                          *)
THEOREM PromotionIsAlwaysEarned == Spec => []PromotionIsEarned
<1>1. CourseInv /\ RunInv /\ StageInv => PromotionIsEarned
  <2> SUFFICES ASSUME CourseInv, RunInv, StageInv PROVE PromotionIsEarned
    OBVIOUS
  <2>1. \A i \in DOMAIN chain :
          chain[i].promoted /\ curriculum.stages[i].min_train = <<1, 1>> =>
              ToIds(curriculum.stages[i].train) \subseteq Taught
    BY DEF StageInv, CourseInv
  <2>2. ASSUME StageOver
        PROVE  LET all == Append(results, StageResult)
                   train == TrainResults(all)
                   validation == ValidationResults(all)
                   promoted(r) == r # None /\ r.promoted
                   judged(ts, vs) == EvaluateStage(curriculum, Stage, ts, vs, ZERO_HASH)
                   untaught(i) == [train EXCEPT ![i].learning_updated = FALSE,
                                                ![i].accepted = TRUE]
                   taught(i) == [validation EXCEPT ![i].learning_updated = TRUE]
               IN  /\ judged(Tail(train), validation) = None
                   /\ judged(Append(train, train[1]), validation) = None
                   /\ judged(train, <<train[1]>>) = None
                   /\ judged(validation, validation) = None
                   /\ \A i \in DOMAIN validation : judged(train, taught(i)) = None
                   /\ Stage.require_updates =>
                        \A i \in DOMAIN train : ~promoted(judged(untaught(i), validation))
    <3> DEFINE all == Append(results, StageResult)
               T == ToSet(all)
               train == TrainResults(all)
               validation == ValidationResults(all)
               judged(ts, vs) == EvaluateStage(curriculum, Stage, ts, vs, ZERO_HASH)
               n == Len(Stage.train)
               m == Len(Stage.validation)
    <3>1. /\ train \in Seq(T) /\ validation \in Seq(T) /\ Len(train) = n /\ Len(validation) = m
          /\ \A i \in 1 .. n : Tells(train[i], Stage.train[i], Taught) /\ train[i].split = "train"
          /\ \A i \in 1 .. m : /\ Tells(validation[i], Stage.validation[i], Taught)
                               /\ validation[i].split = "validation"
      BY <2>2, StageEvidence
    <3>2. n \in Nat \ {0} /\ m \in Nat \ {0} /\ Unique(Stage.train)
      BY <2>2, EvidenceComplete
    <3> HIDE DEF all, T, train, validation, n, m
    <3>3. /\ DOMAIN train = 1 .. n /\ DOMAIN validation = 1 .. m
          /\ \A i \in 1 .. n :
                DOMAIN train[i] = {"task_id", "split", "accepted", "learning_updated",
                                   "budget_exhausted"}
                /\ (train[i].learning_updated => train[i].accepted)
          /\ \A i \in 1 .. m :
                DOMAIN validation[i] = {"task_id", "split", "accepted", "learning_updated",
                                        "budget_exhausted"}
      BY <3>1, <3>2, Told
    <3>4. \A ts, vs : ~EvidenceMatches(Stage, ts, vs) => judged(ts, vs) = None
      BY DEF EvaluateStage
    <3> HIDE DEF judged
    <3>5. judged(Tail(train), validation) = None
      <4>1. Tail(train) \in Seq(T) /\ Len(Tail(train)) = n - 1
        BY <3>1, <3>2
      <4>2. Len(Tail(train)) # Len(Stage.train)
        BY <3>2, <4>1 DEF n
      <4> QED
        BY <3>2, <3>4, <4>1, <4>2, MatchingLength DEF EvidenceMatches
    <3>6. judged(Append(train, train[1]), validation) = None
      <4>1. /\ Append(train, train[1]) \in Seq(T) /\ Len(Append(train, train[1])) = n + 1
        BY <3>1, <3>2
      <4>2. Len(Append(train, train[1])) # Len(Stage.train)
        BY <3>2, <4>1 DEF n
      <4> QED
        BY <3>2, <3>4, <4>1, <4>2, MatchingLength DEF EvidenceMatches
    <3>7. judged(train, <<train[1]>>) = None
      <4>1. train[1].split = "train" /\ 1 \in DOMAIN <<train[1]>> /\ <<train[1]>>[1] = train[1]
        BY <3>1, <3>2
      <4> QED
        BY <3>4, <4>1 DEF EvidenceMatches
    <3>8. judged(validation, validation) = None
      <4>1. validation[1].split = "validation" /\ 1 \in DOMAIN validation
        BY <3>1, <3>2, <3>3
      <4> QED
        BY <3>4, <4>1 DEF EvidenceMatches
    <3>9. ASSUME NEW i \in DOMAIN validation
          PROVE  judged(train, [validation EXCEPT ![i].learning_updated = TRUE]) = None
      <4> DEFINE vs == [validation EXCEPT ![i].learning_updated = TRUE]
      <4>1. "learning_updated" \in DOMAIN validation[i]
        BY <3>3
      <4>2. i \in DOMAIN vs /\ vs[i].learning_updated
        BY <4>1
      <4> HIDE DEF vs
      <4>3. ~EvidenceMatches(Stage, train, vs)
        BY <4>2 DEF EvidenceMatches
      <4> QED
        BY <3>4, <4>3 DEF vs
    <3>10. ASSUME Stage.require_updates, NEW i \in DOMAIN train
           PROVE  LET ts == [train EXCEPT ![i].learning_updated = FALSE, ![i].accepted = TRUE]
                  IN  ~(judged(ts, validation) # None /\ judged(ts, validation).promoted)
      <4> DEFINE ts == [train EXCEPT ![i].learning_updated = FALSE, ![i].accepted = TRUE]
                 r == judged(ts, validation)
      <4> SUFFICES ASSUME r # None PROVE ~r.promoted
        OBVIOUS
      <4>1. EvidenceMatches(Stage, ts, validation)
        BY <3>4
      <4>2. r.promoted = (Reasons(Stage, ts, validation) = {})
        <5> HIDE DEF ts
        <5> DEFINE p == Receipt(curriculum, Stage, ts, validation, ZERO_HASH)
        <5>1. "promoted" \in DOMAIN p /\ p.promoted = (Reasons(Stage, ts, validation) = {})
          BY DEF Receipt
        <5>2. Payload(r) = p /\ \A f \in DOMAIN Payload(r) : r[f] = Payload(r)[f]
          BY <4>1, StageEvaluated DEF judged
        <5> HIDE DEF p, r
        <5> QED
          BY <5>1, <5>2
      <4>3. /\ DOMAIN ts = 1 .. n /\ ts \in Seq(ToSet(ts)) /\ Len(ts) = n
            /\ \A j \in 1 .. n : ts[j].learning_updated => ts[j].accepted
            /\ ~ts[i].learning_updated /\ ts[i].accepted
        <5>1. \A j \in 1 .. n :
                "learning_updated" \in DOMAIN train[j] /\ "accepted" \in DOMAIN train[j]
                /\ (train[j].learning_updated => train[j].accepted)
          BY <3>3
        <5> DEFINE t == [[train[i] EXCEPT !.learning_updated = FALSE] EXCEPT !.accepted = TRUE]
        <5>2. /\ DOMAIN ts = 1 .. n /\ ts[i] = t
              /\ \A j \in 1 .. n : j # i => ts[j] = train[j]
          BY <3>3
        <5>3. ~t.learning_updated /\ t.accepted
          BY <3>3, <5>1
        <5>4. ts = [j \in 1 .. n |-> ts[j]]
          BY <3>3
        <5> HIDE DEF ts, t
        <5>5. ts \in [1 .. n -> ToSet(ts)]
          BY <5>2, <5>4 DEF ToSet
        <5>6. ts \in Seq(ToSet(ts)) /\ Len(ts) = n
          BY <3>2, <5>5
        <5> QED
          BY <3>3, <5>1, <5>2, <5>3, <5>6
      <4> HIDE DEF ts, r
      <4>4. RateBelow(Rate(ts, "learning_updated"), Rate(ts, "accepted"))
        BY <3>2, <3>3, <4>3, FewerHave
      <4>5. "admitted_train_episode_missing_learning_update" \in Reasons(Stage, ts, validation)
        BY <3>10, <4>4 DEF Reasons
      <4> QED
        BY <4>2, <4>5
    <3> QED
      BY <3>5, <3>6, <3>7, <3>8, <3>9, <3>10 DEF judged, train, validation, all
  <2> QED
    BY <2>1, <2>2 DEF PromotionIsEarned
<1> QED
  BY <1>1, CourseHolds, PTL

\* The first number that differs decides.
LEMMA FirstDecides ==
  ASSUME NEW a1, NEW a2, NEW a3, NEW a4, NEW a5, NEW a6,
         NEW b1, NEW b2, NEW b3, NEW b4, NEW b5, NEW b6,
         \/ 0 <= a1 /\ a1 < b1
         \/ a1 = b1 /\ 0 <= a2 /\ a2 < b2
         \/ a1 = b1 /\ a2 = b2 /\ 0 <= a3 /\ a3 < b3
         \/ a1 = b1 /\ a2 = b2 /\ a3 = b3 /\ 0 <= a4 /\ a4 < b4
         \/ a1 = b1 /\ a2 = b2 /\ a3 = b3 /\ a4 = b4 /\ 0 <= a5 /\ a5 < b5
         \/ a1 = b1 /\ a2 = b2 /\ a3 = b3 /\ a4 = b4 /\ a5 = b5 /\ 0 <= a6 /\ a6 < b6
  PROVE  Less(<<a1, a2, a3, a4, a5, a6>>, <<b1, b2, b3, b4, b5, b6>>)
<1> DEFINE a == <<a1, a2, a3, a4, a5, a6>>
           b == <<b1, b2, b3, b4, b5, b6>>
<1>1. /\ DOMAIN a = 1 .. 6
      /\ a[1] = a1 /\ a[2] = a2 /\ a[3] = a3 /\ a[4] = a4 /\ a[5] = a5 /\ a[6] = a6
      /\ b[1] = b1 /\ b[2] = b2 /\ b[3] = b3 /\ b[4] = b4 /\ b[5] = b5 /\ b[6] = b6
  OBVIOUS
<1> HIDE DEF a, b
<1>2. PICK i \in 1 .. 6 : /\ 0 <= a[i] /\ a[i] < b[i]
                          /\ \A j \in 1 .. 6 : j < i => a[j] = b[j]
  <2>1. \A j \in 1 .. 6 : j = 1 \/ j = 2 \/ j = 3 \/ j = 4 \/ j = 5 \/ j = 6
    OBVIOUS
  <2> QED
    BY <1>1, <2>1
<1>3. \A j \in 1 .. i - 1 : j \in 1 .. 6 /\ j < i
  OBVIOUS
<1> QED
  BY <1>1, <1>2, <1>3 DEF Less, a, b

(* Every step of a course leaves less to do, for every set of tasks,       *)
(* agents and curricula: fewer parts of the course, stages, results,       *)
(* tasks, attempts or steps of the episode, in this order.                 *)
THEOREM CourseAlwaysAdvances == Spec => CourseAdvances
<1>1. /\ CourseInv /\ RunInv /\ StageInv /\ [Next]_vars
      => [Less(WorkLeft', WorkLeft)]_vars
  <2> SUFFICES ASSUME CourseInv, RunInv, StageInv, Next
               PROVE  Less(WorkLeft', WorkLeft) \/ UNCHANGED vars
    OBVIOUS
  <2>1. CASE Plays
    <3>1. UNCHANGED <<task, part, curriculum, chain, results, pending, granted, attempt>>
      BY <2>1, PlaysKeeps DEF progress
    <3>2. /\ PartsLeft' = PartsLeft /\ StagesLeft' = StagesLeft /\ ResultsLeft' = ResultsLeft
          /\ Cardinality(pending)' = Cardinality(pending)
          /\ (granted - attempt)' = granted - attempt
      BY <3>1 DEF PartsLeft, StagesLeft, ResultsLeft, StagePlan, Stage
    <3>3. 0 <= StepsLeft' /\ StepsLeft' < StepsLeft
      <4>1. task.max_steps \in Nat /\ stepsTaken \in 0 .. task.max_steps /\ task' = task
        BY <3>1, TasksAssumption DEF RunInv
      <4> DEFINE m == task.max_steps
      <4> HIDE DEF m
      <4>2. m \in Nat /\ stepsTaken \in 0 .. m /\ task'.max_steps = m /\ task.max_steps = m
        BY <4>1 DEF m
      <4>3. CASE GoesOn
        BY <4>2, <4>3 DEF GoesOn, StepsLeft
      <4>4. CASE Raises
        BY <4>2, <4>4 DEF Raises, StepsLeft
      <4>5. CASE phase = "seal" /\ phase' = "learn"
        BY <4>2, <4>5 DEF StepsLeft
      <4>6. CASE Learn
        <5>1. phase = "learn" /\ phase' = "close"
          BY <4>6 DEF Learn, Learns, Gym!Learn
        <5> QED
          BY <4>2, <5>1 DEF StepsLeft
      <4>7. CASE Close
        <5>1. phase = "close" /\ phase' = "end"
          BY <4>7 DEF Close, Gym!Close
        <5> QED
          BY <4>2, <5>1 DEF StepsLeft
      <4> QED
        BY <2>1, <4>3, <4>4, <4>5, <4>6, <4>7, PlayCases
    <3> QED
      BY <3>2, <3>3, FirstDecides DEF WorkLeft
  <2>2. CASE Retry
    <3>1. /\ UNCHANGED <<part, curriculum, chain, results, pending, granted>>
          /\ attempt' = attempt + 1 /\ attempt < granted /\ granted \in Nat /\ attempt \in Nat
      BY <2>2 DEF Retry, CourseInv
    <3>2. /\ PartsLeft' = PartsLeft /\ StagesLeft' = StagesLeft /\ ResultsLeft' = ResultsLeft
          /\ Cardinality(pending)' = Cardinality(pending)
      BY <3>1 DEF PartsLeft, StagesLeft, ResultsLeft, StagePlan, Stage
    <3>3. 0 <= (granted - attempt)' /\ (granted - attempt)' < granted - attempt
      BY <3>1
    <3> QED
      BY <3>2, <3>3, FirstDecides DEF WorkLeft
  <2>3. CASE NextTask
    <3>1. PICK t \in Upcoming(pending, part) : pending' = pending \ {t}
      BY <2>3 DEF NextTask
    <3>2. t \in pending
      BY <3>1 DEF Upcoming
    <3>3. UNCHANGED <<part, curriculum, chain, results>>
      BY <2>3 DEF NextTask, Concludes
    <3>4. PartsLeft' = PartsLeft /\ StagesLeft' = StagesLeft /\ ResultsLeft' = ResultsLeft
      BY <3>3 DEF PartsLeft, StagesLeft, ResultsLeft, StagePlan, Stage
    <3>5. IsFiniteSet(pending)
      BY TasksAssumption, FS_Subset DEF CourseInv
    <3>6. /\ Cardinality(pending) \in Nat /\ Cardinality(pending \ {t}) = Cardinality(pending) - 1
          /\ Cardinality(pending \ {t}) \in Nat
      BY <3>2, <3>5, FS_RemoveElement, FS_CardinalityType
    <3>7. 0 <= Cardinality(pending') /\ Cardinality(pending') < Cardinality(pending)
      BY <3>1, <3>6
    <3> QED
      BY <3>4, <3>7, FirstDecides DEF WorkLeft
  <2>4. CASE NextPart \/ Finish \/ Abort
    <3>1. 0 <= PartsLeft' /\ PartsLeft' < PartsLeft
      BY <2>4 DEF NextPart, Finish, Abort, Concludes, Ended, CourseInv, Evaluations, PartsLeft
    <3> QED
      BY <3>1, FirstDecides DEF WorkLeft
  <2>5. CASE NextOfStage
    <3>1. /\ UNCHANGED <<part, curriculum, chain>> /\ course = "curriculum" /\ part # "over"
          /\ results' = Append(results, StageResult) /\ Len(results) + 1 < Len(StagePlan)
      BY <2>5 DEF NextOfStage, InStage, Ended
    <3>2. PartsLeft' = PartsLeft /\ StagesLeft' = StagesLeft /\ StagePlan' = StagePlan
      BY <3>1 DEF PartsLeft, StagesLeft, StagePlan, Stage
    <3>3. curriculum # None
      BY <3>1, NoneAssumption DEF CourseInv
    <3>4. /\ Len(results) \in Nat /\ Len(StagePlan) \in Nat
          /\ Len(results') = Len(results) + 1
      BY <3>1, StageUnderWay, ListGrows DEF CourseInv
    <3>5. /\ ResultsLeft = Len(StagePlan) - Len(results)
          /\ ResultsLeft' = Len(StagePlan) - (Len(results) + 1)
      BY <3>1, <3>2, <3>3, <3>4 DEF ResultsLeft
    <3> DEFINE l == Len(StagePlan)
               k == Len(results)
    <3> HIDE DEF l, k
    <3>6. l \in Nat /\ k \in Nat /\ k + 1 < l /\ ResultsLeft = l - k /\ ResultsLeft' = l - (k + 1)
      BY <3>1, <3>4, <3>5 DEF l, k
    <3>7. 0 <= ResultsLeft' /\ ResultsLeft' < ResultsLeft
      BY <3>6
    <3> QED
      BY <3>2, <3>7, FirstDecides DEF WorkLeft
  <2>6. CASE EndOfStage
    <3>1. /\ UNCHANGED curriculum /\ course = "curriculum" /\ part # "over"
          /\ chain' = Append(chain, StageReceipt(Append(results, StageResult)))
          /\ \/ UNCHANGED part /\ Len(chain') < Len(curriculum.stages)
             \/ part' = "over"
      BY <2>6 DEF EndOfStage, InStage, Ended
    <3>2. CASE part' = "over"
      <4>1. 0 <= PartsLeft' /\ PartsLeft' < PartsLeft
        BY <3>1, <3>2 DEF PartsLeft, CourseInv, Evaluations
      <4> QED
        BY <4>1, FirstDecides DEF WorkLeft
    <3>3. CASE UNCHANGED part /\ Len(chain') < Len(curriculum.stages)
      <4>1. /\ curriculum # None /\ Len(chain) \in Nat /\ Len(curriculum.stages) \in Nat
            /\ Len(chain') = Len(chain) + 1
        BY <3>1, StageUnderWay, ListGrows, NoneAssumption DEF CourseInv
      <4>2. StagesLeft = Len(curriculum.stages) - Len(chain)
            /\ StagesLeft' = Len(curriculum.stages) - Len(chain')
        BY <3>1, <4>1 DEF StagesLeft
      <4>3. 0 <= StagesLeft' /\ StagesLeft' < StagesLeft /\ PartsLeft' = PartsLeft
        BY <3>3, <4>1, <4>2 DEF PartsLeft
      <4> QED
        BY <4>3, FirstDecides DEF WorkLeft
    <3> QED
      BY <3>1, <3>2, <3>3
  <2> QED
    BY <2>1, <2>2, <2>3, <2>4, <2>5, <2>6, NextCases DEF Moves
<1> QED
  BY <1>1, CourseHolds, PTL DEF Spec, CourseAdvances

-----------------------------------------------------------------------------
(* What an environment shows of what it knows. *)

Fields == {"class", "scenario", "process", "facts", "attempts", "sequence", "semantic"}

Shows(answer, check, status) == answer.seen.check_id = check /\ answer.seen.status = status

\* It remembers or judges right something.
Holds(e) == e.facts # {} \/ e.semantic

\* What stays of an environment whatever it is given.
Same(e, d) ==
    /\ DOMAIN d = Fields /\ d.class = e.class
    /\ d.attempts = e.attempts /\ d.sequence = e.sequence

LEMMA DeferralShows ==
  ASSUME NEW e, DOMAIN e = Fields
  PROVE  Deferred(e).env = e /\ Same(e, Deferred(e).env)
BY DEF Deferred, Same, Answer

LEMMA CliShows ==
  ASSUME NEW e, DOMAIN e = Fields, NEW a,
         a \in Deferrals \cup {"INSPECT_PROCESS_STATE", "RESTART_PROCESS", "RETRY_HEALTHCHECK"}
  PROVE  /\ Same(e, CliStep(e, a).env)
         /\ Holds(CliStep(e, a).env) =>
               \/ Holds(e)
               \/ Shows(CliStep(e, a), "process-state", "PASS")
               \/ Shows(CliStep(e, a), "process-state", "FAIL")
<1> DEFINE r == CliStep(e, a)
           running == e.process = "running"
           healthy == running /\ e.facts \cap {"inspected", "restarted"} # {}
<1> USE DEF Answer, Seen, Judged, Remember, Same, Fields
<1>1. CASE a = "INSPECT_PROCESS_STATE"
  <2>1. Same(e, r.env)
    BY <1>1 DEF CliStep, Deferrals
  <2>2. r.seen.check_id = "process-state" /\ r.seen.status \in {"PASS", "FAIL"}
    BY <1>1 DEF CliStep, Deferrals, Verdict
  <2> QED
    BY <2>1, <2>2 DEF Shows
<1>2. CASE a = "RESTART_PROCESS"
  <2>1. Same(e, r.env)
    BY <1>2 DEF CliStep, Deferrals
  <2>2. Holds(r.env) => Holds(e)
    BY <1>2 DEF CliStep, Deferrals, MayRestart, Holds
  <2> QED
    BY <2>1, <2>2
<1>3. CASE a = "RETRY_HEALTHCHECK"
  <2>1. Same(e, r.env)
    BY <1>3 DEF CliStep, Deferrals
  <2>2. Holds(r.env) => Holds(e)
    BY <1>3 DEF CliStep, Deferrals, Holds
  <2> QED
    BY <2>1, <2>2
<1>4. CASE a \in Deferrals
  <2>1. r = Deferred(e)
    BY <1>4 DEF CliStep, Deferrals
  <2> QED
    BY <2>1, DeferralShows
<1> QED
  BY <1>1, <1>2, <1>3, <1>4

\* Structured data and file configuration.
LEMMA AuthorityShows ==
  ASSUME NEW e, DOMAIN e = Fields, NEW a, NEW inspection, NEW origin, NEW selections,
         NEW selection, a \in Deferrals \cup {inspection} \cup selections,
         inspection \notin Deferrals, inspection \notin selections,
         selections \cap Deferrals = {}
  PROVE  LET r == AuthorityStep(e, a, inspection, origin, selections, selection) IN
         /\ Same(e, r.env)
         /\ Holds(r.env) => Holds(e) \/ Shows(r, origin, "PASS")
<1> DEFINE r == AuthorityStep(e, a, inspection, origin, selections, selection)
<1> USE DEF Answer, Seen, Judged, Remember, Same, Fields
<1>1. CASE a = inspection
  <2>1. Same(e, r.env)
    BY <1>1 DEF AuthorityStep
  <2>2. r.seen.check_id = origin /\ r.seen.status = "PASS"
    BY <1>1 DEF AuthorityStep
  <2> QED
    BY <2>1, <2>2 DEF Shows
<1>2. CASE a \in selections
  <2>1. Same(e, r.env)
    BY <1>2 DEF AuthorityStep
  <2>2. Holds(r.env) => Holds(e)
    BY <1>2 DEF AuthorityStep, Holds, SelectionValid
  <2> QED
    BY <2>1, <2>2
<1>3. CASE a \in Deferrals
  <2>1. r = Deferred(e)
    BY <1>3 DEF AuthorityStep
  <2> QED
    BY <2>1, DeferralShows
<1> QED
  BY <1>1, <1>2, <1>3

LEMMA RepositoryShows ==
  ASSUME NEW e, DOMAIN e = Fields, NEW a,
         a \in Deferrals \cup {"RUN_TARGETED_TEST", "APPLY_CANDIDATE_FIX", "RUN_REGRESSION",
                               "ROLLBACK"}
  PROVE  LET r == RepositoryStep(e, a) IN
         /\ Same(e, r.env)
         /\ Holds(r.env) => Holds(e) \/ Shows(r, "targeted-test", "FAIL")
         /\ r.env.semantic => e.semantic \/ Shows(r, "regression", "PASS")
<1> DEFINE r == RepositoryStep(e, a)
           repaired == "patched" \in e.facts
           failed == "failed" \in e.facts
<1> USE DEF Answer, Seen, Judged, Remember, Same, Fields
<1>1. CASE a = "RUN_TARGETED_TEST"
  <2>1. Same(e, r.env) /\ r.env.semantic = e.semantic
    BY <1>1 DEF RepositoryStep, Deferrals
  <2>2. r.seen.check_id = "targeted-test" /\ r.seen.status = IF repaired THEN "PASS" ELSE "FAIL"
    BY <1>1 DEF RepositoryStep, Deferrals, Verdict
  <2> QED
    BY <2>1, <2>2 DEF Holds, Shows
<1>2. CASE a = "APPLY_CANDIDATE_FIX"
  <2>1. Same(e, r.env) /\ r.env.semantic = e.semantic
    BY <1>2 DEF RepositoryStep, Deferrals
  <2>2. r.env.facts # {} => e.facts # {}
    BY <1>2 DEF RepositoryStep, Deferrals
  <2> QED
    BY <2>1, <2>2 DEF Holds
<1>3. CASE a = "RUN_REGRESSION"
  <2>1. Same(e, r.env) /\ r.env.facts = e.facts /\ (r.env.semantic <=> repaired)
    BY <1>3 DEF RepositoryStep, Deferrals
  <2>2. r.seen.check_id = "regression" /\ r.seen.status = IF repaired THEN "PASS" ELSE "FAIL"
    BY <1>3 DEF RepositoryStep, Deferrals, Verdict
  <2> QED
    BY <2>1, <2>2 DEF Holds, Shows
<1>4. CASE a = "ROLLBACK"
  <2>1. Same(e, r.env) /\ r.env.semantic = e.semantic
    BY <1>4 DEF RepositoryStep, Deferrals
  <2>2. r.env.facts # {} => e.facts # {}
    BY <1>4 DEF RepositoryStep, Deferrals
  <2> QED
    BY <2>1, <2>2 DEF Holds
<1>5. CASE a \in Deferrals
  <2>1. r = Deferred(e)
    BY <1>5 DEF RepositoryStep, Deferrals
  <2> QED
    BY <2>1, DeferralShows
<1> QED
  BY <1>1, <1>2, <1>3, <1>4, <1>5

LEMMA DeferShows ==
  ASSUME NEW e, DOMAIN e = Fields, NEW a
  PROVE  LET r == DeferStep(e, a) IN
         Same(e, r.env) /\ (r.env.semantic => Shows(r, "defer", "PROOF_CLOSED"))
<1> DEFINE r == DeferStep(e, a)
           valid == a \in {"DEFER_NO_SUPPORT", "DEFER_NO_ADMISSIBLE"}
<1> USE DEF Answer, Seen, Judged, Same, Fields, DeferStep
<1>1. Same(e, r.env) /\ (r.env.semantic <=> valid)
  OBVIOUS
<1>2. r.seen.check_id = "defer" /\ r.seen.status = IF valid THEN "PROOF_CLOSED" ELSE "FAIL"
  BY DEF Closed
<1> QED
  BY <1>1, <1>2 DEF Shows

LEMMA GenerativeShows ==
  ASSUME NEW e, DOMAIN e = Fields, NEW a, NEW c
  PROVE  LET r == GenerativeStep(e, a, c) IN
         Same(e, r.env) /\ (r.env.semantic => Shows(r, "generated-candidate", "PASS"))
<1> DEFINE r == GenerativeStep(e, a, c)
           valid == c = "key=stable-42"
<1> USE DEF Answer, Seen, Judged, Same, Fields, GenerativeStep
<1>1. Same(e, r.env) /\ (r.env.semantic <=> a = "CALL_GENERATIVE" /\ valid)
  OBVIOUS
<1>2. a = "CALL_GENERATIVE" =>
        /\ r.seen.check_id = "generated-candidate"
        /\ r.seen.status = IF valid THEN "PASS" ELSE "FAIL"
  BY DEF Verdict
<1> QED
  BY <1>1, <1>2 DEF Shows

\* What an environment comes to remember, or judges right, it shows.
LEMMA AnswerShows ==
  ASSUME NEW e, DOMAIN e = Fields, e.class \in Classes, NEW a, Supported(e, a), NEW c
  PROVE  LET r == EnvironmentStep(e, a, c) IN
         /\ Same(e, r.env)
         /\ e.class = "cli" /\ Holds(r.env) =>
                Holds(e) \/ Shows(r, "process-state", "PASS") \/ Shows(r, "process-state", "FAIL")
         /\ e.class = "data" /\ Holds(r.env) => Holds(e) \/ Shows(r, "provenance", "PASS")
         /\ e.class = "config" /\ Holds(r.env) => Holds(e) \/ Shows(r, "config-origin", "PASS")
         /\ e.class = "repository" =>
                /\ Holds(r.env) => Holds(e) \/ Shows(r, "targeted-test", "FAIL")
                /\ r.env.semantic => e.semantic \/ Shows(r, "regression", "PASS")
         /\ e.class = "generative" /\ r.env.semantic => Shows(r, "generated-candidate", "PASS")
         /\ e.class = "defer" /\ r.env.semantic => Shows(r, "defer", "PROOF_CLOSED")
<1> DEFINE r == EnvironmentStep(e, a, c)
<1>1. CASE e.class = "cli"
  <2>1. r = CliStep(e, a)
    BY <1>1 DEF EnvironmentStep
  <2>2. a \in Deferrals \cup {"INSPECT_PROCESS_STATE", "RESTART_PROCESS", "RETRY_HEALTHCHECK"}
    BY <1>1 DEF Supported
  <2> QED
    BY <1>1, <2>1, <2>2, CliShows
<1>2. CASE e.class = "data"
  <2> DEFINE selections == {"SELECT_SOURCE_A", "SELECT_SOURCE_B"}
  <2>1. r = AuthorityStep(e, a, "CHECK_PROVENANCE", "provenance", selections, "selection")
    BY <1>2 DEF EnvironmentStep, DataStep
  <2>2. /\ a \in Deferrals \cup {"CHECK_PROVENANCE"} \cup selections
        /\ "CHECK_PROVENANCE" \notin Deferrals /\ "CHECK_PROVENANCE" \notin selections
        /\ selections \cap Deferrals = {}
    BY <1>2 DEF Supported, Deferrals
  <2> HIDE DEF selections
  <2>3. Same(e, r.env) /\ (Holds(r.env) => Holds(e) \/ Shows(r, "provenance", "PASS"))
    BY <2>1, <2>2, AuthorityShows
  <2> QED
    BY <1>2, <2>3
<1>3. CASE e.class = "config"
  <2> DEFINE selections == {"SELECT_PROJECT_CONFIG", "SELECT_CACHE_CONFIG"}
  <2>1. r = AuthorityStep(e, a, "INSPECT_CONFIG_ORIGIN", "config-origin", selections,
                          "config-selection")
    BY <1>3 DEF EnvironmentStep, ConfigStep
  <2>2. /\ a \in Deferrals \cup {"INSPECT_CONFIG_ORIGIN"} \cup selections
        /\ "INSPECT_CONFIG_ORIGIN" \notin Deferrals /\ "INSPECT_CONFIG_ORIGIN" \notin selections
        /\ selections \cap Deferrals = {}
    BY <1>3 DEF Supported, Deferrals
  <2> HIDE DEF selections
  <2>3. Same(e, r.env) /\ (Holds(r.env) => Holds(e) \/ Shows(r, "config-origin", "PASS"))
    BY <2>1, <2>2, AuthorityShows
  <2> QED
    BY <1>3, <2>3
<1>4. CASE e.class = "repository"
  <2>1. r = RepositoryStep(e, a)
    BY <1>4 DEF EnvironmentStep
  <2>2. a \in Deferrals \cup {"RUN_TARGETED_TEST", "APPLY_CANDIDATE_FIX", "RUN_REGRESSION",
                              "ROLLBACK"}
    BY <1>4 DEF Supported
  <2> QED
    BY <1>4, <2>1, <2>2, RepositoryShows
<1>5. CASE e.class = "defer"
  <2>1. r = DeferStep(e, a)
    BY <1>5 DEF EnvironmentStep
  <2> QED
    BY <1>5, <2>1, DeferShows
<1>6. CASE e.class = "generative"
  <2>1. r = GenerativeStep(e, a, c)
    BY <1>6 DEF EnvironmentStep
  <2> QED
    BY <1>6, <2>1, GenerativeShows
<1> QED
  BY <1>1, <1>2, <1>3, <1>4, <1>5, <1>6 DEF Classes

\* A new environment, and one that was reset, remembers and judges nothing.
LEMMA NewKnowsNothing ==
  ASSUME NEW t
  PROVE  LET e == NewEnvironment(t) IN
         /\ DOMAIN e = Fields /\ e.class = t.class /\ e.facts = {} /\ ~e.semantic
         /\ DOMAIN Reset(e) = Fields /\ Reset(e).class = t.class
         /\ Reset(e).facts = {} /\ ~Reset(e).semantic
<1> DEFINE e == NewEnvironment(t)
<1>1. DOMAIN e = Fields /\ e.class = t.class /\ e.facts = {} /\ ~e.semantic
  BY DEF NewEnvironment, Fields
<1> HIDE DEF e
<1>2. /\ DOMAIN Reset(e) = DOMAIN e
      /\ \A f \in DOMAIN e \ {"sequence", "attempts"} : Reset(e)[f] = e[f]
  BY DEF Reset
<1>3. {"class", "facts", "semantic"} \subseteq DOMAIN e \ {"sequence", "attempts"}
  BY <1>1 DEF Fields
<1> QED
  BY <1>1, <1>2, <1>3 DEF e

\* Every environment has the same fields.
LEMMA EnvironmentFields == SightInv <=> SightInv /\ DOMAIN env = Fields
BY NewKnowsNothing DEF SightInv

LEMMA SightStart == Init => SightInv
<1> SUFFICES ASSUME Init PROVE SightInv
  OBVIOUS
<1>1. phase = "start" /\ observations = <<>> /\ env = NewEnvironment(task)
  BY DEF Init, Gym!Init
<1> QED
  BY <1>1 DEF SightInv

\* An answered action: what the environment now remembers or judges right is
\* among the observations.
LEMMA SightAnswered ==
  ASSUME SightInv, Answered
  PROVE  SightInv'
<1> DEFINE r == EnvironmentStep(env, action, candidate)
           o == Observation(env, r.seen)
<1>1. /\ phase = "step" /\ task' = task /\ Supported(env, action)
      /\ observations' = observations \o <<o>>
      /\ env' = Noted(r.env, r.seen) /\ phase' # "start"
  BY DEF Answered, Response, Gym!HostStep, Gym!inputs, Gym!ConcludeStep, Gym!Overrun, Gym!Finish,
         Gym!GoOn, Gym!Exhaust
<1>2. /\ DOMAIN env = Fields /\ env.class \in Classes /\ env.class = task.class
      /\ observations \in Seq(ToSet(observations))
  BY <1>1, EnvironmentFields DEF SightInv
<1>3. o.check_id = r.seen.check_id /\ o.status = r.seen.status
  BY DEF Observation
<1> HIDE DEF r, o
<1>4. Same(env, r.env)
  BY <1>1, <1>2, AnswerShows DEF r
<1>5. /\ DOMAIN env' = Fields /\ env'.class = env.class
      /\ env'.facts = r.env.facts /\ env'.semantic = r.env.semantic
  BY <1>1, <1>4 DEF Noted, Same, Fields
<1>6. /\ observations' \in Seq(ToSet(observations'))
      /\ \A check, status : Saw(check, status) => Saw(check, status)'
      /\ \A check, status : Shows(r, check, status) => Saw(check, status)'
  <2>1. observations' = Append(observations, o)
    BY <1>1, <1>2
  <2>2. observations' \in Seq(ToSet(observations'))
    BY <1>2, <2>1, ListGrows
  <2> DEFINE n == Len(observations)
  <2>3. /\ n \in Nat /\ DOMAIN observations = 1 .. n /\ DOMAIN observations' = 1 .. n + 1
        /\ \A i \in 1 .. n : observations'[i] = observations[i]
        /\ observations'[n + 1] = o
    BY <1>2, <2>1, ListGrows
  <2> HIDE DEF n
  <2> QED
    BY <1>3, <2>2, <2>3 DEF Saw, Shows
<1>7. /\ Holds(env') => Holds(r.env)
      /\ env'.semantic => r.env.semantic
  BY <1>5 DEF Holds
<1>8. /\ env.class = "cli" /\ Holds(r.env) =>
            Holds(env) \/ Shows(r, "process-state", "PASS") \/ Shows(r, "process-state", "FAIL")
      /\ env.class = "data" /\ Holds(r.env) => Holds(env) \/ Shows(r, "provenance", "PASS")
      /\ env.class = "config" /\ Holds(r.env) => Holds(env) \/ Shows(r, "config-origin", "PASS")
      /\ env.class = "repository" =>
            /\ Holds(r.env) => Holds(env) \/ Shows(r, "targeted-test", "FAIL")
            /\ r.env.semantic => env.semantic \/ Shows(r, "regression", "PASS")
      /\ env.class = "generative" /\ r.env.semantic => Shows(r, "generated-candidate", "PASS")
      /\ env.class = "defer" /\ r.env.semantic => Shows(r, "defer", "PROOF_CLOSED")
  BY <1>1, <1>2, AnswerShows DEF r
<1> HIDE DEF SightInv
<1>9. /\ DOMAIN env' = DOMAIN NewEnvironment(task')
      /\ task'.class \in Classes /\ env'.class = task'.class /\ task'.class = env.class
  BY <1>1, <1>2, <1>5, NewKnowsNothing
<1>10. CASE env.class = "cli"
  BY <1>1, <1>2, <1>6, <1>7, <1>8, <1>9, <1>10 DEF SightInv, Holds
<1>11. CASE env.class = "data"
  BY <1>1, <1>2, <1>6, <1>7, <1>8, <1>9, <1>11 DEF SightInv, Holds
<1>12. CASE env.class = "config"
  BY <1>1, <1>2, <1>6, <1>7, <1>8, <1>9, <1>12 DEF SightInv, Holds
<1>13. CASE env.class = "repository"
  BY <1>1, <1>2, <1>6, <1>7, <1>8, <1>9, <1>13 DEF SightInv, Holds
<1>14. CASE env.class = "generative"
  BY <1>1, <1>2, <1>6, <1>7, <1>8, <1>9, <1>14 DEF SightInv
<1>15. CASE env.class = "defer"
  BY <1>1, <1>2, <1>6, <1>7, <1>8, <1>9, <1>15 DEF SightInv
<1> QED
  BY <1>2, <1>10, <1>11, <1>12, <1>13, <1>14, <1>15 DEF Classes

\* A reset: the observations are a list, and nothing is known.
LEMMA SightOpened ==
  ASSUME SightInv, Opened
  PROVE  SightInv'
<1>1. /\ phase = "start" /\ task' = task /\ observations' = ResetObservations(env)
      /\ env' = Reset(env) /\ phase' # "start" /\ ScenarioValid(task)
  BY DEF Opened, Gym!Start, Gym!inputs, Gym!Exhaust
<1>2. env = NewEnvironment(task)
  BY <1>1 DEF SightInv
<1>3. /\ DOMAIN env' = Fields /\ env'.class = task.class /\ task.class \in Classes
      /\ env'.facts = {} /\ ~env'.semantic
  BY <1>1, <1>2, NewKnowsNothing DEF ScenarioValid
<1>4. ResetObservations(env) \in Seq(ToSet(ResetObservations(env)))
  <2> DEFINE first == FirstSightings(env)
             obs == ResetObservations(env)
  <2>1. \E n \in Nat : DOMAIN first = 1 .. n
    <3>1. env.class = task.class /\ (env.class = "cli" => env.scenario = task.scenario)
      BY <1>2 DEF NewEnvironment
    <3>2. CASE env.class = "cli"
      <4>1. task.scenario.health \in Seq({"PASS", "FAIL"})
        BY <1>1, <3>1, <3>2 DEF ScenarioValid
      <4>2. DOMAIN first = DOMAIN task.scenario.health
        BY <3>1, <3>2 DEF FirstSightings
      <4> QED
        BY <4>1, <4>2
    <3>3. CASE env.class \in {"data", "config", "repository"}
      <4>1. DOMAIN first = 1 .. 2
        BY <3>3 DEF FirstSightings
      <4> QED
        BY <4>1
    <3>4. CASE env.class \in {"defer", "generative"}
      <4>1. DOMAIN first = 1 .. 1
        BY <3>4 DEF FirstSightings
      <4> QED
        BY <4>1
    <3> QED
      BY <1>3, <3>1, <3>2, <3>3, <3>4 DEF Classes
  <2>2. DOMAIN obs = DOMAIN first /\ obs = [i \in DOMAIN first |-> obs[i]]
    BY DEF ResetObservations
  <2> HIDE DEF first, obs
  <2>3. PICK n \in Nat : obs \in [1 .. n -> ToSet(obs)]
    BY <2>1, <2>2 DEF ToSet
  <2> QED
    BY <2>3, SeqDef DEF obs
<1> QED
  BY <1>1, <1>3, <1>4, NewKnowsNothing DEF SightInv, Classes

LEMMA SightStep == CourseInv /\ RunInv /\ StageInv /\ SightInv /\ [Next]_vars => SightInv'
<1> SUFFICES ASSUME CourseInv, RunInv, StageInv, SightInv, [Next]_vars PROVE SightInv'
  OBVIOUS
<1>1. ASSUME UNCHANGED <<task, observations, env>>, phase' # "start" \/ UNCHANGED phase,
             phase' \in {"loop", "step", "seal"} => phase \in {"loop", "step", "seal"}
      PROVE  SightInv'
  BY <1>1 DEF SightInv, Saw
<1>2. CASE Plays
  <2>1. task' = task
    BY <1>2, PlaysKeeps
  <2> USE DEF Gym!inputs, Gym!progress, Gym!verdicts, Gym!effects
  <2>2. CASE Unopened
    BY <1>1, <2>1, <2>2 DEF Unopened, Gym!StartRaises
  <2>3. CASE OutOfSteps
    BY <1>1, <2>1, <2>3 DEF OutOfSteps, Gym!StepBudgetExhausted, Gym!Exhaust
  <2>4. CASE Decide
    <3>1. PICK d \in Proposals :
            \/ Gym!DecideAction(d) \/ Gym!SelectionInvalid(d) \/ Gym!GenerationRefused(d)
            \/ \E c \in Generated : Gym!Generate(d, c)
      BY <2>4 DEF Decide
    <3>2. phase = "loop" /\ phase' \in {"step", "seal"} /\ UNCHANGED <<env, observations>>
      <4>1. Gym!Decided(d) /\ phase' \in {"step", "seal"}
        BY <3>1 DEF Gym!DecideAction, Gym!SelectionInvalid, Gym!GenerationRefused, Gym!Generate,
                    Gym!RefuseDecision
      <4> QED
        BY <2>4, <4>1 DEF Decide, Gym!Decided
    <3> QED
      BY <1>1, <2>1, <3>2
  <2>5. CASE AnswerRaises
    <3>1. phase' = "close" /\ UNCHANGED <<env, observations>>
      BY <2>5 DEF AnswerRaises, Gym!HostStepRaises, Gym!Raise
    <3> QED
      BY <1>1, <2>1, <3>1
  <2>6. CASE Rejected
    BY <1>1, <2>1, <2>6 DEF Rejected, Gym!HostRejects, Gym!RefuseDecision
  <2>7. CASE Judge
    <3>1. PICK p \in BOOLEAN : Gym!Admit(Gym!AsksVerdict /\ env.semantic, p)
      BY <2>7 DEF Judge
    <3>2. phase' = "learn" /\ UNCHANGED <<env, observations>>
      BY <2>7, <3>1 DEF Judge, Gym!Admit
    <3> QED
      BY <1>1, <2>1, <3>2
  <2>8. CASE Learn
    BY <1>1, <2>1, <2>8 DEF Learn, Learns, Gym!Learn
  <2>9. CASE Close
    BY <1>1, <2>1, <2>9 DEF Close, Gym!Close
  <2> QED
    BY <1>2, <2>2, <2>3, <2>4, <2>5, <2>6, <2>7, <2>8, <2>9, SightOpened, SightAnswered DEF Plays
<1>3. CASE Moves
  <2>1. CASE \E t \in Tasks : FreshEpisode(t)
    <3>1. PICK t \in Tasks : FreshEpisode(t)
      BY <2>1
    <3>2. task' = t /\ phase' = "start" /\ observations' = <<>> /\ env' = NewEnvironment(task')
      BY <3>1 DEF FreshEpisode
    <3> QED
      BY <3>2 DEF SightInv
  <2>2. CASE UNCHANGED <<episode, env>>
    BY <1>1, <2>2 DEF episode
  <2> QED
    BY <1>3, <2>1, <2>2, Entering
<1>4. CASE UNCHANGED vars
  BY <1>1, <1>4 DEF vars, episode
<1> QED
  BY <1>2, <1>3, <1>4, NextCases
\* A receipt that admits was given an environment's verdict.
LEMMA GuessStep ==
  CourseInv /\ RunInv /\ StageInv /\ SightInv /\ GuessingIsNotAdmitted /\ [Next]_vars
    => GuessingIsNotAdmitted'
<1> SUFFICES ASSUME CourseInv, RunInv, StageInv, SightInv, GuessingIsNotAdmitted, [Next]_vars
             PROVE  GuessingIsNotAdmitted'
  OBVIOUS
<1>1. CASE receipt' = None
  BY <1>1 DEF GuessingIsNotAdmitted, Settled
<1>2. CASE UNCHANGED <<receipt, task, observations>>
  BY <1>2 DEF GuessingIsNotAdmitted, Settled, Saw
<1>3. CASE Judge
  <2>1. UNCHANGED task
    BY <1>3, PlaysKeeps DEF Plays
  <2>2. PICK p \in BOOLEAN : Gym!Admit(Gym!AsksVerdict /\ env.semantic, p)
    BY <1>3 DEF Judge
  <2>3. phase = "seal" /\ UNCHANGED observations
    BY <2>2 DEF Gym!Admit
  <2>4. receipt'.admitted => env.semantic
    <3> DEFINE v == Gym!AsksVerdict /\ env.semantic
               document == Gym!ToDocument(Gym!SealedLedger(v))
               valid == Gym!VerifyLedgerDocument(document)
               provenance == Gym!ProvenanceValid(observations)
               integrity == Gym!BundleAccepted(document, Gym!SemanticValid(v), provenance) /\ p
    <3>1. receipt' = Gym!AdmissionReceipt(Gym!SemanticValid(v), provenance, valid, integrity)
      BY <2>2 DEF Gym!Admit
    <3> HIDE DEF document, valid, provenance, integrity
    <3>2. receipt'.admitted = (Gym!SemanticValid(v) /\ provenance /\ valid /\ integrity)
      BY <3>1, Zenon DEF Gym!AdmissionReceipt
    <3> QED
      BY <3>2 DEF Gym!SemanticValid
  <2>5. ~receipt'.admitted \/ env.semantic
    BY <2>4
  <2> HIDE DEF SightInv
  <2>6. CASE env.semantic
    BY <2>1, <2>3, <2>6 DEF SightInv, GuessingIsNotAdmitted, Settled, Saw, Classes
  <2> QED
    BY <2>5, <2>6 DEF GuessingIsNotAdmitted
<1>4. CASE Plays /\ ~Judge
  <2>1. UNCHANGED task
    BY <1>4, PlaysKeeps
  <2>2. CASE GoesOn \/ Raises
    BY <1>1, <2>2 DEF GoesOn, Raises, RunInv
  <2>3. CASE Learn \/ Close
    BY <1>2, <2>1, <2>3 DEF Learn, Learns, Close, Gym!Learn, Gym!Close, Gym!progress, Gym!effects
  <2> QED
    BY <1>4, <2>2, <2>3, PlayCases
<1>5. CASE Moves
  BY <1>1, <1>2, <1>5, Entering DEF FreshEpisode, episode
<1> QED
  BY <1>2, <1>3, <1>4, <1>5, NextCases DEF vars, episode

(* A guess is not admitted: whoever plays on whatever tasks, an admitted   *)
(* episode has shown what its environment's verdict rests on.              *)
THEOREM GuessesAreNotAdmitted == Spec => []GuessingIsNotAdmitted
<1>1. Init => SightInv /\ GuessingIsNotAdmitted
  BY SightStart DEF Init, Gym!Init, GuessingIsNotAdmitted, Settled
<1>2. CourseInv /\ RunInv /\ StageInv /\ SightInv /\ GuessingIsNotAdmitted /\ [Next]_vars
        => (SightInv /\ GuessingIsNotAdmitted)'
  BY SightStep, GuessStep
<1> QED
  BY <1>1, <1>2, CourseHolds, PTL DEF Spec

-----------------------------------------------------------------------------
(* How an environment numbers its observations. *)

\* An observation of a known check, with an attempt and a cost.
Sound(seen) == seen.check_id \in Checks /\ seen.attempt_id \in Nat /\ seen.cost \in Nat

\* Whatever an environment is given, what it sees is an observation.
LEMMA AnswerSeen ==
  ASSUME NEW e, e.attempts \in [Checks -> Nat], e.class \in Classes, NEW a, Supported(e, a), NEW c
  PROVE  Sound(EnvironmentStep(e, a, c).seen)
<1>1. \A check \in Checks : NextAttempt(e, check) \in Nat
  BY DEF NextAttempt
<1>2. Sound(Deferred(e).seen)
  BY DEF Deferred, Answer, Seen, Sound, Checks
<1>3. CASE e.class = "cli"
  BY <1>1, <1>2, <1>3 DEF EnvironmentStep, CliStep, Supported, Deferrals, Answer, Seen, Sound,
                          Checks
<1>4. CASE e.class = "data"
  BY <1>2, <1>4 DEF EnvironmentStep, DataStep, AuthorityStep, Supported, Deferrals, Answer, Seen,
                    Sound, Checks
<1>5. CASE e.class = "config"
  BY <1>2, <1>5 DEF EnvironmentStep, ConfigStep, AuthorityStep, Supported, Deferrals, Answer, Seen,
                    Sound, Checks
<1>6. CASE e.class = "repository"
  BY <1>1, <1>2, <1>6 DEF EnvironmentStep, RepositoryStep, Supported, Deferrals, Answer, Seen,
                          Sound, Checks
<1>7. CASE e.class = "defer"
  BY <1>7 DEF EnvironmentStep, DeferStep, Answer, Seen, Sound, Checks
<1>8. CASE e.class = "generative"
  BY <1>1, <1>8 DEF EnvironmentStep, GenerativeStep, Answer, Seen, Sound, Checks
<1> QED
  BY <1>3, <1>4, <1>5, <1>6, <1>7, <1>8 DEF Classes

\* The first observations of an environment: those of one check count up to
\* the environment's counter.
Counts(first) ==
    LET at(check) == {j \in DOMAIN first : first[j].check_id = check} IN
    /\ \E n \in Nat : DOMAIN first = 1 .. n
    /\ \A check \in Checks : Cardinality(at(check)) \in Nat
    /\ \A i \in DOMAIN first :
        /\ Sound(first[i])
        /\ first[i].attempt_id <= Cardinality(at(first[i].check_id))
        /\ \A j \in 1 .. i - 1 : first[j].check_id = first[i].check_id =>
                                    first[j].attempt_id < first[i].attempt_id

LEMMA FirstCounts ==
  ASSUME NEW e, e.class \in Classes, e.class = "cli" => e.scenario.health \in Seq({"PASS", "FAIL"})
  PROVE  Counts(FirstSightings(e))
<1> DEFINE first == FirstSightings(e)
           at(check) == {j \in DOMAIN first : first[j].check_id = check}
<1>1. ASSUME NEW n \in Nat, DOMAIN first = 1 .. n
      PROVE  \A check : IsFiniteSet(at(check)) /\ Cardinality(at(check)) \in Nat
  <2>1. IsFiniteSet(1 .. n)
    BY FS_Interval
  <2>2. \A check : at(check) \subseteq 1 .. n
    BY <1>1
  <2> HIDE DEF at
  <2> QED
    BY <2>1, <2>2, FS_Subset, FS_CardinalityType
<1>2. CASE e.class = "cli"
  <2> DEFINE n == Len(e.scenario.health)
  <2>1. /\ n \in Nat /\ DOMAIN first = 1 .. n
        /\ \A i \in 1 .. n : /\ first[i].check_id = "health" /\ first[i].attempt_id = i
                             /\ first[i].cost = 0
    BY <1>2 DEF FirstSightings, Seen
  <2>2. at("health") = 1 .. n
    BY <2>1
  <2> HIDE DEF n, first
  <2>3. Cardinality(at("health")) = n
    <3>1. 1 \in Int /\ n \in Int
      BY <2>1
    <3>2. Cardinality(1 .. n) = IF 1 > n THEN 0 ELSE n - 1 + 1
      BY <3>1, FS_Interval, Zenon
    <3>3. Cardinality(1 .. n) = n
      BY <2>1, <3>2
    <3> QED
      BY <2>2, <3>3
  <2>4. ASSUME NEW i \in 1 .. n
        PROVE  /\ Sound(first[i])
               /\ first[i].attempt_id <= Cardinality(at(first[i].check_id))
               /\ \A j \in 1 .. i - 1 : first[j].attempt_id < first[i].attempt_id
    <3> HIDE DEF at
    <3> QED
      BY <2>1, <2>3 DEF Sound, Checks
  <2> QED
    BY <1>1, <2>1, <2>4 DEF Counts, first
<1>3. ASSUME NEW n \in {1, 2}, DOMAIN first = 1 .. n,
             \A i \in 1 .. n : /\ first[i].check_id \in Checks /\ first[i].attempt_id = 1
                               /\ first[i].cost = 0,
             n = 2 => first[1].check_id # first[2].check_id
      PROVE  Counts(first)
  <2> HIDE DEF first
  <2>1. ASSUME NEW i \in 1 .. n
        PROVE  /\ Sound(first[i])
               /\ first[i].attempt_id <= Cardinality(at(first[i].check_id))
               /\ \A j \in 1 .. i - 1 : first[j].check_id # first[i].check_id
    <3> DEFINE same == at(first[i].check_id)
    <3>1. same = {i}
      BY <1>3, <2>1
    <3>2. Cardinality(same) = 1
      BY <3>1, FS_Singleton
    <3> HIDE DEF same
    <3>3. first[i].attempt_id <= Cardinality(same)
      BY <1>3, <3>2
    <3>4. Sound(first[i])
      BY <1>3 DEF Sound
    <3>5. \A j \in 1 .. i - 1 : j = 1 /\ i = 2 /\ n = 2
      BY <2>1, <1>3
    <3>6. \A j \in 1 .. i - 1 : first[j].check_id # first[i].check_id
      BY <1>3, <3>5
    <3> QED
      BY <3>3, <3>4, <3>6 DEF same
  <2>2. n \in Nat
    OBVIOUS
  <2> HIDE DEF at
  <2>3. \A check : Cardinality(at(check)) \in Nat
    BY <1>1, <1>3, <2>2
  <2> QED
    BY <1>3, <2>1, <2>2, <2>3 DEF Counts, at
<1>4. CASE e.class \in {"data", "config", "repository"}
  <2>1. /\ DOMAIN first = 1 .. 2 /\ first[1].check_id # first[2].check_id
        /\ first[1].check_id \in Checks /\ first[1].attempt_id = 1 /\ first[1].cost = 0
        /\ first[2].check_id \in Checks /\ first[2].attempt_id = 1 /\ first[2].cost = 0
    BY <1>4 DEF FirstSightings, Seen, Checks
  <2> HIDE DEF first
  <2>2. \A i \in 1 .. 2 : i = 1 \/ i = 2
    OBVIOUS
  <2>3. \A i \in 1 .. 2 : /\ first[i].check_id \in Checks /\ first[i].attempt_id = 1
                          /\ first[i].cost = 0
    BY <2>1, <2>2
  <2> QED
    BY <1>3, <2>1, <2>3 DEF first
<1>5. CASE e.class \in {"defer", "generative"}
  <2>1. /\ DOMAIN first = 1 .. 1
        /\ first[1].check_id \in Checks /\ first[1].attempt_id = 1 /\ first[1].cost = 0
    BY <1>5 DEF FirstSightings, Seen, Checks
  <2> HIDE DEF first
  <2>2. \A i \in 1 .. 1 : i = 1
    OBVIOUS
  <2>3. \A i \in 1 .. 1 : /\ first[i].check_id \in Checks /\ first[i].attempt_id = 1
                          /\ first[i].cost = 0
    BY <2>1, <2>2
  <2> QED
    BY <1>3, <2>1, <2>3 DEF first
<1> QED
  BY <1>2, <1>4, <1>5 DEF Classes

LEMMA NumberStart == Init => NumberInv
<1> SUFFICES ASSUME Init PROVE NumberInv
  OBVIOUS
<1>1. observations = <<>> /\ env = NewEnvironment(task)
  BY DEF Init, Gym!Init
<1> QED
  BY <1>1 DEF NumberInv, NewEnvironment

LEMMA NumberOpened ==
  ASSUME SightInv, Opened
  PROVE  NumberInv'
<1> DEFINE first == FirstSightings(env)
           at(check) == {j \in DOMAIN first : first[j].check_id = check}
<1>1. /\ phase = "start" /\ observations' = ResetObservations(env) /\ env' = Reset(env)
      /\ ScenarioValid(task)
  BY DEF Opened, Gym!Start
<1>2. env = NewEnvironment(task)
  BY <1>1 DEF SightInv
<1>3. /\ env.class \in Classes
      /\ env.class = "cli" => env.scenario.health \in Seq({"PASS", "FAIL"})
  BY <1>1, <1>2 DEF NewEnvironment, ScenarioValid
<1>4. {"attempts", "sequence"} \subseteq DOMAIN env
  BY <1>2 DEF NewEnvironment
<1>5. Counts(first)
  BY <1>3, FirstCounts
<1> HIDE DEF first
<1>6. PICK n \in Nat : DOMAIN first = 1 .. n
  BY <1>5 DEF Counts
<1>7. env'.attempts = [c \in Checks |-> Cardinality(at(c))] /\ env'.sequence = Len(first)
  BY <1>1, <1>4 DEF Reset, first
<1>8. /\ observations' = [i \in 1 .. n |-> Observation([env EXCEPT !.sequence = i - 1], first[i])]
  BY <1>1, <1>6 DEF ResetObservations, first
<1>9. DOMAIN observations' = 1 .. n /\ Len(observations') = n /\ Len(first) = n
  BY <1>6, <1>8
<1>10. ASSUME NEW i \in 1 .. n
       PROVE  LET o == observations'[i] IN
              /\ o.observation_id = i - 1 /\ o.sequence_index = i - 1 /\ o.logical_tick = i - 1
              /\ o.source_lineage_root = "lineage" /\ o.probe_id = o.check_id
              /\ o.check_id = first[i].check_id /\ o.attempt_id = first[i].attempt_id
              /\ o.cost = first[i].cost
  <2>1. observations'[i] = Observation([env EXCEPT !.sequence = i - 1], first[i])
    BY <1>8, <1>10
  <2> QED
    BY <1>4, <2>1 DEF Observation
<1>11. \A check \in Checks : Cardinality(at(check)) \in Nat
  BY <1>5 DEF Counts
<1>12. ASSUME NEW i \in 1 .. n
       PROVE  /\ first[i].check_id \in Checks /\ first[i].cost \in Nat
              /\ first[i].attempt_id \in 0 .. Cardinality(at(first[i].check_id))
              /\ \A j \in 1 .. i - 1 : first[j].check_id = first[i].check_id =>
                                          first[j].attempt_id < first[i].attempt_id
  <2> DEFINE count == Cardinality(at(first[i].check_id))
  <2>1. /\ Sound(first[i]) /\ first[i].attempt_id <= count
        /\ \A j \in 1 .. i - 1 : first[j].check_id = first[i].check_id =>
                                    first[j].attempt_id < first[i].attempt_id
    BY <1>5, <1>6, <1>12 DEF Counts
  <2>2. count \in Nat
    BY <1>11, <2>1 DEF Sound
  <2> HIDE DEF count
  <2>3. first[i].attempt_id \in 0 .. count
    BY <2>1, <2>2 DEF Sound
  <2> QED
    BY <2>1, <2>3 DEF Sound, count
<1> HIDE DEF at
<1>13. env'.attempts \in [Checks -> Nat]
  BY <1>7, <1>11
<1>14. ASSUME NEW i \in 1 .. n
       PROVE  LET o == observations'[i] IN
              /\ o.attempt_id \in 0 .. env'.attempts[o.check_id]
              /\ \A j \in 1 .. i - 1 : observations'[j].check_id = o.check_id =>
                                          observations'[j].attempt_id < o.attempt_id
  <2>1. observations'[i].attempt_id \in 0 .. env'.attempts[observations'[i].check_id]
    BY <1>7, <1>10, <1>12, <1>14
  <2>2. \A j \in 1 .. i - 1 : j \in 1 .. n
    BY <1>6, <1>14
  <2> QED
    BY <1>10, <1>12, <2>1, <2>2
<1> QED
  BY <1>7, <1>9, <1>10, <1>12, <1>13, <1>14 DEF NumberInv

LEMMA NumberAnswered ==
  ASSUME SightInv, NumberInv, Answered
  PROVE  NumberInv'
<1> DEFINE r == EnvironmentStep(env, action, candidate)
           o == Observation(env, r.seen)
           n == Len(observations)
<1>1. /\ phase = "step" /\ Supported(env, action) /\ ~Repeats(env, r.seen)
      /\ observations' = observations \o <<o>> /\ env' = Noted(r.env, r.seen)
  BY DEF Answered, Response, Gym!HostStep
<1>2. /\ DOMAIN env = Fields /\ env.class \in Classes
      /\ observations \in Seq(ToSet(observations))
  BY <1>1, EnvironmentFields DEF SightInv
<1>3. env.attempts \in [Checks -> Nat] /\ env.sequence = n
  BY DEF NumberInv
<1>4. Same(env, r.env) /\ Sound(r.seen)
  BY <1>1, <1>2, <1>3, AnswerShows, AnswerSeen
<1>5. /\ o.observation_id = n /\ o.sequence_index = n /\ o.logical_tick = n
      /\ o.source_lineage_root = "lineage" /\ o.probe_id = o.check_id
      /\ o.check_id = r.seen.check_id /\ o.attempt_id = r.seen.attempt_id /\ o.cost = r.seen.cost
  BY <1>3 DEF Observation
<1> HIDE DEF r, o
<1>6. observations' = Append(observations, o)
  BY <1>1, <1>2
<1>7. /\ n \in Nat /\ DOMAIN observations = 1 .. n /\ DOMAIN observations' = 1 .. n + 1
      /\ Len(observations') = n + 1
      /\ \A i \in 1 .. n : observations'[i] = observations[i]
      /\ observations'[n + 1] = o
  BY <1>2, <1>6, ListGrows
<1> DEFINE check == r.seen.check_id
           attempt_id == r.seen.attempt_id
<1>8. check \in Checks /\ attempt_id \in Nat /\ env.attempts[check] < attempt_id
  <2>1. check \in Checks /\ attempt_id \in Nat /\ ~(attempt_id <= env.attempts[check])
    BY <1>1, <1>4 DEF Sound, Repeats
  <2>2. env.attempts[check] \in Nat
    BY <1>3, <2>1
  <2> HIDE DEF check, attempt_id
  <2> QED
    BY <2>1, <2>2
<1>9. env'.attempts = [env.attempts EXCEPT ![check] = attempt_id] /\ env'.sequence = n + 1
  BY <1>1, <1>3, <1>4 DEF Noted, Same, Fields
<1> HIDE DEF check, attempt_id, n
<1>10. /\ env'.attempts \in [Checks -> Nat]
       /\ \A c \in Checks : env.attempts[c] <= env'.attempts[c]
       /\ env'.attempts[check] = attempt_id
  BY <1>3, <1>8, <1>9
<1>11. ASSUME NEW i \in 1 .. n
       PROVE  LET p == observations'[i] IN
              /\ p.observation_id = i - 1 /\ p.sequence_index = i - 1 /\ p.logical_tick = i - 1
              /\ p.source_lineage_root = "lineage"
              /\ p.check_id \in Checks /\ p.probe_id = p.check_id
              /\ p.attempt_id \in 0 .. env'.attempts[p.check_id]
              /\ p.attempt_id <= env.attempts[p.check_id]
              /\ p.cost \in Nat
              /\ \A j \in 1 .. i - 1 : observations'[j].check_id = p.check_id =>
                                          observations'[j].attempt_id < p.attempt_id
  <2> DEFINE p == observations[i]
  <2>1. /\ p.observation_id = i - 1 /\ p.sequence_index = i - 1 /\ p.logical_tick = i - 1
        /\ p.source_lineage_root = "lineage"
        /\ p.check_id \in Checks /\ p.probe_id = p.check_id
        /\ p.attempt_id \in 0 .. env.attempts[p.check_id] /\ p.cost \in Nat
        /\ \A j \in 1 .. i - 1 : observations[j].check_id = p.check_id =>
                                    observations[j].attempt_id < p.attempt_id
    BY <1>7, <1>11 DEF NumberInv
  <2>2. observations'[i] = p /\ \A j \in 1 .. i - 1 : observations'[j] = observations[j]
    BY <1>7, <1>11
  <2> HIDE DEF p
  <2>3. env.attempts[p.check_id] \in Nat /\ env'.attempts[p.check_id] \in Nat
    BY <1>3, <1>10, <2>1
  <2>4. p.attempt_id \in 0 .. env'.attempts[p.check_id] /\ p.attempt_id <= env.attempts[p.check_id]
    BY <1>10, <2>1, <2>3
  <2> QED
    BY <2>1, <2>2, <2>4
<1>12. /\ o.check_id \in Checks /\ o.attempt_id \in 0 .. env'.attempts[o.check_id]
       /\ o.cost \in Nat
       /\ \A j \in 1 .. n : observations'[j].check_id = o.check_id =>
                               observations'[j].attempt_id < o.attempt_id
  <2>1. o.check_id = check /\ o.attempt_id = attempt_id /\ o.cost \in Nat
    BY <1>4, <1>5 DEF Sound, check, attempt_id
  <2>2. ASSUME NEW j \in 1 .. n, observations'[j].check_id = check
        PROVE  observations'[j].attempt_id < attempt_id
    <3>1. /\ observations'[j].attempt_id \in 0 .. env'.attempts[check]
          /\ observations'[j].attempt_id <= env.attempts[check]
      BY <1>11, <2>2
    <3>2. env.attempts[check] \in Nat
      BY <1>3, <1>8
    <3> QED
      BY <1>8, <1>10, <3>1, <3>2
  <2> QED
    BY <1>8, <1>10, <2>1, <2>2
<1>13. ASSUME NEW i \in 1 .. n + 1
       PROVE  LET p == observations'[i] IN
              /\ p.observation_id = i - 1 /\ p.sequence_index = i - 1 /\ p.logical_tick = i - 1
              /\ p.source_lineage_root = "lineage"
              /\ p.check_id \in Checks /\ p.probe_id = p.check_id
              /\ p.attempt_id \in 0 .. env'.attempts[p.check_id]
              /\ p.cost \in Nat
              /\ \A j \in 1 .. i - 1 : observations'[j].check_id = p.check_id =>
                                          observations'[j].attempt_id < p.attempt_id
  <2>1. CASE i = n + 1
    <3>1. observations'[i] = o /\ i - 1 = n /\ 1 .. i - 1 = 1 .. n
      BY <1>7, <2>1
    <3> QED
      BY <1>5, <1>12, <3>1
  <2>2. CASE i # n + 1
    <3>1. i \in 1 .. n
      BY <1>7, <1>13, <2>2
    <3> QED
      BY <1>11, <3>1
  <2> QED
    BY <2>1, <2>2
<1> QED
  BY <1>7, <1>9, <1>10, <1>13 DEF NumberInv

LEMMA NumberStep ==
  CourseInv /\ RunInv /\ StageInv /\ SightInv /\ NumberInv /\ [Next]_vars => NumberInv'
<1> SUFFICES ASSUME CourseInv, RunInv, StageInv, SightInv, NumberInv, [Next]_vars PROVE NumberInv'
  OBVIOUS
<1>1. ASSUME UNCHANGED observations, UNCHANGED <<env.attempts, env.sequence>> PROVE NumberInv'
  BY <1>1 DEF NumberInv
<1>2. CASE Plays
  <2> USE DEF Gym!progress
  <2>1. CASE Unopened \/ OutOfSteps \/ Rejected \/ Learn \/ Close
    <3>1. UNCHANGED <<observations, env>>
      BY <2>1 DEF Unopened, Gym!StartRaises, OutOfSteps, Gym!StepBudgetExhausted, Rejected,
                  Gym!HostRejects, Learn, Learns, Gym!Learn, Close, Gym!Close
    <3> QED
      BY <1>1, <3>1
  <2>2. CASE Decide
    <3>1. UNCHANGED <<observations, env>>
      BY <2>2 DEF Decide, Gym!DecideAction, Gym!SelectionInvalid, Gym!GenerationRefused,
                  Gym!Generate, Gym!Decided
    <3> QED
      BY <1>1, <3>1
  <2>3. CASE Judge
    <3>1. UNCHANGED <<observations, env>>
      BY <2>3 DEF Judge, Gym!Admit
    <3> QED
      BY <1>1, <3>1
  <2>4. CASE AnswerRaises
    <3>1. UNCHANGED <<observations, env>>
      BY <2>4 DEF AnswerRaises, Gym!HostStepRaises
    <3> QED
      BY <1>1, <3>1
  <2> QED
    BY <1>2, <2>1, <2>2, <2>3, <2>4, NumberOpened, NumberAnswered DEF Plays
<1>3. CASE Moves
  <2>1. CASE \E t \in Tasks : FreshEpisode(t)
    <3>1. observations' = <<>> /\ \E t \in Tasks : env' = NewEnvironment(t)
      BY <2>1 DEF FreshEpisode
    <3> QED
      BY <3>1 DEF NumberInv, NewEnvironment
  <2>2. CASE UNCHANGED <<episode, env>>
    BY <1>1, <2>2 DEF episode
  <2> QED
    BY <1>3, <2>1, <2>2, Entering
<1>4. CASE UNCHANGED vars
  BY <1>1, <1>4 DEF vars, episode
<1> QED
  BY <1>2, <1>3, <1>4, NextCases

(* No evidence is refused for its provenance: whoever plays, however it    *)
(* repeats, reorders or cuts short its actions, what the environments show *)
(* satisfies every rule of EvidenceAdmission.                              *)
THEOREM EvidenceIsAdmissible == Spec => []Gym!ProvenanceValid(observations)
<1>1. SightInv /\ NumberInv => Gym!ProvenanceValid(observations)
  <2> SUFFICES ASSUME SightInv, NumberInv PROVE Gym!ProvenanceValid(observations)
    OBVIOUS
  <2> DEFINE n == Len(observations)
             At(i) == observations[i]
  <2>1. ASSUME NEW i \in DOMAIN observations
        PROVE  /\ At(i).observation_id = i - 1 /\ At(i).sequence_index = i - 1
               /\ At(i).logical_tick = i - 1
               /\ At(i).source_lineage_root = "lineage" /\ At(i).probe_id = At(i).check_id
               /\ At(i).check_id \in Checks /\ At(i).cost \in Nat
               /\ \A j \in 1 .. i - 1 : At(j).check_id = At(i).check_id =>
                                           At(j).attempt_id < At(i).attempt_id
    BY <2>1 DEF NumberInv
  <2>2. DOMAIN observations = 1 .. n /\ \A i \in 1 .. n : i \in Int
    BY DEF SightInv
  <2> HIDE DEF n, At
  <2>3. ASSUME NEW i \in 1 .. n
        PROVE  /\ At(i).sequence_index = i - 1
               /\ Blank \notin {At(i).source_lineage_root, At(i).check_id, At(i).probe_id}
               /\ At(i).cost # NaN /\ At(i).cost >= 0
    BY <2>1, <2>2, EvidenceAssumption
  <2>4. ASSUME NEW i \in 1 .. n, NEW j \in 1 .. n
        PROVE  /\ i < j => /\ At(i).observation_id # At(j).observation_id
                           /\ At(i).logical_tick < At(j).logical_tick
                           /\ At(i).check_id = At(j).check_id => At(i).attempt_id < At(j).attempt_id
               /\ At(i).source_lineage_root = At(j).source_lineage_root
               /\ At(i).check_id = At(j).check_id => At(i).probe_id = At(j).probe_id
    <3>1. i < j => i \in 1 .. j - 1
      BY <2>2
    <3> QED
      BY <2>1, <2>2, <3>1
  <2> QED
    BY <2>3, <2>4 DEF Gym!ProvenanceValid, Gym!ValidCost, Gym!Identity, At, n
<1>2. Init => NumberInv
  BY NumberStart
<1>3. Init => SightInv
  BY SightStart
<1>4. CourseInv /\ RunInv /\ StageInv /\ SightInv /\ NumberInv /\ [Next]_vars
        => (SightInv /\ NumberInv)'
  BY SightStep, NumberStep
<1> QED
  BY <1>1, <1>2, <1>3, <1>4, CourseHolds, PTL DEF Spec
=============================================================================
