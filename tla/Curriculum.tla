------------------------------ MODULE Curriculum ------------------------------
(***************************************************************************)
(* gym/curriculum.py: what a curriculum may reference, when the evidence   *)
(* of a stage promotes it, and which sequences of promotion receipts are a *)
(* chain.  A rate is a pair <<successes, trials>>.                         *)
(***************************************************************************)
EXTENDS TrajectoryLedger

ReceiptFormat == "proof-gym-promotion-receipt-v1"

\* a / b < c / d.
RateBelow(r, s) == r[1] * s[2] < s[1] * r[2]

IsRate(r) == r[2] > 0 /\ 0 <= r[1] /\ r[1] <= r[2]

ToIds(ids) == {ids[i] : i \in DOMAIN ids}

Unique(ids) == Cardinality(ToIds(ids)) = Len(ids)

-----------------------------------------------------------------------------
(* Curriculum.from_mapping and validate_curriculum_tasks *)

StageWellFormed(s) ==
    /\ s.train # <<>> /\ Unique(s.train)
    /\ s.validation # <<>> /\ Unique(s.validation)
    /\ ToIds(s.train) \cap ToIds(s.validation) = {}
    /\ IsRate(s.min_train) /\ IsRate(s.min_validation) /\ IsRate(s.max_budget)

CurriculumWellFormed(c) ==
    /\ c.stages # <<>>
    /\ \A i \in DOMAIN c.stages :
        /\ StageWellFormed(c.stages[i])
        /\ c.stages[i].index = i - 1
        /\ \A j \in DOMAIN c.stages : c.stages[i].name = c.stages[j].name => i = j

\* registry: the tasks by their id.  A task serves one stage and one split.
TasksFit(c, registry) ==
    LET served(i, split) == IF split = "train" THEN c.stages[i].train ELSE c.stages[i].validation
    IN
    /\ \A i \in DOMAIN c.stages, split \in {"train", "validation"} :
        /\ \A id \in ToIds(served(i, split)) :
            id \in DOMAIN registry /\ registry[id].split = split
        /\ \A j \in DOMAIN c.stages :
            i # j => ToIds(served(i, split)) \cap ToIds(served(j, split)) = {}
    /\ \A i \in DOMAIN c.stages :
        c.stages[i].skills \subseteq
            UNION {registry[id].skills : id \in ToIds(c.stages[i].train \o c.stages[i].validation)}

-----------------------------------------------------------------------------
(* evaluate_stage.  A result is an episode's task, split, acceptance,      *)
(* learning update and budget exhaustion.                                  *)

Matches(results, ids) ==
    /\ Unique([i \in DOMAIN results |-> results[i].task_id])
    /\ {results[i].task_id : i \in DOMAIN results} = ToIds(ids)

\* The evidence is that of the stage, and validation taught nothing.
EvidenceMatches(stage, train, validation) ==
    /\ Matches(train, stage.train)
    /\ Matches(validation, stage.validation)
    /\ \A i \in DOMAIN train : train[i].split = "train"
    /\ \A i \in DOMAIN validation :
        validation[i].split = "validation" /\ ~validation[i].learning_updated

\* The share of results of which a flag is set.
Rate(results, flag) == <<Cardinality({i \in DOMAIN results : results[i][flag]}), Len(results)>>

\* Faulty: train admission is not compared with its threshold.
ReasonsOfValidation(stage, train, validation) ==
    {reason \in {"validation_admission_below_threshold", "budget_exhaustion_above_threshold"} :
        IF reason = "validation_admission_below_threshold"
        THEN RateBelow(Rate(validation, "accepted"), stage.min_validation)
        ELSE RateBelow(stage.max_budget, Rate(train \o validation, "budget_exhausted"))}

Reasons(stage, train, validation) ==
    {reason \in {"train_admission_below_threshold", "validation_admission_below_threshold",
                 "budget_exhaustion_above_threshold",
                 "admitted_train_episode_missing_learning_update"} :
        CASE reason = "train_admission_below_threshold" ->
                RateBelow(Rate(train, "accepted"), stage.min_train)
          [] reason = "validation_admission_below_threshold" ->
                RateBelow(Rate(validation, "accepted"), stage.min_validation)
          [] reason = "budget_exhaustion_above_threshold" ->
                RateBelow(stage.max_budget, Rate(train \o validation, "budget_exhausted"))
          [] OTHER -> /\ stage.require_updates
                      /\ RateBelow(Rate(train, "learning_updated"), Rate(train, "accepted"))}

Receipt(c, stage, train, validation, previous) ==
    [format              |-> ReceiptFormat,
     curriculum_id       |-> c.id,
     stage_index         |-> stage.index,
     stage_name          |-> stage.name,
     previous_checkpoint |-> previous,
     train_task_ids      |-> stage.train,
     validation_task_ids |-> stage.validation,
     rates               |-> <<Rate(train, "accepted"), Rate(validation, "accepted"),
                               Rate(train \o validation, "budget_exhausted"),
                               Rate(train, "learning_updated")>>,
     reasons             |-> Reasons(stage, train, validation),
     promoted            |-> Reasons(stage, train, validation) = {}]

\* A receipt with its checkpoint over everything else in it.
Stamped(payload) ==
    [f \in DOMAIN payload \cup {"checkpoint"} |->
        IF f = "checkpoint" THEN Sha256(payload) ELSE payload[f]]

\* None: evaluate_stage refuses the evidence.
EvaluateStage(c, stage, train, validation, previous) ==
    IF EvidenceMatches(stage, train, validation)
    THEN Stamped(Receipt(c, stage, train, validation, previous))
    ELSE None

-----------------------------------------------------------------------------
(* verify_promotion_chain *)

Payload(receipt) == [f \in DOMAIN receipt \ {"checkpoint"} |-> receipt[f]]

PreviousCheckpoint(chain, i) == IF i = 1 THEN ZERO_HASH ELSE chain[i - 1].checkpoint

\* Faulty: a receipt's predecessor is not compared.
VerifyUnlinkedChain(c, chain) ==
    /\ Len(chain) <= Len(c.stages)
    /\ \A i \in DOMAIN chain :
        /\ chain[i].format = ReceiptFormat
        /\ chain[i].curriculum_id = c.id
        /\ chain[i].stage_index = c.stages[i].index
        /\ chain[i].stage_name = c.stages[i].name
        /\ chain[i].checkpoint = Sha256(Payload(chain[i]))
        /\ ~chain[i].promoted => i = Len(chain)

\* The loop returns at its first fault, so it accepts if no receipt has one.
VerifyPromotionChain(c, chain) ==
    /\ Len(chain) <= Len(c.stages)
    /\ \A i \in DOMAIN chain :
        /\ chain[i].format = ReceiptFormat
        /\ chain[i].curriculum_id = c.id
        /\ chain[i].stage_index = c.stages[i].index
        /\ chain[i].stage_name = c.stages[i].name
        /\ chain[i].previous_checkpoint = PreviousCheckpoint(chain, i)
        /\ chain[i].checkpoint = Sha256(Payload(chain[i]))
        /\ ~chain[i].promoted => i = Len(chain)
=============================================================================
