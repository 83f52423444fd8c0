------------------------------ MODULE MCTraining ------------------------------
(***************************************************************************)
(* The repository's own tasks (gym/tasks) and curriculum (gym/curriculum), *)
(* with tasks and curricula beside them that reach the other cases.        *)
(***************************************************************************)
EXTENDS Training

Scenario(health, process, origin, oracle) ==
    [health |-> health, process |-> process, origin |-> origin, oracle |-> oracle]

Cli(health, process) == Scenario(health, process, None, None)
Data(signed) ==
    Scenario(None, None,
             [n \in {"source_a", "source_b"} |-> IF n = signed THEN "signed" ELSE "unsigned"], None)
Config(signed) ==
    Scenario(None, None,
             [n \in {"project", "cache"} |-> IF n = signed THEN "signed" ELSE "unsigned"],
             IF signed = "project" THEN "SELECT_PROJECT_CONFIG" ELSE "SELECT_CACHE_CONFIG")
Fixed == Scenario(None, None, None, None)

Domain(class) ==
    CASE class = "cli"        -> "cli_process"
      [] class = "data"       -> "structured_data"
      [] class = "config"     -> "filesystem_config"
      [] class = "repository" -> "repository_coding"
      [] class = "defer"      -> "capability_boundary"
      [] class = "generative" -> "planning_workflow"

Allowed(class) ==
    CASE class = "cli" ->
            {"INSPECT_PROCESS_STATE", "RETRY_HEALTHCHECK", "RESTART_PROCESS", "DEFER"}
      [] class = "data"   -> {"CHECK_PROVENANCE", "SELECT_SOURCE_A", "SELECT_SOURCE_B", "DEFER"}
      [] class = "config" ->
            {"INSPECT_CONFIG_ORIGIN", "SELECT_PROJECT_CONFIG", "SELECT_CACHE_CONFIG", "DEFER"}
      [] class = "repository" ->
            {"RUN_TARGETED_TEST", "APPLY_CANDIDATE_FIX", "RUN_REGRESSION", "ROLLBACK", "DEFER"}
      [] class = "defer"      -> {"DEFER"}
      [] class = "generative" -> {"CALL_GENERATIVE", "DEFER"}

Task(id, split, class, scenario, steps, cost) ==
    [task_id |-> id, split |-> split, class |-> class, runner |-> "reference-v1",
     domain |-> Domain(class), scenario |-> scenario, allowed_actions |-> Allowed(class),
     max_steps |-> steps, max_tool_cost |-> cost,
     max_generative_calls |-> IF class = "generative" THEN 2 ELSE 0, skills |-> {class}]

ReferenceTasks ==
    {Task("tg_a7", "train", "cli", Cli(<<"FAIL", "PASS">>, "running"), 3, 300),
     Task("tg_b3", "train", "data", Data("source_a"), 3, 300),
     Task("tg_c9", "train", "repository", Fixed, 5, 500),
     Task("tg_d4", "train", "cli", Cli(<<"FAIL", "FAIL">>, "stopped"), 3, 200),
     Task("tg_e6", "train", "data", Data("source_b"), 2, 100),
     Task("tg_f2", "train", "defer", Fixed, 1, 50),
     Task("tg_g5", "train", "generative", Fixed, 3, 200),
     Task("tg_h8", "train", "repository", Fixed, 3, 150),
     Task("tg_i1", "train", "cli", Cli(<<"PASS", "FAIL">>, "running"), 2, 100),
     Task("vg_d2", "validation", "defer", Fixed, 1, 100),
     Task("vg_e4", "validation", "generative", Fixed, 3, 300),
     Task("vg_f7", "validation", "cli", Cli(<<"FAIL", "PASS", "FAIL">>, "stopped"), 3, 200),
     Task("vg_g9", "validation", "data", Data("source_b"), 2, 100),
     Task("vg_h3", "validation", "repository", Fixed, 3, 150),
     Task("hg_f8", "holdout", "config", Config("project"), 3, 300)}

\* A scenario no environment is made of, and a task that allows no deferral, but
\* an action that its environment does not know.
OtherTasks ==
    {Task("invalid", "external_real", "data", Data("nobody"), 3, 300),
     [Task("bold", "external_real", "data", Data("source_a"), 3, 300) EXCEPT
        !.allowed_actions = (@ \ {"DEFER"}) \cup {"ROLLBACK"}]}

AllTasks == ReferenceTasks \cup OtherTasks

Select1 == {[kind |-> "SELECT", action |-> a] : a \in UNION {t.allowed_actions : t \in AllTasks}}

AnyDecision == Select1 \cup {Typed(k) : k \in {"CALL_GENERATIVE", "DEFER_NO_SUPPORT"}}

MCStage(index, train, validation, skills, minimum) ==
    [index |-> index, name |-> <<"stage", index>>, train |-> train, validation |-> validation,
     skills |-> skills, min_train |-> minimum, min_validation |-> minimum,
     max_budget |-> <<0, 1>>, require_updates |-> TRUE]

MCCurriculum(id, minimum) ==
    [id |-> id,
     stages |->
        <<MCStage(0, <<"tg_a7", "tg_b3", "tg_i1">>, <<"vg_f7">>, {"cli", "data"}, minimum),
          MCStage(1, <<"tg_d4", "tg_f2">>, <<"vg_d2">>, {"cli", "defer"}, minimum),
          MCStage(2, <<"tg_c9", "tg_h8">>, <<"vg_h3">>, {"repository"}, minimum),
          MCStage(3, <<"tg_g5">>, <<"vg_e4">>, {"generative"}, minimum),
          MCStage(4, <<"tg_e6">>, <<"vg_g9">>, {"data"}, minimum)>>]

\* The reference curriculum, one of lower thresholds and two that are refused.
AllCurricula ==
    {MCCurriculum("reference", <<1, 1>>),
     MCCurriculum("half", <<1, 2>>),
     [MCCurriculum("twice", <<1, 1>>) EXCEPT !.stages[2].train = <<"tg_a7">>],
     [MCCurriculum("unmatched", <<1, 1>>) EXCEPT !.stages[4].train = <<"vg_d2">>]}
=============================================================================
