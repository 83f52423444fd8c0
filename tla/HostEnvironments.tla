--------------------------- MODULE HostEnvironments ---------------------------
(***************************************************************************)
(* The six reference environments of gym/host.py as functions: what each   *)
(* observes when it is reset, and what it observes, remembers and judges   *)
(* when it is given an action.  Costs are in hundredths.  A check has one  *)
(* probe, so a check stands for the identity of an observation.            *)
(***************************************************************************)
EXTENDS Integers, Sequences, FiniteSets

\* A value that nothing depends on.
Plain == "plain"

Classes == {"cli", "data", "config", "repository", "defer", "generative"}

Checks ==
    {"health", "process-state", "restart", "defer", "source-a", "source-b", "provenance",
     "selection", "project-config", "cache-config", "config-origin", "config-selection",
     "static-review", "historical-regression", "targeted-test", "patch", "regression",
     "rollback", "capability", "bounded-actions", "generated-candidate", "fallback"}

Deferrals == {"DEFER", "DEFER_TIE", "DEFER_NO_SUPPORT", "DEFER_NO_ADMISSIBLE"}

\* The constructors' tests of a task's scenario: health lists the first health
\* checks, process is the hidden state, origin the hidden authority of each
\* source, oracle the admissible selection of a private snapshot.
ScenarioValid(t) ==
    LET s == t.scenario IN
    /\ t.runner = "reference-v1"
    /\ t.class \in Classes
    /\ t.class = "cli" =>
          /\ s.health \in Seq({"PASS", "FAIL"}) /\ Len(s.health) >= 2
          /\ s.process \in {"running", "stopped"}
    /\ t.class = "data" => Cardinality({n \in DOMAIN s.origin : s.origin[n] = "signed"}) = 1
    /\ t.class = "config" => s.oracle \in {"SELECT_PROJECT_CONFIG", "SELECT_CACHE_CONFIG"}

\* facts: what the environment remembers having done.
NewEnvironment(t) ==
    [class    |-> t.class,
     scenario |-> t.scenario,
     process  |-> IF t.class = "cli" THEN t.scenario.process ELSE Plain,
     facts    |-> {},
     attempts |-> [c \in Checks |-> 0],
     sequence |-> 0,
     semantic |-> FALSE]

-----------------------------------------------------------------------------
(* Observations *)

Seen(check, attempt, status, value, cost) ==
    [check_id |-> check, attempt_id |-> attempt, status |-> status, value |-> value,
     cost |-> cost]

\* _obs refuses an attempt that does not increase.
Repeats(env, seen) == seen.attempt_id <= env.attempts[seen.check_id]

NextAttempt(env, check) == env.attempts[check] + 1

Observation(env, seen) ==
    [observation_id |-> env.sequence, source_lineage_root |-> "lineage",
     check_id |-> seen.check_id, probe_id |-> seen.check_id,
     attempt_id |-> seen.attempt_id, sequence_index |-> env.sequence,
     logical_tick |-> env.sequence, status |-> seen.status, value |-> seen.value,
     cost |-> seen.cost]

Noted(env, seen) ==
    [env EXCEPT !.attempts[seen.check_id] = seen.attempt_id, !.sequence = @ + 1]

\* What reset observes, in order.
FirstSightings(env) ==
    CASE env.class = "cli" ->
            [i \in DOMAIN env.scenario.health |->
                Seen("health", i, env.scenario.health[i], Plain, 0)]
      [] env.class = "data" ->
            <<Seen("source-a", 1, "PASS", Plain, 0), Seen("source-b", 1, "PASS", Plain, 0)>>
      [] env.class = "config" ->
            <<Seen("project-config", 1, "PASS", Plain, 0),
              Seen("cache-config", 1, "PASS", Plain, 0)>>
      [] env.class = "repository" ->
            <<Seen("static-review", 1, "PASS", Plain, 0),
              Seen("historical-regression", 1, "FAIL", Plain, 0)>>
      [] env.class = "defer" -> <<Seen("capability", 1, "FAIL", Plain, 0)>>
      [] env.class = "generative" -> <<Seen("bounded-actions", 1, "FAIL", Plain, 0)>>

\* The observations of a reset, and the environment after it.
ResetObservations(env) ==
    [i \in DOMAIN FirstSightings(env) |->
        Observation([env EXCEPT !.sequence = i - 1], FirstSightings(env)[i])]

Reset(env) ==
    LET first == FirstSightings(env) IN
    [env EXCEPT !.sequence = Len(first),
                !.attempts = [c \in Checks |->
                    Cardinality({i \in DOMAIN first : first[i].check_id = c})]]

-----------------------------------------------------------------------------
(* step: what is seen, whether the environment is done, and what it is then *)

Answer(env, seen, done) == [env |-> env, seen |-> seen, done |-> done]

Remember(env, fact) == [env EXCEPT !.facts = @ \cup {fact}]

Judged(env, valid) == [env EXCEPT !.semantic = valid]

Verdict(valid) == IF valid THEN "PASS" ELSE "FAIL"

Closed(valid) == IF valid THEN "PROOF_CLOSED" ELSE "FAIL"

Deferred(env) == Answer(env, Seen("defer", 1, "FAIL", Plain, 0), TRUE)

MayRestart(env) == "inspected" \in env.facts /\ env.process = "stopped"

CliStep(env, action) ==
    LET running == env.process = "running"
        healthy == running /\ env.facts \cap {"inspected", "restarted"} # {}
    IN
    CASE action = "INSPECT_PROCESS_STATE" ->
            Answer(Judged(Remember(env, "inspected"), running),
                   Seen("process-state", 1, Verdict(running), env.process, 25), running)
      [] action = "RESTART_PROCESS" ->
            Answer(IF MayRestart(env)
                   THEN [Remember(env, "restarted") EXCEPT !.process = "running"] ELSE env,
                   Seen("restart", NextAttempt(env, "restart"),
                        IF MayRestart(env) THEN "PASS" ELSE "WARN", Plain, 100), FALSE)
      [] action = "RETRY_HEALTHCHECK" ->
            Answer(Judged(env, healthy),
                   Seen("health", NextAttempt(env, "health"), Verdict(healthy), Plain, 20),
                   healthy)
      [] action \in Deferrals -> Deferred(env)

\* The selection that the hidden authority supports.
Admissible(env) ==
    IF env.class = "config" THEN env.scenario.oracle
    ELSE IF env.scenario.origin["source_a"] = "signed" THEN "SELECT_SOURCE_A"
    ELSE "SELECT_SOURCE_B"

\* Faulty: a selection needs no evidence.
SelectionValidUnseen(env, action) == action = Admissible(env)

SelectionValid(env, action) == "checked" \in env.facts /\ action = Admissible(env)

\* Structured data and file configuration: inspect the authority, then select.
AuthorityStep(env, action, inspection, origin, selections, selection) ==
    CASE action = inspection ->
            Answer(Remember(env, "checked"), Seen(origin, 1, "PASS", env.scenario.origin, 15),
                   FALSE)
      [] action \in selections ->
            Answer(Judged(env, SelectionValid(env, action)),
                   Seen(selection, 1, Closed(SelectionValid(env, action)), Plain, 5), TRUE)
      [] action \in Deferrals -> Deferred(env)

DataStep(env, action) ==
    AuthorityStep(env, action, "CHECK_PROVENANCE", "provenance",
                  {"SELECT_SOURCE_A", "SELECT_SOURCE_B"}, "selection")

ConfigStep(env, action) ==
    AuthorityStep(env, action, "INSPECT_CONFIG_ORIGIN", "config-origin",
                  {"SELECT_PROJECT_CONFIG", "SELECT_CACHE_CONFIG"}, "config-selection")

\* The tests pass exactly on the repaired module.
RepositoryStep(env, action) ==
    LET repaired == "patched" \in env.facts
        failed   == "failed" \in env.facts
        mutated(check, status) == Seen(check, NextAttempt(env, check), status, Plain, 25)
        tested(check) == Seen(check, NextAttempt(env, check), Verdict(repaired), Plain, 50)
    IN
    CASE action = "RUN_TARGETED_TEST" ->
            Answer(IF repaired THEN [env EXCEPT !.facts = @ \ {"failed"}]
                   ELSE Remember(env, "failed"),
                   tested("targeted-test"), FALSE)
      [] action = "APPLY_CANDIDATE_FIX" ->
            Answer(IF failed THEN Remember(env, "patched") ELSE env,
                   mutated("patch", Verdict(failed)), FALSE)
      [] action = "RUN_REGRESSION" -> Answer(Judged(env, repaired), tested("regression"), TRUE)
      [] action = "ROLLBACK" ->
            Answer([env EXCEPT !.facts = @ \ {"patched"}], mutated("rollback", "PASS"), FALSE)
      [] action \in Deferrals -> Deferred(env)

DeferStep(env, action) ==
    LET valid == action \in {"DEFER_NO_SUPPORT", "DEFER_NO_ADMISSIBLE"} IN
    Answer(Judged(env, valid), Seen("defer", 1, Closed(valid), Plain, 0), TRUE)

GenerativeStep(env, action, candidate) ==
    LET valid == candidate = "key=stable-42" IN
    IF action = "CALL_GENERATIVE"
    THEN Answer(Judged(env, valid),
                Seen("generated-candidate", NextAttempt(env, "generated-candidate"),
                     Verdict(valid), Plain, 75),
                valid)
    ELSE Answer(Judged(env, FALSE), Seen("fallback", 1, "FAIL", Plain, 0), TRUE)

\* The actions an environment knows: two of them take any for a deferral.
Supported(env, action) ==
    \/ env.class \in {"defer", "generative"}
    \/ action \in Deferrals
    \/ action \in CASE env.class = "cli" ->
                        {"INSPECT_PROCESS_STATE", "RESTART_PROCESS", "RETRY_HEALTHCHECK"}
                  [] env.class = "data" ->
                        {"CHECK_PROVENANCE", "SELECT_SOURCE_A", "SELECT_SOURCE_B"}
                  [] env.class = "config" ->
                        {"INSPECT_CONFIG_ORIGIN", "SELECT_PROJECT_CONFIG",
                         "SELECT_CACHE_CONFIG"}
                  [] env.class = "repository" ->
                        {"RUN_TARGETED_TEST", "APPLY_CANDIDATE_FIX", "RUN_REGRESSION", "ROLLBACK"}
                  [] OTHER -> {}

EnvironmentStep(env, action, candidate) ==
    CASE env.class = "cli"        -> CliStep(env, action)
      [] env.class = "data"       -> DataStep(env, action)
      [] env.class = "config"     -> ConfigStep(env, action)
      [] env.class = "repository" -> RepositoryStep(env, action)
      [] env.class = "defer"      -> DeferStep(env, action)
      [] env.class = "generative" -> GenerativeStep(env, action, candidate)
=============================================================================
