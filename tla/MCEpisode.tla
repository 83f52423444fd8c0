------------------------------- MODULE MCEpisode -------------------------------
(***************************************************************************)
(* Small instances of Episode: tasks, decisions and observations for TLC.  *)
(***************************************************************************)
EXTENDS Episode

\* The i-th observation of a well-behaved host: attempt a of the one check.
Obs(i, a, c) ==
    [observation_id |-> i, source_lineage_root |-> "lineage", check_id |-> "check",
     probe_id |-> "probe", attempt_id |-> a, sequence_index |-> i, logical_tick |-> i,
     cost |-> c]

Select(a) == [kind |-> "SELECT", action |-> a]
Typed(k) == [kind |-> k, action |-> None]

Task(allowed, steps, calls, cost, split) ==
    [allowed_actions |-> allowed, max_steps |-> steps, max_generative_calls |-> calls,
     max_tool_cost |-> cost, split |-> split]

-----------------------------------------------------------------------------
(* Evidence: one action, every kind of observation a host may produce. *)

EvidenceTasks ==
    {Task({"INSPECT"}, 2, 0, 1, "train"), Task({"INSPECT"}, 2, 0, None, "train")}
EvidenceDecisions == {Select("INSPECT")}
EvidenceReset == {<<>>, <<Obs(0, 1, 0)>>}

\* In place or displaced, repeating an attempt or not, of any cost, under a
\* check of its own, an aliased check or none.
EvidenceSteps ==
    {<<>>} \cup
    {<<o>> : o \in
        {Obs(i, a, c) : i \in 0 .. 1, a \in 1 .. 2, c \in {0, 2}} \cup
        {Obs(1, 2, NaN), Obs(1, 2, -1), Obs(0, 1, NaN), Obs(0, 1, -1),
         Obs(2, 3, 2), Obs(2, 3, 1),
         [Obs(1, 1, 0) EXCEPT !.check_id = "other", !.logical_tick = 0],
         [Obs(1, 1, 0) EXCEPT !.probe_id = "other"],
         [Obs(1, 2, 0) EXCEPT !.probe_id = Blank],
         [Obs(1, 2, 0) EXCEPT !.observation_id = 0]}}

-----------------------------------------------------------------------------
(* Budgets: every decision, under tasks that allow more or less. *)

BudgetTasks ==
    {Task({"INSPECT", "CALL_GENERATIVE", "DEFER"}, 3, 1, 1, "train"),
     Task({"INSPECT", "DEFER_TIE"}, 2, 1, None, "validation"),
     Task({"INSPECT", "CALL_GENERATIVE"}, 2, 1, None, "train")}
BudgetDecisions ==
    {Select("INSPECT"), Select("OTHER"), Typed("DEFER_TIE"), Typed("CALL_GENERATIVE")}
BudgetReset == {<<>>, <<Obs(0, 1, 2)>>}
BudgetSteps == {<<>>, <<Obs(0, 1, 1)>>, <<Obs(1, 2, 1)>>}

=============================================================================
