--------------------------- MODULE MCIsolatedEpisode ---------------------------
(***************************************************************************)
(* A small instance of IsolatedEpisode: a train and a validation task that *)
(* look the same to the agent.                                             *)
(***************************************************************************)
EXTENDS IsolatedEpisode

Obs(i, c) ==
    [observation_id |-> i, source_lineage_root |-> "lineage", check_id |-> "check",
     probe_id |-> "probe", attempt_id |-> i + 1, sequence_index |-> i, logical_tick |-> i,
     cost |-> c]

Task(split, cost) ==
    [allowed_actions |-> {"INSPECT", "CALL_GENERATIVE"}, max_steps |-> 2,
     max_generative_calls |-> 2, max_tool_cost |-> cost, split |-> split]

AllTasks == {Task("train", 1), Task("validation", 1)}

AllDecisions ==
    {[kind |-> "SELECT", action |-> "INSPECT"], [kind |-> "SELECT", action |-> "OTHER"],
     [kind |-> "CALL_GENERATIVE", action |-> None]}

Reset == {<<>>}
Steps == {<<>>, <<Obs(0, 1)>>, <<Obs(0, 2)>>}
=============================================================================
