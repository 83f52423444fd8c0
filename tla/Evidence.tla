------------------------------- MODULE Evidence -------------------------------
(***************************************************************************)
(* What an episode's observations are worth: the provenance rules of       *)
(* EvidenceAdmission and the tool cost of gym/core.py.  An observation is  *)
(* its identity (source, check, probe, attempt), its place in the episode  *)
(* (id, sequence index, logical tick) and its cost.                        *)
(***************************************************************************)
EXTENDS Integers, SequencesExt

CONSTANTS NaN,       \* a cost that is not a finite number
          Blank      \* an empty source, check or probe identifier

ASSUME NaNAssumption == NaN \notin Int

Identity(o) == <<o.source_lineage_root, o.check_id, o.probe_id>>

\* Faulty: a cost that is not a number is not negative either.
NotNegativeCost(c) == c = NaN \/ c >= 0

ValidCost(c) == c # NaN /\ c >= 0

ProvenanceValid(observations) ==
    /\ \A i \in 1 .. Len(observations) :
        LET o == observations[i] IN
        /\ o.sequence_index = i - 1
        /\ Blank \notin {o.source_lineage_root, o.check_id, o.probe_id}
        /\ ValidCost(o.cost)
    /\ \A i, j \in 1 .. Len(observations) :
        LET o == observations[i]
            p == observations[j]
        IN  /\ i < j => /\ o.observation_id # p.observation_id
                        /\ o.logical_tick < p.logical_tick
                        /\ Identity(o) = Identity(p) => o.attempt_id < p.attempt_id
            /\ o.check_id = p.check_id =>
                  /\ o.source_lineage_root = p.source_lineage_root
                  /\ o.probe_id = p.probe_id

\* Floating-point addition: whatever meets a NaN becomes one.
AddCost(total, o) == IF total = NaN \/ o.cost = NaN THEN NaN ELSE total + o.cost

ToolCost(observations) == FoldLeft(AddCost, 0, observations)
=============================================================================
