---------------------------- MODULE EpisodePromise ----------------------------
(***************************************************************************)
(* What an episode promises its callers, whatever happens inside: its log  *)
(* only grows and is sealed once, it is judged once and only sealed, it is *)
(* credited to the learner at most once and only when admitted, and a run  *)
(* that returns has been judged and, where it is due, credited.            *)
(***************************************************************************)
EXTENDS Naturals, Sequences

VARIABLES eligible,   \* a train task with a learning sink
          log, verdict, credit, outcome

vars == <<eligible, log, verdict, credit, outcome>>

Sealed == log # <<>> /\ log[Len(log)].kind = "TERMINAL"

Extends(new, old) ==
    /\ Len(new) > Len(old)
    /\ SubSeq(new, 1, Len(old)) = old

Init ==
    /\ eligible \in BOOLEAN
    /\ log = <<>>
    /\ verdict = "none"
    /\ credit = 0
    /\ outcome = "running"

\* Decisions, results and observations are recorded, or the log is sealed.
Record ==
    /\ outcome = "running"
    /\ ~Sealed
    /\ Extends(log', log)
    /\ UNCHANGED <<eligible, verdict, credit, outcome>>

\* The log is sealed and judged.
Judge ==
    /\ outcome = "running"
    /\ ~Sealed
    /\ Extends(log', log)
    /\ Sealed'
    /\ verdict' \in {"admitted", "rejected"}
    /\ UNCHANGED <<eligible, credit, outcome>>

Credit ==
    /\ outcome = "running"
    /\ eligible
    /\ verdict = "admitted"
    /\ credit = 0
    /\ credit' = 1
    /\ UNCHANGED <<eligible, log, verdict, outcome>>

Return ==
    /\ outcome = "running"
    /\ verdict # "none"
    /\ credit = IF eligible /\ verdict = "admitted" THEN 1 ELSE 0
    /\ outcome' = "returned"
    /\ UNCHANGED <<eligible, log, verdict, credit>>

Raise ==
    /\ outcome = "running"
    /\ outcome' = "raised"
    /\ UNCHANGED <<eligible, log, verdict, credit>>

Next == Record \/ Judge \/ Credit \/ Return \/ Raise

Spec == Init /\ [][Next]_vars
=============================================================================
