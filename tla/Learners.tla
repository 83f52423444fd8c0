------------------------------- MODULE Learners -------------------------------
(***************************************************************************)
(* What decides and what learns: the reference policy and generator, the   *)
(* semantic state encoder and the intent adapter, the adaptive policy's Q  *)
(* table, the bounded search around it and the typed negative memory.      *)
(* All of it is functions of the task, the observations and a ledger.      *)
(***************************************************************************)
EXTENDS LedgerLanguage

Unknown == "UNKNOWN"

\* The last observation of a check, None if there is none.
Latest(observations, check) ==
    LET of == {i \in DOMAIN observations : observations[i].check_id = check} IN
    IF of = {} THEN None ELSE observations[Max(of)]

\* The first observation of a check with one of the given statuses.
Earliest(observations, check, statuses) ==
    LET of == {i \in DOMAIN observations : /\ observations[i].check_id = check
                                           /\ observations[i].status \in statuses} IN
    IF of = {} THEN None ELSE observations[Min(of)]

AnyStatus == {"PASS", "FAIL", "WARN", "PROOF_CLOSED"}

SignedBy(observation, names) ==
    /\ observation # None
    /\ \E n \in names \cap DOMAIN observation.value : observation.value[n] = "signed"

Select(action) == [kind |-> "SELECT", action |-> action]
Typed(kind) == [kind |-> kind, action |-> None]

-----------------------------------------------------------------------------
(* gym/reference_policy.py *)

\* The first of a list of proposals whose condition holds.
FirstOf(proposals, otherwise) ==
    LET open == {i \in DOMAIN proposals : proposals[i].when} IN
    IF open = {} THEN otherwise ELSE proposals[Min(open)].then

Rule(when, then) == [when |-> when, then |-> then]

ReferenceDecide(t, observations) ==
    LET may(a)    == a \in t.allowed_actions
        first(c)  == Earliest(observations, c, AnyStatus)
        passed(c) == Earliest(observations, c, {"PASS"})
        stopped   == first("process-state") # None /\ first("process-state").value = "stopped"
        process   == may("INSPECT_PROCESS_STATE")
        sources   == may("CHECK_PROVENANCE")
        configs   == may("INSPECT_CONFIG_ORIGIN")
        tests     == may("RUN_TARGETED_TEST")
    IN
    FirstOf(<<
        Rule(process /\ first("process-state") = None, Select("INSPECT_PROCESS_STATE")),
        Rule(process /\ stopped /\ passed("restart") = None, Select("RESTART_PROCESS")),
        Rule(process /\ passed("restart") # None, Select("RETRY_HEALTHCHECK")),
        Rule(sources /\ first("provenance") = None, Select("CHECK_PROVENANCE")),
        Rule(sources /\ SignedBy(first("provenance"), {"source_a"}), Select("SELECT_SOURCE_A")),
        Rule(sources /\ SignedBy(first("provenance"), {"source_b"}), Select("SELECT_SOURCE_B")),
        Rule(configs /\ first("config-origin") = None, Select("INSPECT_CONFIG_ORIGIN")),
        Rule(configs /\ SignedBy(first("config-origin"), {"project"}),
             Select("SELECT_PROJECT_CONFIG")),
        Rule(tests /\ first("targeted-test") = None, Select("RUN_TARGETED_TEST")),
        Rule(tests /\ first("targeted-test") # None /\ passed("patch") = None
                   /\ first("targeted-test").status = "FAIL", Select("APPLY_CANDIDATE_FIX")),
        Rule(tests /\ passed("patch") # None /\ first("regression") = None,
             Select("RUN_REGRESSION")),
        Rule(may("CALL_GENERATIVE"), Typed("CALL_GENERATIVE")),
        Rule(may("DEFER") \/ t.allowed_actions = {}, Typed("DEFER_NO_ADMISSIBLE"))>>,
        Typed("DEFER_NO_SUPPORT"))

\* The first candidate is wrong on purpose.
ReferenceGenerate(attempt) == IF attempt = 1 THEN "key=guess" ELSE "key=stable-42"

-----------------------------------------------------------------------------
(* SemanticStateEncoder *)

Encode(domain, observations) ==
    LET latest(c)    == Latest(observations, c)
        seen(c)      == latest(c) # None
        status(c, s) == seen(c) /\ latest(c).status = s
        repository   == \/ domain = "repository_coding"
                        \/ \E c \in {"static-review", "historical-regression",
                                     "targeted-test", "patch", "regression"} : seen(c)
        process      == seen("process-state")
        value(v)     == process /\ latest("process-state").value = v
        origin       == IF seen("provenance") THEN latest("provenance")
                        ELSE latest("config-origin")
    IN
    FirstOf(<<
        Rule(seen("bounded-actions") \/ status("generated-candidate", "FAIL"),
             "SYNTHESIS_REQUIRED"),
        Rule(status("capability", "FAIL"), "NO_SUPPORTED_ACTUATOR"),
        Rule(repository /\ status("patch", "PASS") /\ ~seen("regression"),
             "REPO_NEEDS_REGRESSION"),
        Rule(repository /\ status("targeted-test", "FAIL") /\ ~status("patch", "PASS"),
             "REPO_NEEDS_REPAIR"),
        Rule(repository /\ ~seen("targeted-test"), "REPO_NEEDS_EXECUTION"),
        Rule(process /\ status("restart", "PASS"), "PROCESS_RESTARTED_NEEDS_VERIFY"),
        Rule(value("stopped"), "PROCESS_STOPPED_CONFIRMED"),
        Rule(value("running"), "PROCESS_RUNNING_CONFIRMED"),
        Rule(seen("health"), "PROCESS_STATE_AMBIGUOUS"),
        Rule(SignedBy(origin, {"source_a", "project"}), "AUTHORITY_SLOT_1"),
        Rule(SignedBy(origin, {"source_b", "cache"}), "AUTHORITY_SLOT_2"),
        Rule(\/ seen("source-a") /\ seen("source-b")
             \/ seen("project-config") /\ seen("cache-config"), "AUTHORITY_UNKNOWN")>>,
        Unknown)

-----------------------------------------------------------------------------
(* CanonicalIntentAdapter *)

\* The local actions an intent stands for, in the order they are tried.
\* Faulty: those of structured data only.
SpellingsOfData(intent) ==
    CASE intent = "INSPECT_AUTHORITY" -> <<"CHECK_PROVENANCE">>
      [] intent = "SELECT_AUTHORITY_SLOT_1" -> <<"SELECT_SOURCE_A">>
      [] intent = "SELECT_AUTHORITY_SLOT_2" -> <<"SELECT_SOURCE_B">>
      [] OTHER -> <<intent>>

Spellings(intent) ==
    CASE intent = "INSPECT_AUTHORITY" -> <<"CHECK_PROVENANCE", "INSPECT_CONFIG_ORIGIN">>
      [] intent = "SELECT_AUTHORITY_SLOT_1" -> <<"SELECT_SOURCE_A", "SELECT_PROJECT_CONFIG">>
      [] intent = "SELECT_AUTHORITY_SLOT_2" -> <<"SELECT_SOURCE_B", "SELECT_CACHE_CONFIG">>
      [] OTHER -> <<intent>>

Intents ==
    {"INSPECT_PROCESS_STATE", "RESTART_PROCESS", "RETRY_HEALTHCHECK", "INSPECT_AUTHORITY",
     "SELECT_AUTHORITY_SLOT_1", "SELECT_AUTHORITY_SLOT_2", "RUN_TARGETED_TEST",
     "APPLY_CANDIDATE_FIX", "RUN_REGRESSION", "CALL_GENERATIVE", "SAFE_DEFER"}

IntentOfAction(action) ==
    LET of == {i \in Intents \ {"CALL_GENERATIVE", "SAFE_DEFER"} :
                    \E n \in DOMAIN Spellings(i) : Spellings(i)[n] = action} IN
    IF of = {} THEN None ELSE CHOOSE i \in of : TRUE

\* Faulty: a typed deferral has no intent.
IntentOfSelection(d) ==
    CASE d.kind = "CALL_GENERATIVE" -> "CALL_GENERATIVE"
      [] d.kind = "SELECT" /\ d.action # None -> IntentOfAction(d.action)
      [] OTHER -> None

DecisionToIntent(d) ==
    CASE d.kind = "CALL_GENERATIVE" -> "CALL_GENERATIVE"
      [] d.kind \in {"DEFER_TIE", "DEFER_NO_SUPPORT", "DEFER_NO_ADMISSIBLE"} -> "SAFE_DEFER"
      [] d.kind = "SELECT" /\ d.action # None -> IntentOfAction(d.action)
      [] OTHER -> None

\* None where the task has no action for the intent.
IntentToDecision(intent, t) ==
    LET open == SelectSeq(Spellings(intent), LAMBDA a : a \in t.allowed_actions) IN
    CASE intent = "SAFE_DEFER" -> Typed("DEFER_NO_ADMISSIBLE")
      [] intent # "SAFE_DEFER" /\ open = <<>> -> None
      [] intent = "CALL_GENERATIVE" /\ open # <<>> -> Typed("CALL_GENERATIVE")
      [] OTHER -> Select(open[1])

-----------------------------------------------------------------------------
(* What a ledger says was tried *)

DecisionEntries(entries) ==
    SelectSeq([i \in DOMAIN entries |-> i], LAMBDA i : Kind(entries, i) = "DECISION")

\* The state a decision was taken in and the intent it had.
Tried(domain, entries, i) ==
    <<Encode(domain, ObservedBefore(entries, i)),
      DecisionToIntent(entries[i].payload.decision)>>

DecisionTrace(domain, entries) ==
    LET at == DecisionEntries(entries) IN
    [n \in DOMAIN at |-> Tried(domain, entries, at[n])]

Experiences(domain, entries) ==
    SelectSeq(DecisionTrace(domain, entries),
              LAMBDA pair : pair[1] # Unknown /\ pair[2] # None)

\* The decision that ended the episode.
TerminalDecisionExperience(domain, entries) ==
    LET last == entries[Len(entries)].payload
        ends == {i \in DOMAIN entries : /\ Kind(entries, i) = "ACTION_RESULT"
                                        /\ entries[i].payload.done}
        hash == IF last.caused_by_decision_entry_hash # None
                THEN last.caused_by_decision_entry_hash
                ELSE IF ends = {} THEN None ELSE entries[Max(ends)].payload.decision_entry_hash
        at   == {i \in DOMAIN entries : /\ Kind(entries, i) = "DECISION"
                                        /\ entries[i].entry_hash = hash}
    IN  IF hash = None \/ at = {} THEN None ELSE Tried(domain, entries, Max(at))

-----------------------------------------------------------------------------
(* ProofGatedAdaptivePolicy.  A Q value is the mean of the discounted      *)
(* targets of its visits: kept as their number and their sum, in units of  *)
(* 0.1 ^ Horizon; gamma is 0.9.                                            *)

Horizon == 4

Discounted(steps) == 9 ^ steps * 10 ^ (Horizon - steps)

QStat(q, pair) == IF pair \in DOMAIN q THEN q[pair] ELSE [visits |-> 0, total |-> 0]

\* Faulty: the earliest decision earns most.
CreditFromStart(q, experiences) ==
    FoldLeft(LAMBDA table, n :
                LET old == QStat(table, experiences[n]) IN
                (experiences[n] :> [visits |-> old.visits + 1,
                                    total |-> old.total + Discounted(n - 1)]) @@ table,
             q, [n \in DOMAIN experiences |-> n])

Credited(q, experiences) ==
    FoldLeft(LAMBDA table, n :
                LET old == QStat(table, experiences[n]) IN
                (experiences[n] :> [visits |-> old.visits + 1,
                                    total |-> old.total
                                              + Discounted(Len(experiences) - n)]) @@ table,
             q, [n \in DOMAIN experiences |-> n])

Better(s, r) == s.total * r.visits > r.total * s.visits

PositiveValue(s) == s.visits > 0 /\ s.total > 0

\* The intents of the best value among those the task has an action for.
BestIntents(q, state, t) ==
    LET open == {pair \in DOMAIN q : /\ pair[1] = state
                                     /\ IntentToDecision(pair[2], t) # None
                                     /\ PositiveValue(q[pair])}
    IN  {pair[2] : pair \in {p \in open : \A r \in open : ~Better(q[r], q[p])}}

LearnerDecide(q, t, observations) ==
    LET best == BestIntents(q, Encode(t.domain, observations), t) IN
    CASE best = {} -> Typed("DEFER_NO_SUPPORT")
      [] Cardinality(best) = 1 -> IntentToDecision(CHOOSE i \in best : TRUE, t)
      [] OTHER -> Typed("DEFER_TIE")

-----------------------------------------------------------------------------
(* BoundedExplorationPolicy and NegativeAwareExplorationPolicy *)

SearchFamily(state) ==
    CASE state = "PROCESS_STATE_AMBIGUOUS" -> <<"INSPECT_PROCESS_STATE">>
      [] state = "PROCESS_STOPPED_CONFIRMED" -> <<"SAFE_DEFER", "RESTART_PROCESS">>
      [] state = "PROCESS_RESTARTED_NEEDS_VERIFY" -> <<"SAFE_DEFER", "RETRY_HEALTHCHECK">>
      [] state = "AUTHORITY_UNKNOWN" -> <<"INSPECT_AUTHORITY">>
      [] state = "AUTHORITY_SLOT_1" -> <<"SELECT_AUTHORITY_SLOT_2", "SELECT_AUTHORITY_SLOT_1">>
      [] state = "AUTHORITY_SLOT_2" -> <<"SELECT_AUTHORITY_SLOT_1", "SELECT_AUTHORITY_SLOT_2">>
      [] state = "REPO_NEEDS_EXECUTION" -> <<"RUN_TARGETED_TEST">>
      [] state = "REPO_NEEDS_REPAIR" -> <<"RUN_REGRESSION", "APPLY_CANDIDATE_FIX">>
      [] state = "REPO_NEEDS_REGRESSION" -> <<"SAFE_DEFER", "RUN_REGRESSION">>
      [] state = "SYNTHESIS_REQUIRED" -> <<"SAFE_DEFER", "CALL_GENERATIVE">>
      [] state = "NO_SUPPORTED_ACTUATOR" -> <<"SAFE_DEFER">>
      [] OTHER -> <<>>

SupportedCandidates(state, t) ==
    SelectSeq(SearchFamily(state),
              LAMBDA i : /\ i = "SAFE_DEFER" => "DEFER" \in t.allowed_actions
                         /\ IntentToDecision(i, t) # None)

\* How often a state's or a pair's count was raised.
CountOf(counts, key) == IF key \in DOMAIN counts THEN counts[key] ELSE 0

CountUp(counts, key) == (key :> CountOf(counts, key) + 1) @@ counts

Unresolved(d) == d.kind \in {"DEFER_NO_SUPPORT", "DEFER_TIE"}

\* What the learner has no preference for is searched: `choice` is a position
\* among the candidates.
Explore(q, t, observations, choice) ==
    LET learned    == LearnerDecide(q, t, observations)
        candidates == SupportedCandidates(Encode(t.domain, observations), t)
    IN  CASE ~Unresolved(learned) -> learned
          [] Unresolved(learned) /\ candidates = <<>> -> Typed("DEFER_NO_SUPPORT")
          [] OTHER -> IntentToDecision(candidates[choice], t)

\* The candidate the cursor points at, the last one from then on.
BoundedDecide(q, cursor, t, observations) ==
    LET state == Encode(t.domain, observations) IN
    Explore(q, t, observations,
            Min({CountOf(cursor, state) + 1, Len(SupportedCandidates(state, t))}))

\* The least rejected candidate, the earliest of several.
NegativeDecide(q, rejections, t, observations) ==
    LET state      == Encode(t.domain, observations)
        candidates == SupportedCandidates(state, t)
        count(n)   == CountOf(rejections, <<state, candidates[n]>>)
    IN  Explore(q, t, observations,
                Min({n \in DOMAIN candidates :
                        \A m \in DOMAIN candidates : count(n) <= count(m)}))

\* A failed attempt advances the search if all but its semantics is valid.
SearchEvidence(result) ==
    /\ result.receipt.provenance_valid
    /\ result.receipt.trajectory_valid
    /\ result.receipt.integrity_valid

\* The pair a failed attempt is about, None if it says nothing: an exploited
\* preference that was rejected does not.
FailedGuess(q, result) ==
    LET trace == DecisionTrace(result.domain, result.entries)
        last  == trace[Len(trace)]
    IN  IF /\ SearchEvidence(result)
           /\ trace # <<>>
           /\ last[1] # Unknown
           /\ last[2] # None
           /\ ~PositiveValue(QStat(q, last))
        THEN last ELSE None

\* The pair a failed attempt is a typed rejection of, None if it is none.
Rejection(result) ==
    LET cause == TerminalDecisionExperience(result.domain, result.entries) IN
    IF /\ ~result.receipt.semantic_valid
       /\ SearchEvidence(result)
       /\ ~result.budget_exhausted
       /\ result.terminal_reason = "ENVIRONMENT_DONE"
       /\ VerifyLedgerDocument(ToDocument(result.entries))
       /\ cause # None
       /\ cause[1] # Unknown
       /\ cause[2] # None
    THEN cause ELSE None
=============================================================================
