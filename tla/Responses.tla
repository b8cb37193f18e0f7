----------------------------- MODULE Responses -----------------------------
(***************************************************************************)
(* How the MCP server answers a tool call (mcp/server.py dispatch and      *)
(* mcp/response_policy.py): which project is meant, which controls the     *)
(* call asks for, and what of the payload is left out for them.            *)
(*                                                                         *)
(* A payload is the set of its leaves, a leaf is the sequence of the keys  *)
(* that lead to it, and the elements of a list share their paths.          *)
(***************************************************************************)
EXTENDS Integers, Sequences, FiniteSets, FiniteSetsExt

CONSTANT Unset   \* an argument the caller does not give

\* INTEGRITY_FIELDS.
IntegrityFields ==
  {"search_mode", "semantic_search_available", "ranking", "warnings", "indexing",
   "error", "message", "capability", "missing_capabilities", "guidance", "subject",
   "next_steps", "caveat", "match_type", "available", "reason", "resolved_project",
   "scope", "scope_note", "module_scope_available", "state", "authoritative",
   "confirmation_state", "unresolved_critical_gaps", "source_knowledge", "truncation",
   "omitted", "knowledge_state", "knowledge_changed", "workflow_state"}

-----------------------------------------------------------------------------
(* Policies *)

DetailLevels == <<"summary", "standard", "diagnostic">>
Reach(level) == CHOOSE n \in DOMAIN DetailLevels : DetailLevels[n] = level
Includes(level, required) == Reach(level) >= Reach(required)

\* ResponsePolicy and its defaults; Unset stands for no bound.
Regular == [profile |-> "regular", detail |-> "summary", prose |-> "concise",
            max_output_tokens |-> 2500, max_entities |-> 25, max_text_length |-> Unset]
Profiles ==
  [economy  |-> [Regular EXCEPT !.profile = "economy", !.prose = "none",
                   !.max_output_tokens = 800, !.max_entities = 10, !.max_text_length = 200],
   regular  |-> Regular,
   detailed |-> [Regular EXCEPT !.profile = "detailed", !.detail = "diagnostic",
                   !.prose = "standard", !.max_output_tokens = 8000, !.max_entities = 100]]

\* SERVER_MAXIMUMS.
Ceiling == [max_output_tokens |-> 20000, max_entities |-> 200, max_text_length |-> 10000]
Bounds  == DOMAIN Ceiling

\* clamp: held to the ceiling; a bound below one is an error.
Positive(policy) == \A b \in Bounds : policy[b] # Unset => policy[b] >= 1
Held(policy) ==
  [c \in DOMAIN policy |->
     IF c \in Bounds /\ policy[c] # Unset
     THEN Min({policy[c], Ceiling[c]}) ELSE policy[c]]

\* from_arguments: the named preset or the deployment's policy, then the other
\* controls the caller gives.
Asked(arguments) == {c \in DOMAIN arguments : arguments[c] # Unset} \ {"profile"}
Merged(arguments, base) ==
  LET preset == IF arguments.profile = Unset THEN base ELSE Profiles[arguments.profile]
  IN [c \in DOMAIN preset |->
        IF c \in Asked(arguments) THEN arguments[c]
        ELSE IF c = "profile" /\ Asked(arguments) # {} THEN "custom" ELSE preset[c]]

\* "custom" is a profile a response may name and no preset has.
Understood(arguments) ==
  /\ arguments.profile \in DOMAIN Profiles \cup {Unset}
  /\ \A c \in Asked(arguments) \cap {"detail"} :
       \E n \in DOMAIN DetailLevels : DetailLevels[n] = arguments[c]
Valid(arguments, base) == Understood(arguments) /\ Positive(Merged(arguments, base))
Policy(arguments, base) == Held(Merged(arguments, base))

-----------------------------------------------------------------------------
(* Projection *)

Path(leaf, n) == SubSeq(leaf, 1, n)
Guarded(leaf, n) == \E m \in 1 .. n : leaf[m] \in IntegrityFields

\* _prune: a field the level does not reach goes with all that is below it, up
\* to the first integrity field.
CutAt(leaf, policy, levels) ==
  {n \in DOMAIN leaf : /\ Path(leaf, n) \in DOMAIN levels
                       /\ ~Includes(policy.detail, levels[Path(leaf, n)])
                       /\ ~Guarded(leaf, n)}

\* Mutant of Dropped: what is left out inside a kept object is not reported.
DroppedAtTheTop(payload, policy, levels) ==
  {Path(leaf, Min(CutAt(leaf, policy, levels))) :
     leaf \in {l \in payload : 1 \in CutAt(l, policy, levels)}}
Dropped(payload, policy, levels) ==
  {Path(leaf, Min(CutAt(leaf, policy, levels))) :
     leaf \in {l \in payload : CutAt(l, policy, levels) # {}}}

\* project: the report of what was left out takes the place of any field of its
\* name.
Projected(payload, policy, levels) ==
  LET dropped == Dropped(payload, policy, levels)
      kept == {l \in payload : CutAt(l, policy, levels) = {}}
  IN [fields |-> {l \in kept : dropped # {} => l[1] # "truncation"}
                   \cup {<<"response_policy">>}
                   \cup IF dropped = {} THEN {} ELSE {<<"truncation", "dropped">>},
      dropped |-> dropped, policy |-> policy]
Whole(payload) == [fields |-> payload, dropped |-> {}, policy |-> Unset]
Error(kind) == Whole({<<"error", kind>>, <<"message">>})

-----------------------------------------------------------------------------
(* The tools that have levels *)

Below(key, leaves) == {<<key>> \o leaf : leaf \in leaves}
Keys(names) == {<<name>> : name \in names}

\* kae_get_project_briefing, without the tiers that are not of the project.
BriefingPayload ==
  Keys({"knowledge_revision", "knowledge_health", "statement_count", "open_questions",
        "complete", "unassigned_confirmed_count"})
    \cup Below("project", Keys({"project_id", "name", "key"}))
    \cup Below("readiness",
           Keys({"scope", "percentage", "status", "status_label", "draft_eligible",
                 "implementation_eligible", "ready_for", "missing_mandatory_areas"})
             \cup Below("explanation", {<<"method">>, <<"areas", "state">>, <<"areas", "credit">>})
             \cup Below("projection", {<<"requires">>, <<"note">>}))
    \cup Below("sections", {<<"area">>, <<"statements", "text">>, <<"statements", "label">>})
    \cup Below("findings", Keys({"kind", "severity", "summary", "area", "knowledge_ids"}))
    \cup Below("tiers", {<<"included">>, <<"excluded">>, <<"operational_state", "authority">>,
                         <<"operational_state", "state">>})
BriefingLevels ==
  [p \in {<<"sections">>, <<"readiness", "explanation">>, <<"readiness", "projection">>} |->
     IF p = <<"sections">> THEN "standard" ELSE "diagnostic"]

\* kae_get_readiness.
ReadinessPayload ==
  Keys({"project_id", "scope", "module_scope_available", "scope_note", "percentage", "status",
        "draft_eligible", "implementation_eligible", "knowledge_revision", "stale",
        "open_blockers", "critical_blockers", "unresolved_contradictions"})
    \cup Below("areas", Keys({"key", "name", "state", "mandatory", "confirmed", "proposed"}))
ReadinessLevels == [p \in {<<"areas", "confirmed">>, <<"areas", "proposed">>} |-> "diagnostic"]

\* kae_get_clarifications.
ClarificationPayload ==
  Keys({"project_id", "count", "deferred", "knowledge_revision", "note"})
    \cup Below("omitted", Keys({"returned", "available", "reason", "guidance"}))
    \cup Below("questions", Keys({"clarification_id", "question", "reason", "knowledge_ids",
                                  "disposition", "newly_asked"}))
ClarificationLevels ==
  [p \in {<<"questions", "knowledge_ids">>, <<"questions", "newly_asked">>, <<"note">>} |->
     IF p = <<"note">> THEN "standard" ELSE "diagnostic"]

\* kae_answer_clarification.
AnswerPayload ==
  Keys({"clarification_id", "answer_id", "status", "question_settled", "still_open",
        "workflow_state", "knowledge_state", "knowledge_changed", "readiness_changed",
        "replayed", "knowledge_revision", "next_steps"})
AnswerLevels == [p \in {} |-> "standard"]

\* TOOL_FIELD_LEVELS.
ToolLevels == [briefing |-> BriefingLevels, readiness |-> ReadinessLevels,
               clarifications |-> ClarificationLevels, answer |-> AnswerLevels]
Payload == [briefing |-> BriefingPayload, readiness |-> ReadinessPayload,
            clarifications |-> ClarificationPayload, answer |-> AnswerPayload]

-----------------------------------------------------------------------------
(* Which project answers *)

\* resolve_project: an identifier, a key in the place of one, or a key alone.  Only
\* beside an identifier is the key compared with the project's.
Naming == [id : {"id", "key", "stranger", Unset}, key : {"key", "stranger", Unset}]
Resolves(named) ==
  CASE named.id = "id"  -> named.key \in {"key", Unset}
    [] named.id = Unset -> named.key = "key"
    [] OTHER            -> named.id = "key"

\* project_scope: an echo says which project answered when no identifier did.
Echo(named) == IF named.id = "id" THEN {} ELSE {<<"resolved_project", "project_key">>}

\* dispatch: the handler has run when the controls of the response are looked at.
Reply(tool, named, arguments, base) ==
  CASE ~Resolves(named) -> Error("project")
    [] Resolves(named) /\ ~Valid(arguments, base) -> Error("invalid_argument")
    [] OTHER -> Projected(Payload[tool] \cup Echo(named), Policy(arguments, base), ToolLevels[tool])
=============================================================================
