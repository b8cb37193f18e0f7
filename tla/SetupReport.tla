---------------------------- MODULE SetupReport ----------------------------
(***************************************************************************)
(* What a project is told of its configuration (SetupService.readiness and *)
(* the views of both interfaces), as functions of the tables Setup keeps.  *)
(* The code reads values, questions, targets and each authorization in a   *)
(* transaction of its own; here they are read at once.                     *)
(***************************************************************************)
EXTENDS Publication

\* open_questions: what nobody has settled, and what of it blocks.
OpenQuestions(d) == {r \in Kind("question", d) : d[r].disposition \notin Settles}
Blocking(d)      == {r \in OpenQuestions(d) : d[r].blocking}

\* What either interface shows of the questions; showing them changes nothing.
QuestionView(r, d) ==
  [question |-> r, field |-> r[2], blocking |-> d[r].blocking,
   becomes_default |-> d[r].default, disposition |-> d[r].disposition]
QuestionViews(d, blockingOnly) ==
  {QuestionView(r, d) : r \in IF blockingOnly THEN Blocking(d) ELSE OpenQuestions(d)}

-----------------------------------------------------------------------------
(* The configuration, most of it unknown                                   *)

Unset == [value |-> Nothing, state |-> "unknown", by |-> Nothing]
Configuration(d) ==
  [f \in KnownField |-> IF Configured(f) \in DOMAIN d THEN d[Configured(f)] ELSE Unset]

\* A suggestion is what might be configured; only what is in use takes effect.
InUse(v)        == v.state \notin {"suggested", "unknown"}
Effective(f, d) == IF InUse(Configuration(d)[f]) THEN Configuration(d)[f].value ELSE Nothing
UnknownFields(d) == {f \in KnownField : Configuration(d)[f].state = "unknown"}
\* What is in use although no person said it.
Disclosures(d) ==
  {f \in KnownField : InUse(Configuration(d)[f]) /\ Configuration(d)[f].state # "confirmed"}

-----------------------------------------------------------------------------
(* Targets, the unavailable ones included                                  *)

UsableTargets(d) == {t \in Kind("target", d) : Available(d[t].connection, d)}
TargetView(t, d) ==
  [target |-> t, purpose |-> d[t].purpose, default |-> d[t].default,
   available |-> t \in UsableTargets(d),
   authorization |-> AuthorizationFor(d[t].connection, d)]
TargetViews(d) == {TargetView(t, d) : t \in Kind("target", d)}

-----------------------------------------------------------------------------
(* Readiness of the setup, never of what is known                          *)

\* Every gap is an unmade choice or a missing authorization.  A target that
\* cannot be reached stops nothing: another may work.
Gap(about, capability, blocking) ==
  [about |-> about, capability |-> capability, blocking |-> blocking]
Gaps(d, capability) ==
  {Gap(r, capability[r], TRUE) : r \in Blocking(d)}
  \cup (IF Kind("target", d) = {} THEN {Gap("target", "publication", TRUE)} ELSE {})
  \cup {Gap(t, "publication", FALSE) : t \in Kind("target", d) \ UsableTargets(d)}

Stops(d, capability, what) ==
  \E g \in Gaps(d, capability) : g.blocking /\ g.capability = what

\* _state_for
SetupState(d) ==
  IF Blocking(d) # {} THEN "needs_input"
  ELSE IF UsableTargets(d) # {} THEN "ready_for_publication"
  ELSE IF Kind("value", d) # {} THEN "ready_for_generation"
  ELSE IF OpenQuestions(d) # {} THEN "sufficient_to_begin_acquisition" ELSE "not_started"

\* What both interfaces show of it.
SetupView(d, capability) ==
  [state |-> SetupState(d), gaps |-> Gaps(d, capability),
   blocks |-> \E g \in Gaps(d, capability) : g.blocking,
   configuration |-> Configuration(d), unknown |-> UnknownFields(d),
   disclosures |-> Disclosures(d), targets |-> TargetViews(d)]
=============================================================================
