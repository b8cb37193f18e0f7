------------------------------ MODULE Briefing ------------------------------
(***************************************************************************)
(* The answers an agent works from: kae_get_project_briefing,              *)
(* kae_get_readiness and kae_get_open_decisions.  Each is composed of      *)
(* several transactions, one after the other, while the project changes;   *)
(* the revision it names is read last.                                     *)
(***************************************************************************)
EXTENDS Readiness, ReviewFindings, Responses

CONSTANTS
  Shipped,      \* the template version this process ships
  Deployment,   \* the response policy of the deployment
  Requested(_)  \* facts: the requests to consider; tool, project named, controls

ASSUME BriefingAssumption == Shipped \in Version

VARIABLE answer   \* the answer in progress, or given

bvars == <<vars, answer>>

\* The transactions of each tool, in order.
\* Mutant of Steps: the revision is read together with the readiness.
StepsRevisionEarly ==
  [briefing  |-> <<"snapshot", "revision", "blueprint", "findings">>,
   readiness |-> <<"snapshot", "revision">>, decisions |-> <<"revision", "unknowns", "findings">>,
   clarifications |-> <<"revision">>, answer |-> <<"revision">>]
\* Module Clarification has what the last two do before.
Steps ==
  [briefing  |-> <<"snapshot", "blueprint", "findings", "revision">>,
   readiness |-> <<"snapshot", "revision">>, decisions |-> <<"unknowns", "findings", "revision">>,
   clarifications |-> <<"revision">>, answer |-> <<"revision">>]

Nothing == [snapshot |-> Unset, blueprint |-> Unset, findings |-> Unset, unknowns |-> Unset,
            revision |-> Unset]
NoAnswer == [request |-> Unset, step |-> 0, parts |-> Nothing, reply |-> Unset]
NotAsked == answer = NoAnswer
Working  == answer.request # Unset /\ answer.reply = Unset
Given    == answer.reply # Unset
Tool     == answer.request.tool

Ask ==
  /\ NotAsked
  /\ \E r \in Requested(facts) : answer' = [NoAnswer EXCEPT !.request = r, !.step = 1]
  /\ UNCHANGED vars

\* A request that names no project is refused before its handler runs.
RefuseProject ==
  /\ Working /\ answer.step = 1 /\ ~Resolves(answer.request.named)
  /\ answer' = [answer EXCEPT !.reply = Error("project")]
  /\ UNCHANGED vars

\* readiness.latest, or a calculation when there is none.
Fresh == Snapshot([NotRunning EXCEPT !.moment = clock + 1, !.version = Shipped, !.seen = facts,
                     !.revision = revision, !.from = revision])
Known == IF snapshots = <<>> THEN Fresh ELSE Latest

Part(kind) ==
  CASE kind = "snapshot"  -> Known
    [] kind = "blueprint" -> Blueprint(facts, answer.parts.snapshot.eligible)
    [] kind = "findings"  -> Findings(facts, Shipped)
    [] kind = "unknowns"  -> {i \in Item : facts.life[i] # "absent" /\ KindOf[i] = Unknown}
    [] kind = "revision"  -> revision

ReadPart ==
  /\ Working /\ Resolves(answer.request.named) /\ answer.step \in DOMAIN Steps[Tool]
  /\ LET kind == Steps[Tool][answer.step]
     IN /\ answer' = [answer EXCEPT !.step = @ + 1, !.parts[kind] = Part(kind)]
        /\ snapshots' = IF kind = "snapshot" /\ snapshots = <<>> THEN <<Fresh>> ELSE snapshots
        /\ clock' = IF snapshots' = snapshots THEN clock ELSE clock + 1
  /\ UNCHANGED <<facts, revision, past, calc, isolation>>

\* The payload is composed; for a tool that has levels the controls of the
\* response are read now.
Answer ==
  /\ Working /\ answer.step = Len(Steps[Tool]) + 1
  /\ answer' = [answer EXCEPT !.reply =
       IF Tool \in DOMAIN ToolLevels
       THEN Reply(Tool, answer.request.named, answer.request.arguments, Deployment)
       ELSE Whole({<<"results">>, <<"total">>, <<"guidance">>})]
  /\ UNCHANGED vars

BriefingInit == Init /\ answer = NoAnswer
BriefingNext == Ask \/ RefuseProject \/ ReadPart \/ Answer
                \/ (ProjectChanges /\ UNCHANGED answer)
BriefingSpec == BriefingInit /\ [][BriefingNext]_bvars

-----------------------------------------------------------------------------
(* Properties *)

Briefed == Given /\ answer.parts.blueprint # Unset
Current == answer.parts.snapshot.revision = answer.parts.revision
             /\ answer.parts.snapshot.version = Shipped

\* A briefing that withholds the implementation blueprint says why: when the
\* readiness it carries is not behind the revision it names, one of its findings
\* is about a mandatory area, a contradiction or a critical blocker, and is not
\* minor ("CRITICAL is reserved for conditions that block an implementation
\* blueprint").  Readiness and the findings judge the areas on their own.
WithheldIsExplained ==
  Briefed /\ Current /\ ~answer.parts.snapshot.eligible =>
    \E g \in answer.parts.findings :
      \/ g.kind \in {"missing_area", "partial_area"} /\ g.severity # "minor"
           /\ g.area \notin answer.parts.snapshot.excluded
      \/ g.kind \in {"unresolved_contradiction", "open_blocker"} /\ g.severity = "critical"

\* "One disappears when the condition that produced it does: confirm the
\* knowledge, assign the area": no finding calls an area unfinished that the
\* readiness of the same state holds sufficient.
FindingsDisappear ==
  Briefed /\ Current =>
    \A g \in answer.parts.findings : g.kind \in {"missing_area", "partial_area"} =>
      LET s == answer.parts.snapshot
      IN State(s.facts, s.version, g.area, s.excluded) # "sufficient"

\* A response profile "may never reduce what a response admits": what is left
\* out is reported, and a field of the integrity registry is left out only with
\* the whole section that held it.
AdmissionsSurvive ==
  Given /\ Tool \in DOMAIN ToolLevels /\ answer.reply.policy # Unset =>
    \A leaf \in Payload[Tool] \cup Echo(answer.request.named) :
      \/ leaf \in answer.reply.fields
      \/ \E n \in DOMAIN leaf : /\ Path(leaf, n) \in answer.reply.dropped
                                /\ \A m \in 1 .. n : leaf[m] \notin IntegrityFields
=============================================================================
