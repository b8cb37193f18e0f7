--------------------------- MODULE ReviewFindings ---------------------------
(***************************************************************************)
(* What a reader is told about a project: the findings of ReviewService,   *)
(* the sections of the blueprint, and the counts a briefing derives from   *)
(* them.  Operators on the facts of ReadinessScore; every report is        *)
(* computed from what the tables hold and nothing of it is stored.         *)
(***************************************************************************)
EXTENDS ReadinessScore

CONSTANTS
  Unknown,       \* the knowledge kind of an open question
  Assumed,       \* the knowledge kind of an assumption
  FromMessage,   \* the items derived from something somebody said
  Near           \* the pairs of items whose words say the same

ASSUME ReportAssumption == FromMessage \subseteq Item /\ Near \subseteq Item \X Item

NoArea == "no area"
Finding(kind, severity, area, items) ==
  [kind |-> kind, severity |-> severity, area |-> area, items |-> items]

Live(f) == {i \in Item : f.life[i] \in {"proposed", "validated"}}

-----------------------------------------------------------------------------
(* Areas *)

\* findings calls evaluate_area without the claims of the links and without
\* what the sources are: no claim of a divided area is ever established.
Unclaimed(f) == [f EXCEPT !.links = {<<l[1], l[2], NoClaim>> : l \in @}]

\* UNFINISHED_STATES: missing, or partial whatever the ground of it.
Unfinished(f, v, a) == ~Suffices(Unclaimed(f), v, a)
Untouched(f, v, a)  == Confirmed(f, v, a) \cup Proposed(f, v, a) = {}

AreaFinding(f, v, a) ==
  LET d == Template[v][a]
  IN IF Untouched(f, v, a)
     THEN Finding("missing_area", IF d.mandatory THEN "critical" ELSE "minor", a, {})
     ELSE Finding("partial_area", IF d.mandatory THEN "major" ELSE "minor", a, {})
AreaFindings(f, v) == {AreaFinding(f, v, a) : a \in {b \in Area : Unfinished(f, v, b)}}

-----------------------------------------------------------------------------
(* Knowledge *)

\* One finding stands for the relationships between the same two items.
ContradictionFindings(f) ==
  {Finding("unresolved_contradiction", "critical", NoArea, {e[1], e[2]}) :
     e \in f.contradictions}

\* _near_duplicates: only among confirmed items of one kind.
NearDuplicates(f) ==
  {p \in Near : /\ p[1] # p[2] /\ KindOf[p[1]] = KindOf[p[2]]
                /\ f.life[p[1]] = "validated" /\ f.life[p[2]] = "validated"}
DuplicateFindings(f) ==
  {Finding("duplicate_knowledge", "major", NoArea, {p[1], p[2]}) : p \in NearDuplicates(f)}

BlockerFindings(f) ==
  {Finding("open_blocker", IF s = "critical" THEN "critical" ELSE "major", NoArea, {}) :
     s \in f.blockers}

\* One finding for all the items of a list, and none for an empty list.
About(kind, severity, items) ==
  IF items = {} THEN {} ELSE {Finding(kind, severity, NoArea, items)}

Unconfirmed(f) == {i \in Live(f) : f.life[i] = "proposed"}
UnconfirmedFindings(f) == About("unconfirmed_knowledge", "major", Unconfirmed(f))

\* unambiguous_area_for: the one area that accepts the kind, if it is one.
Accepting(kind, v) == {a \in Area : kind \in Template[v][a].kinds}
Unambiguous(kind, v) == \E a \in Area : Accepting(kind, v) = {a}

\* classify_offline: the assignments that need no judgement.
Assignable(items, v) ==
  {p \in items \X Area : Accepting(KindOf[p[1]], v) = {p[2]}}

Linked(f) == {l[1] : l \in f.links}
Unplaced(f)    == Live(f) \ Linked(f)
Unrouted(f, v) == {i \in Unplaced(f) : Unambiguous(KindOf[i], v)}
Undecided(f, v) == Unplaced(f) \ Unrouted(f, v)
PlacementFindings(f, v) ==
  About("unclassified_knowledge", "minor", Unrouted(f, v))
    \cup About("awaiting_classification", "minor", Undecided(f, v))

Questions(f) == {i \in Live(f) : KindOf[i] = Unknown}
QuestionFindings(f) == About("open_question", "major", Questions(f))

Findings(f, v) ==
  UNION {AreaFindings(f, v), ContradictionFindings(f), DuplicateFindings(f),
         BlockerFindings(f), UnconfirmedFindings(f), PlacementFindings(f, v),
         QuestionFindings(f)}

\* ReviewService.summary.
BySeverity(findings) ==
  [s \in {"critical", "major", "minor"} |-> Cardinality({g \in findings : g.severity = s})]

-----------------------------------------------------------------------------
(* The blueprint *)

\* label_for.
Label(i) == IF KindOf[i] = Assumed THEN "assumption"
            ELSE IF i \in FromMessage THEN "grounded" ELSE "derived"
Statement(i) == [item |-> i, label |-> Label(i)]

Validated(f) == {i \in Item : f.life[i] = "validated"}
Sections(f) ==
  [a \in {b \in Area : \E i \in Validated(f) : \E l \in f.links : l[1] = i /\ l[2] = b} |->
     {Statement(i) : i \in {j \in Validated(f) : \E l \in f.links : l[1] = j /\ l[2] = a}}]

\* BlueprintService.generate: the figures of readiness are handed to it.
Blueprint(f, eligible) ==
  [sections |-> Sections(f), complete |-> eligible, questions |-> Questions(f),
   unassigned |-> Cardinality(Validated(f) \ Linked(f))]

StatementCount(b) == MapThenSumSet(LAMBDA a : Cardinality(b.sections[a]), DOMAIN b.sections)

\* render_markdown: the parts of the document.
Document(b, missing) ==
  (IF b.complete THEN {"implementation"} ELSE {"provisional", "caveat"})
    \cup {<<"section", a>> : a \in DOMAIN b.sections}
    \cup {part \in {"no sections", "missing areas", "questions", "not represented"} :
            CASE part = "no sections"     -> DOMAIN b.sections = {}
              [] part = "missing areas"   -> missing # {}
              [] part = "questions"       -> b.questions # {}
              [] part = "not represented" -> b.unassigned # 0}

-----------------------------------------------------------------------------
(* What a briefing counts *)

Labelled(b, label) ==
  MapThenSumSet(LAMBDA a : Cardinality({s \in b.sections[a] : s.label = label}), DOMAIN b.sections)
Concerning(findings, kind) ==
  MapThenSumSet(LAMBDA g : Cardinality(g.items), {g \in findings : g.kind = kind})

\* _knowledge_health.
Health(b, findings) ==
  [confirmed |-> StatementCount(b), grounded |-> Labelled(b, "grounded"),
   derived |-> Labelled(b, "derived"), assumptions |-> Labelled(b, "assumption"),
   questions |-> Cardinality(b.questions),
   awaiting |-> Concerning(findings, "unconfirmed_knowledge"),
   unclassified |-> Concerning(findings, "unclassified_knowledge")
                      + Concerning(findings, "awaiting_classification"),
   contradictions |-> Cardinality({g \in findings : g.kind = "unresolved_contradiction"})]

\* _readiness_explanation: what each area brings and still owes, in half credits.
Explanation(f, v, excluded) ==
  [a \in Applicable(excluded) |->
     LET credit == Credit(State(f, v, a, excluded))
     IN [earned |-> Template[v][a].weight * credit,
         outstanding |-> Template[v][a].weight * (2 - credit)]]

\* _readiness_projection: the weight, in half credits, when every mandatory area
\* is complete, and the areas that takes.
Projection(f, v, excluded) ==
  [weight |-> MapThenSumSet(
       LAMBDA a : Template[v][a].weight
                    * (IF Template[v][a].mandatory THEN 2 ELSE Credit(State(f, v, a, excluded))),
       Applicable(excluded)),
   requires |-> {a \in Applicable(excluded) :
                   Template[v][a].mandatory /\ Credit(State(f, v, a, excluded)) < 2}]
=============================================================================
