--------------------------- MODULE ReadinessScore ---------------------------
(***************************************************************************)
(* The readiness calculator (application/readiness_service.py,             *)
(* domain/readiness.py) as operators on the facts of a project: which      *)
(* areas its knowledge covers, the score, the eligibilities and the status.*)
(***************************************************************************)
EXTENDS Integers, FiniteSets, FiniteSetsExt

CONSTANTS
  Item,      \* knowledge items a project may come to have
  Area,      \* area keys
  Claim,     \* claim keys of divided areas
  NoClaim,   \* a link that names no claim
  KindOf,    \* Item -> its knowledge kind
  SourcesOf, \* Item -> the kinds of source its provenance records
  Version,   \* template versions
  Template   \* Version -> (Area -> its definition)

SourceKind == {"grounded", "inference"}
Lifecycle  == {"absent", "proposed", "validated", "rejected", "superseded"}
Severity   == {"critical", "minor"}   \* "minor" stands for every other severity

\* AreaDefinition: `claims` maps the claims of a divided area to their minimum.
IsDefinition(d) ==
  /\ d.weight \in Nat \ {0} /\ d.minimum \in Nat \ {0}
  /\ d.mandatory \in BOOLEAN
  /\ DOMAIN d.claims \subseteq Claim
  /\ \A c \in DOMAIN d.claims : d.claims[c] \in Nat \ {0}

ASSUME FiniteAssumption   == IsFiniteSet(Item) /\ IsFiniteSet(Area) /\ NoClaim \notin Claim
ASSUME SourceAssumption   == \A i \in Item : SourcesOf[i] \subseteq SourceKind
ASSUME TemplateAssumption == \A v \in Version : \A a \in Area : IsDefinition(Template[v][a])

\* calculate looks a statement's claim up by the statement alone, so a template
\* that divides two areas would let one link hide the claim of the other.  The
\* shipped templates divide at most one.
ASSUME DividedAssumption ==
  \A v \in Version : Cardinality({a \in Area : DOMAIN Template[v][a].claims # {}}) <= 1

\* The facts one calculation reads: lifecycles, area links, open contradictions
\* and open blockers.
Facts == [life : [Item -> Lifecycle], links : SUBSET (Item \X Area \X (Claim \cup {NoClaim})),
          contradictions : SUBSET (Item \X Item), blockers : SUBSET Severity]

-----------------------------------------------------------------------------
(* evaluate_area *)

InArea(f, v, a) ==
  {i \in Item : /\ KindOf[i] \in Template[v][a].kinds
                /\ \E c \in Claim \cup {NoClaim} : <<i, a, c>> \in f.links}

\* Mutant of Confirmed: candidates count.
ConfirmedOrProposed(f, v, a) == {i \in InArea(f, v, a) : f.life[i] \in {"validated", "proposed"}}
Confirmed(f, v, a) == {i \in InArea(f, v, a) : f.life[i] = "validated"}
Proposed(f, v, a)  == {i \in InArea(f, v, a) : f.life[i] = "proposed"}

Contradicted(f, v, a) ==
  \E i \in Confirmed(f, v, a) \cup Proposed(f, v, a) :
    \E e \in f.contradictions : i \in {e[1], e[2]}

Establishing(f, v, a, c) == {i \in Confirmed(f, v, a) : <<i, a, c>> \in f.links}

\* Mutant of Suffices: the minimum is compared for equality.
SufficesExactly(f, v, a) ==
  LET d == Template[v][a]
  IN IF DOMAIN d.claims # {}
     THEN \A c \in DOMAIN d.claims : Cardinality(Establishing(f, v, a, c)) = d.claims[c]
     ELSE Cardinality(Confirmed(f, v, a)) = d.minimum
Suffices(f, v, a) ==
  LET d == Template[v][a]
  IN IF DOMAIN d.claims # {}
     THEN \A c \in DOMAIN d.claims : Cardinality(Establishing(f, v, a, c)) >= d.claims[c]
     ELSE Cardinality(Confirmed(f, v, a)) >= d.minimum

\* _grounded_state
Grounded(S) ==
  LET kinds == UNION {SourcesOf[i] : i \in S}
  IN IF "grounded" \notin kinds THEN "partial"
     ELSE IF "inference" \in kinds THEN "interpreted" ELSE "evidenced"

State(f, v, a, excluded) ==
  LET live == Confirmed(f, v, a) \cup Proposed(f, v, a)
  IN CASE a \in excluded                        -> "not_applicable"
       [] a \notin excluded /\ Suffices(f, v, a) -> "sufficient"
       [] a \notin excluded /\ ~Suffices(f, v, a) /\ live # {} -> Grounded(live)
       [] OTHER                                 -> "missing"

-----------------------------------------------------------------------------
(* score_areas, eligibility, derive_status.  Credits are counted in halves. *)

Credit(s) == IF s = "sufficient" THEN 2
             ELSE IF s \in {"partial", "evidenced", "interpreted"} THEN 1 ELSE 0

Applicable(excluded) == Area \ excluded
Total(v, excluded) == MapThenSumSet(LAMBDA a : Template[v][a].weight, Applicable(excluded))
Earned(f, v, excluded) ==
  MapThenSumSet(LAMBDA a : Template[v][a].weight * Credit(State(f, v, a, excluded)),
                Applicable(excluded))

\* score >= DRAFT_THRESHOLD, that is 100 * (Earned / 2) / Total >= 50
DraftEligible(f, v, excluded) ==
  Total(v, excluded) # 0 /\ Earned(f, v, excluded) >= Total(v, excluded)

MandatoryAreas(v) == {a \in Area : Template[v][a].mandatory}

Blocked(f, v, excluded) ==
  \/ "critical" \in f.blockers
  \/ \E a \in MandatoryAreas(v) \ excluded : Contradicted(f, v, a)

Eligible(f, v, excluded) ==
  /\ \A a \in MandatoryAreas(v) :
       State(f, v, a, excluded) \in {"sufficient", "not_applicable"}
  /\ ~Blocked(f, v, excluded)

Touched(f, v) == \E a \in Area : Confirmed(f, v, a) \cup Proposed(f, v, a) # {}

Status(f, v, excluded) ==
  IF ~Touched(f, v) THEN "not_started"
  ELSE IF Blocked(f, v, excluded) THEN "blocked"
  ELSE IF Eligible(f, v, excluded) THEN "blueprint_ready"
  ELSE IF DraftEligible(f, v, excluded) THEN "draft_ready"
  ELSE "discovering"
=============================================================================
