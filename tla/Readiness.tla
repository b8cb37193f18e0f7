----------------------------- MODULE Readiness -----------------------------
(***************************************************************************)
(* Readiness snapshots of one project (ReadinessService.calculate) while   *)
(* its knowledge, area links, contradictions and blockers change.          *)
(*                                                                         *)
(* Every change is one transaction that also moves the revision.  A        *)
(* calculation reads the latest snapshot, the facts one kind after the     *)
(* other, and last of all the revision; then it appends its snapshot.      *)
(* Under READ COMMITTED each of these statements sees what is committed by *)
(* then; under serializable isolation they read one state, and the commit  *)
(* is refused if the latest snapshot is no longer the one it read.         *)
(***************************************************************************)
EXTENDS ReadinessScore, Sequences

CONSTANTS
  Calculator,    \* callers of calculate that may be in progress at once
  ServiceOf,     \* Calculator -> the template version its process ships
  Stored,        \* the versions install_template has stored
  Exclusions,    \* the sets of not-applicable areas callers pass
  MaxRevision,   \* bound: changes of the project
  MaxSnapshots,  \* bound: calculations started
  Isolation      \* the isolation levels to consider

ASSUME CalculationAssumption ==
  /\ \A c \in Calculator : ServiceOf[c] \in Version
  /\ Stored \subseteq Version /\ Exclusions \subseteq SUBSET Area
  /\ MaxRevision \in Nat /\ MaxSnapshots \in Nat
  /\ Isolation \subseteq {"serializable", "read committed"}

VARIABLES
  facts,      \* the project as committed
  revision,   \* projects.knowledge_revision
  past,       \* history: past[n + 1] is the project at revision n
  snapshots,  \* readiness_snapshots in the order they were committed
  calc,       \* Calculator -> the calculation in progress
  clock,      \* ticks with every calculation that starts
  isolation   \* CockroachDB's isolation level or PostgreSQL's default, for good

vars == <<facts, revision, past, snapshots, calc, clock, isolation>>

Serializable == isolation = "serializable"

-----------------------------------------------------------------------------
(* The project changes *)

\* Mutant of Bumped: the change leaves the revision alone.
NotBumped == revision
\* bump_knowledge_revision
Bumped == revision + 1

Change(f) ==
  /\ revision < MaxRevision
  /\ facts' = f
  /\ revision' = Bumped
  /\ past' = Append(past, f)
  /\ UNCHANGED <<snapshots, calc, clock, isolation>>

\* Module KnowledgeReview has the moves of a lifecycle.
Moves == {<<"absent", "proposed">>, <<"proposed", "validated">>, <<"proposed", "rejected">>,
          <<"validated", "proposed">>, <<"validated", "superseded">>}
KnowledgeMoves ==
  \E i \in Item, m \in Moves :
    facts.life[i] = m[1] /\ Change([facts EXCEPT !.life[i] = m[2]])

\* assign_area: the item exists, the shipped template accepts its kind and knows
\* the claim; UniqueConstraint("knowledge_item_id", "area_key").
AssignArea(c) ==
  \E i \in Item, a \in Area, k \in Claim \cup {NoClaim} :
    /\ facts.life[i] # "absent"
    /\ KindOf[i] \in Template[ServiceOf[c]][a].kinds
    /\ k \in DOMAIN Template[ServiceOf[c]][a].claims \cup {NoClaim}
    /\ \A l \in facts.links : l[1] = i => l[2] # a
    /\ Change([facts EXCEPT !.links = @ \cup {<<i, a, k>>}])

RecordContradiction ==
  \E i, j \in Item :
    /\ i # j /\ facts.life[i] # "absent" /\ facts.life[j] # "absent"
    /\ Change([facts EXCEPT !.contradictions = @ \cup {<<i, j>>}])

\* The guarded update: only an open contradiction is resolved, and only then
\* does the revision move.
ResolveContradiction ==
  \E e \in facts.contradictions :
    Change([facts EXCEPT !.contradictions = @ \ {e}])

RaiseBlocker   == \E s \in Severity : Change([facts EXCEPT !.blockers = @ \cup {s}])
ResolveBlocker == \E s \in facts.blockers : Change([facts EXCEPT !.blockers = @ \ {s}])

-----------------------------------------------------------------------------
(* calculate *)

\* ReadinessSnapshotRepository.latest orders by calculated_at.
Latest == CHOOSE s \in {snapshots[n] : n \in DOMAIN snapshots} :
            \A n \in DOMAIN snapshots : snapshots[n].moment <= s.moment

\* Mutant of TemplateFor: every calculation uses the template its process ships.
TemplateForShipped(c, adopt) == ServiceOf[c]
TemplateFor(c, adopt) ==
  IF adopt \/ snapshots = <<>> \/ Latest.version \notin Stored
  THEN ServiceOf[c] ELSE Latest.version

NoFacts == [life |-> [i \in Item |-> "absent"], links |-> {}, contradictions |-> {},
            blockers |-> {}]
NotRunning == [at |-> 0, moment |-> 0, adopt |-> FALSE, excluded |-> {}, version |-> 0,
               known |-> 0, from |-> 0, seen |-> NoFacts, revision |-> 0]

\* What the routes and tools ask for: a calculation on request, one on the first
\* read of a project that has none, one with every blueprint and every review.
\* No route adopts the shipped template; the service offers it.
Asks(adopt, excluded)    == [adopt |-> adopt, excluded |-> excluded]
CalculateRequests        == {Asks(FALSE, x) : x \in Exclusions}
FirstReadRequests        == IF snapshots = <<>> THEN {Asks(FALSE, {})} ELSE {}
BlueprintRequests        == {Asks(FALSE, {})}
AdoptionRequests         == {Asks(TRUE, x) : x \in Exclusions}
CalculationRequests ==
  CalculateRequests \cup FirstReadRequests \cup BlueprintRequests \cup AdoptionRequests

\* The clock is read before the transaction begins.
Start(c) ==
  /\ calc[c].at = 0 /\ clock < MaxSnapshots
  /\ \E q \in CalculationRequests :
       /\ q.excluded \subseteq DOMAIN Template[ServiceOf[c]]
       /\ calc' = [calc EXCEPT ![c].at = 1, ![c].moment = clock + 1, ![c].adopt = q.adopt,
                               ![c].excluded = q.excluded, ![c].from = revision]
  /\ clock' = clock + 1
  /\ UNCHANGED <<facts, revision, past, snapshots, isolation>>

ReadTemplate(c) ==
  /\ calc[c].at = 1
  /\ calc' = [calc EXCEPT ![c].at = 2, ![c].version = TemplateFor(c, calc[c].adopt),
                          ![c].known = Len(snapshots)]
  /\ UNCHANGED <<facts, revision, past, snapshots, clock, isolation>>

\* Mutant of ReadOrder: the revision is read before the facts it is to label.
RevisionFirst == <<"template", "revision", "life", "links", "contradictions", "blockers">>
ReadOrder == <<"template", "life", "links", "contradictions", "blockers", "revision">>
Finished == Len(ReadOrder) + 1

ReadFacts(c) ==
  /\ ~Serializable /\ calc[c].at \in 2 .. Len(ReadOrder)
  /\ LET kind == ReadOrder[calc[c].at]  next == calc[c].at + 1
     IN \/ /\ kind = "revision"
           /\ calc' = [calc EXCEPT ![c].revision = revision, ![c].at = next]
        \/ /\ kind # "revision"
           /\ calc' = [calc EXCEPT ![c].seen[kind] = facts[kind], ![c].at = next]
  /\ UNCHANGED <<facts, revision, past, snapshots, clock, isolation>>

ReadSnapshot(c) ==
  /\ Serializable /\ calc[c].at = 2
  /\ calc' = [calc EXCEPT ![c].at = Finished, ![c].seen = facts, ![c].revision = revision]
  /\ UNCHANGED <<facts, revision, past, snapshots, clock, isolation>>

Snapshot(k) == [moment |-> k.moment, version |-> k.version, adopted |-> k.adopt,
                excluded |-> k.excluded, revision |-> k.revision, from |-> k.from,
                facts |-> k.seen, draft |-> DraftEligible(k.seen, k.version, k.excluded),
                eligible |-> Eligible(k.seen, k.version, k.excluded),
                status |-> Status(k.seen, k.version, k.excluded)]

Commit(c) ==
  /\ calc[c].at = Finished
  /\ Serializable => calc[c].known = Len(snapshots)
  /\ snapshots' = Append(snapshots, Snapshot(calc[c]))
  /\ calc' = [calc EXCEPT ![c] = NotRunning]
  /\ UNCHANGED <<facts, revision, past, clock, isolation>>

\* The refused commit is tried again, or the retries are used up.
Retry(c) ==
  /\ Serializable /\ calc[c].at = Finished /\ calc[c].known # Len(snapshots)
  /\ \/ calc' = [calc EXCEPT ![c].at = 1]
     \/ calc' = [calc EXCEPT ![c] = NotRunning]
  /\ UNCHANGED <<facts, revision, past, snapshots, clock, isolation>>

-----------------------------------------------------------------------------
Init ==
  /\ facts = NoFacts /\ revision = 0 /\ past = <<NoFacts>>
  /\ snapshots = <<>> /\ clock = 0 /\ isolation \in Isolation
  /\ calc = [c \in Calculator |-> NotRunning]

Calculate(c) == Start(c) \/ ReadTemplate(c) \/ ReadFacts(c) \/ ReadSnapshot(c)
                \/ Commit(c) \/ Retry(c)
ProjectChanges == \/ KnowledgeMoves \/ (\E c \in Calculator : AssignArea(c))
                  \/ RecordContradiction \/ ResolveContradiction
                  \/ RaiseBlocker \/ ResolveBlocker
Next == ProjectChanges \/ \E c \in Calculator : Calculate(c)
Spec == Init /\ [][Next]_vars

-----------------------------------------------------------------------------
(* What a reader is shown of it: the latest snapshot, and beside it whether the  *)
(* project has moved since                                                       *)

Snapshots == {snapshots[n] : n \in DOMAIN snapshots}
StaleAgainst(s, r)   == s.revision < r
BehindTemplate(s, v) == s.version < v
ReadinessShown(s) ==
  [status |-> s.status, draft |-> s.draft, eligible |-> s.eligible,
   stale |-> StaleAgainst(s, revision)]
\* The history is the oldest snapshots up to a limit: past it the newest are left out.
History(limit) ==
  {s \in Snapshots : Cardinality({t \in Snapshots : t.moment < s.moment}) < limit}

-----------------------------------------------------------------------------
(* Properties *)

\* A snapshot describes the one state of the project that its revision names
\* (calculate: "a single consistent state rather than a moving one"), where the
\* reads of a transaction are of one state.
SnapshotIsOneState == Serializable => \A s \in Snapshots : s.facts = past[s.revision + 1]

\* Every kind of fact in a snapshot was true at some revision between the one
\* its calculation started at and the one it is labelled with: it never holds
\* facts newer than its label, so a snapshot in doubt is never too optimistic
\* about a change it does not name.
FactsPrecedeTheLabel ==
  \A s \in Snapshots : \A kind \in DOMAIN s.facts :
    \E n \in s.from .. s.revision : past[n + 1][kind] = s.facts[kind]

\* The project with one more candidate in an area.
WithCandidate(f, i, a) ==
  [f EXCEPT !.life[i] = "proposed", !.links = @ \cup {<<i, a, NoClaim>>}]
\* Generating candidates never makes a project eligible.
CandidatesNeverUnlock ==
  \A i \in Item, a \in Area, v \in Version, x \in Exclusions :
    facts.life[i] = "absent" /\ Eligible(WithCandidate(facts, i, a), v, x)
      => Eligible(facts, v, x)

\* Confirming a candidate never costs a project score or eligibility.
ConfirmingNeverHurts ==
  \A i \in Item, v \in Version, x \in Exclusions :
    facts.life[i] = "proposed" =>
      LET g == [facts EXCEPT !.life[i] = "validated"]
      IN /\ Earned(facts, v, x) <= Earned(g, v, x)
         /\ Eligible(facts, v, x) => Eligible(g, v, x)

\* A project moves to another template version only by a calculation that was
\* asked to adopt it (_template_for), where stale reads are refused.
PinHolds ==
  [][Serializable /\ snapshots # <<>> /\ snapshots' # snapshots
       => \/ Latest'.version = Latest.version
          \/ snapshots'[Len(snapshots')].adopted]_vars
=============================================================================
