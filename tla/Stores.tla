------------------------------- MODULE Stores -------------------------------
(***************************************************************************)
(* The services whose every operation is a unit of work, together: what    *)
(* each starts from and is asked, and which of them a call belongs to,     *)
(* which says what it reads, locks and decides.                            *)
(***************************************************************************)
EXTENDS SetupReport, ProductModules, Classification, Submissions, EvidenceGraph, Projects, AgentRuns

Stored ==
  {"setup values", "setup targets", "modules", "assumptions", "deliverables", "publication", "evidence",
   "sources", "submissions", "projects", "runs", "classification"}

-----------------------------------------------------------------------------
(* What a client may ask of a service                                      *)

StoreAsked(s, d, n) ==
  CASE s = "setup values"   -> AskRequests \cup AnswerRequests(d) \cup ConfigureRequests
    [] s = "setup targets"  -> TargetRequests(d) \cup ConnectionRequests(d, n)
    [] s = "modules"        -> DefineRequests \cup RelateRequests(n) \cup ConfirmRequests
    [] s = "assumptions"    -> AssumptionRequests(d, n)
    [] s = "deliverables"   -> ChangeRequests \cup AssembleRequests \cup EndRequests(d)
    [] s = "publication"    -> PublishRequests(d, n) \cup ConnectionRequests(d, n)
    [] s = "evidence"       -> EvidenceRequests(d, n)
    [] s = "sources"        -> RegisterRequests \cup SourceRequests(d, n)
    [] s = "submissions"    -> DocumentRequests(n) \cup ObservationRequests(n) \cup TurnRequests(d, n)
                               \cup CloseRequests(d, n) \cup ReviewRequests(n)
    [] s = "projects"       -> CreateRequests(n) \cup ContentRequests(d, n) \cup DeletionRequests(d)
    [] s = "runs"           -> DriveRequests(n) \cup RunRequests(d, n)
    [] s = "classification" -> ClassifyRequests(n) \cup SettleRequests(d)

-----------------------------------------------------------------------------
(* What a call does                                                        *)

StoreReads(call, d) ==
  CASE SettingUp(call)   -> SetupReads(call, d)
    [] Designing(call)   -> ModuleReads(call, d)
    [] Reconciling(call) -> EvidenceReads(call, d)
    [] Sourcing(call)    -> SourceReads(call)
    [] Running(call)     -> RunReads(call, d)
    [] Hosting(call)     -> ProjectReads(call, d)
    [] Submitting(call)  -> SubmissionReads(call, d)
    [] Delivering(call)  -> DeliverableReads(call, d)
    [] Publishing(call)  -> PublicationReads(call, d)
    [] Assuming(call)    -> AssumptionReads(call)
    [] Classifying(call) -> ClassificationReads(call, d)
StoreLocks(call, seen) ==
  CASE SettingUp(call)  -> SetupLocks(call, seen)
    [] Delivering(call) -> DeliverableLocks(call)
    [] Publishing(call) -> PublicationLocks(call)
    [] OTHER            -> {}
StoreReadsLater(call, d) ==
  CASE SettingUp(call)  -> SetupReadsLater(call)
    [] Delivering(call) -> DeliverableReadsLater(call)
    [] Publishing(call) -> PublicationReadsLater(call)
    [] OTHER            -> {}
StoreOutcome(call, seen) ==
  CASE SettingUp(call)   -> SetupOutcome(call, seen)
    [] Designing(call)   -> ModuleOutcome(call, seen)
    [] Reconciling(call) -> EvidenceOutcome(call, seen)
    [] Sourcing(call)    -> SourceOutcome(call, seen)
    [] Running(call)     -> RunOutcome(call, seen)
    [] Hosting(call)     -> ProjectOutcome(call, seen)
    [] Submitting(call)  -> SubmissionOutcome(call, seen)
    [] Delivering(call)  -> DeliverableOutcome(call, seen)
    [] Publishing(call)  -> PublicationOutcome(call, seen)
    [] Assuming(call)    -> AssumptionOutcome(call, seen)
    [] Classifying(call) -> ClassificationOutcome(call, seen)
StoreOutside(call) == Publishing(call) /\ OnDisk(call)
StoreUnique(d) == OneDefault(d) /\ SequenceIsUnique(d) /\ KeysDiffer(d) /\ ForeignKeys(d)
                  /\ AttemptsDiffer(d)

-----------------------------------------------------------------------------
(* What a service may start from                                           *)

\* The kinds of the rows a service keeps, those included it only reads.
StoreKinds(s) ==
  CASE s \in {"setup values", "setup targets"} -> {"question", "value", "connection", "target"}
    [] s = "modules"        -> {"module", "edge"}
    [] s = "assumptions"    -> {"assumption"}
    [] s = "deliverables"   -> {"project", "assumption", "deliverable"}
    [] s = "publication"    -> {"project", "deliverable", "connection", "target", "file", "staged", "attempt"}
    [] s = "evidence"       -> {"evidence", "relation", "role", "event"}
    [] s = "sources"        -> {"source"}
    [] s = "submissions"    -> {"source", "session", "message", "reading", "review"}
    [] s = "projects"       -> {"project"} \cup DOMAIN RefersTo
    [] s = "runs"           -> {"run", "result", "used"}
    [] s = "classification" -> {"span", "update"}

\* The shapes of rows: what the operations make of them, and what is assumed of
\* the ones a behaviour starts with.
ValueFields  == {"value", "state", "by"}
TargetFields == {"purpose", "default", "connection", "prefix"}
SetupRowsFit(d) ==
  /\ IsFiniteSet(DOMAIN d) /\ OneDefault(d)
  /\ \A r \in Kind("target", d) : DOMAIN d[r] = TargetFields
  /\ \A r \in Kind("value", d) : DOMAIN d[r] = ValueFields

\* A deliverable of the project's revision says what the project says.
ProjectFields == {"revision", "confirmed", "proposed"}
ProjectFits(p) == DOMAIN p = ProjectFields /\ p.revision \in Nat
Says(content, project) ==
  /\ content.revision \in Nat /\ content.revision <= project.revision
  /\ content.revision = project.revision =>
       content.proposed \in {{}, project.proposed} /\ content.confirmed = project.confirmed
DeliverableRowsFit(d) ==
  /\ ProjectRow \in DOMAIN d /\ ProjectFits(d[ProjectRow])
  /\ \A r \in Kind("deliverable", d) : Says(r[2], d[ProjectRow])

HasState(row, states) == "state" \in DOMAIN row /\ row.state \in states
StatesFit(d) ==
  /\ \A r \in Kind("assumption", d) : HasState(d[r], DOMAIN AssumptionMoves)
  /\ \A r \in Kind("deliverable", d) : HasState(d[r], DOMAIN DeliverableMoves)

SourceRowsFit(d) == \A r \in Kind("source", d) : "retired" \in DOMAIN d[r]

\* Rows refer to rows of the tables their foreign keys name.
Tables == DOMAIN RefersTo
Targets(table) == IF table = "project" THEN {} ELSE RefersTo[table]
RowRefers(r, row) ==
  /\ r[1] \in Tables \cup {"project"} /\ "refers" \in DOMAIN row
  /\ \A q \in row.refers : q[1] \in Targets(r[1])
ProjectRowsFit(d) == \A r \in DOMAIN d : RowRefers(r, d[r])

\* A place of a deliverable holds nothing, or what the record says of it; no
\* target has the place of a deliverable for its own.
Shown(row, path, d) == d[FileRow(row, path)].bytes = Rendered(row, path)
PlaceFits(r, row, path, d) ==
  r \in DOMAIN d => d[r].bytes \in {Nothing, Rendered(row, path)}
AttemptFits(attempt, d) ==
  attempt.reference # Nothing =>
    /\ attempt.row \in Kind("deliverable", d) /\ attempt.target \in Kind("target", d)
    /\ d[attempt.target].prefix = Nothing =>
         attempt.reference = attempt.row /\ \A path \in Files(attempt.row) : Shown(attempt.row, path, d)
PublicationRowsFit(d) ==
  /\ \A row \in Kind("deliverable", d), path \in Paths :
       /\ FileRow(row, path) \in DOMAIN d /\ StagedRow(row, path) \in DOMAIN d
       /\ PlaceFits(FileRow(row, path), row, path, d)
       /\ PlaceFits(StagedRow(row, path), row, path, d)
  /\ \A t \in Kind("target", d) : d[t].prefix \notin Kind("deliverable", d)
  /\ \A a \in Kind("attempt", d) : AttemptFits(d[a], d)

BeginsFit(s, d) ==
  /\ \A r \in DOMAIN d : r[1] \in StoreKinds(s)
  /\ CASE s \in {"setup values", "setup targets"} -> SetupRowsFit(d)
       [] s = "modules"        -> IsFiniteSet(DOMAIN d) /\ Kind("edge", d) = {}
       [] s = "assumptions"    -> StatesFit(d)
       [] s = "deliverables"   -> DeliverableRowsFit(d) /\ StatesFit(d)
       [] s = "publication"    -> PublicationRowsFit(d) /\ DeliverableRowsFit(d) /\ SetupRowsFit(d)
       [] s = "evidence"       -> DOMAIN d = Kind("evidence", d)
       [] s = "sources"        -> SourceRowsFit(d)
       [] s = "submissions"    -> SourceRowsFit(d) /\ Kind("reading", d) = {}
       [] s = "projects"       -> ProjectRowsFit(d)
       [] s \in {"runs", "classification"} -> DOMAIN d = {}

\* What a classifier finds in a message is a sequence of spans.
ASSUME StoresAssumption ==
  /\ Service \subseteq Stored /\ \A s \in Service : BeginsFit(s, Beginning(s))
  /\ \A v \in Version, m \in Message : Finds[v][m] \in Seq(ToSet(Finds[v][m]))

-----------------------------------------------------------------------------
(* Properties *)

\* What a person decided stands, whatever was on its way when it was decided:
\* where stale reads are refused, no call takes back a noise role, moves the time
\* a source was first retired, or decides an assumption or a deliverable again.
DecisionsStand == [][Serializable => EndsStand /\ FirstRetirementStands /\ NoiseStands]_vars
=============================================================================
