------------------------------ MODULE MCStores ------------------------------
(* Instances of the services over Transactions for TLC.                     *)
EXTENDS Stores, TLC

CONSTANTS f1, t1, t2, t3, m1, g1, i1, i2, k1, k2, p1, l1, a2, v1, v2, v3, v4

Interchangeable ==
  Permutations(Caller) \cup Permutations(Value)

Documents == [doc1 |-> <<"x", "y">>]

\* v1 and v2 say the same, v3 says they are wrong; v1 answers v4 and makes the
\* rest of its area's review needless.
Statements ==
  [i \in Evidence |-> [kind |-> IF i = v4 THEN "unknown" ELSE "decision", negated |-> i = v3,
     standing |-> IF i = v3 THEN 2 ELSE 1,
     place |-> CASE i = v1 -> 2 [] i = v2 -> 1 [] i = v3 -> 3 [] i = v4 -> 4]]

Overlaps == {{v1, v2}, {v2, v3}}
Answers == {<<v1, v4>>, <<v2, v4>>}
Sufficiencies == {<<v1, v3>>}

\* What each service starts from.
RegisteredTarget(default, purpose) ==
  [purpose |-> purpose, default |-> default, connection |-> Nothing, prefix |-> Nothing]
Registered ==
  Target(t1) :> RegisteredTarget(TRUE, "deliverable")
  @@ Target(t2) :> RegisteredTarget(FALSE, "deliverable")
Asked == Ask([field |-> f1, default |-> TRUE, blocking |-> FALSE], NoRows).inserts
Defined == [r \in {ModuleRow(k) : k \in ModuleKey} |-> [status |-> "proposed"]]

Found(class, confidence, subject, status) ==
  [class |-> class, confidence |-> confidence, subject |-> subject, status |-> status]
Reading(v, m) ==
  IF m = m1 THEN <<Found("milestone", "confident", "M8", "complete"),
                   Found("requirement", "confident", Nothing, Nothing)>>
  ELSE <<Found("milestone", "confident", "M8", "in_progress"),
         Found("milestone", "confident", IF v = "v1" THEN "M8" ELSE Nothing, Nothing),
         Found("milestone", "fair", "M8", "complete"),
         Found("greeting", "fair", Nothing, Nothing),
         Found("unclassified", "confident", Nothing, Nothing)>>
Readings == [v \in {"v1", "v2"} |-> [m \in Message |-> Reading(v, m)]]

Delivered(confirmed, proposed) ==
  DeliverableRow([revision |-> 1, confirmed |-> confirmed, proposed |-> proposed])
OnRecord(pinned) == [state |-> "recorded", by |-> Nothing, reproducible |-> pinned, pins |-> <<>>]
Full == Delivered({i1}, {i2})
Deliveries == {Full, Delivered({i1, i2}, {})}
Places == Deliveries \cup {Delivered({}, {}), <<"shared">>, <<"deliverables">>}
Disk == [r \in {FileRow(p, q) : p \in Places, q \in Paths}
               \cup {StagedRow(p, q) : p \in Places, q \in Paths} |-> [bytes |-> Nothing]]
ToPublish ==
  ProjectRow :> [EmptyProject EXCEPT !.revision = 2] @@ Disk
  @@ [r \in Deliveries |-> OnRecord(TRUE)]
  @@ Delivered({}, {}) :> OnRecord(FALSE)
  @@ Target(t1) :> RegisteredTarget(TRUE, "deliverable")
  @@ Target(t2) :> [RegisteredTarget(FALSE, "deliverable") EXCEPT !.prefix = <<"shared">>]
  @@ Target(t3) :> [RegisteredTarget(FALSE, "deliverable") EXCEPT !.connection = Connection(g1)]
  @@ Connection(g1) :> [state |-> "never_granted", by |-> Nothing]

Hosted ==
  ProjectAt(0) :> [key |-> <<"k", 1>>, refers |-> {}]
  @@ Row("sessions", 0, 0, {ProjectAt(0)})
  @@ Row("messages", 0, 0, {ProjectAt(0), <<"sessions", 0, 0>>})
  @@ Row("items", 0, 0, {}) @@ Row("versions", 0, 0, {<<"items", 0, 0>>})
  @@ Row("chunks", 0, 0, {ProjectAt(0), <<"items", 0, 0>>}) @@ Row("modules", 0, 0, {})

StoreBeginning(s) ==
  CASE s = "setup values"  -> Asked
    [] s = "setup targets" -> Registered
    [] s = "modules"       -> Defined
    [] s = "deliverables"  -> ProjectRow :> [EmptyProject EXCEPT !.proposed = {i1}]
    [] s = "publication"   -> ToPublish
    [] s = "evidence"      -> [r \in {EvidenceRow(i) : i \in Evidence} |-> [life |-> "proposed"]]
    [] s = "projects"      -> Hosted
    [] s = "submissions"   -> SourceRow(l1) :> [state |-> "connected", pinned |-> Nothing,
                                                disposition |-> Nothing, retired |-> Nothing]
    [] OTHER               -> NoRows
\* Which of a module's own requests the instance makes; the keys of modules are
\* alike, so the first call is about k1 and k2.
StoreRequests(s, d, n) ==
  CASE s = "setup values"  ->
         {q \in AskRequests : n # 3}
         \cup {q \in AnswerRequests(d) : q.by = p1 \/ n = 2}
         \cup {q \in ConfigureRequests : /\ q.field = f1 \/ q.by = Nothing
                                         /\ q.by \in {p1, Nothing} \/ n = 2
                                         /\ q.by = Nothing => n # 1}
    [] s = "setup targets" ->
         {q \in TargetRequests(d) : q.op = "register" => q.name = t3 /\ q.purpose = "snapshot"
                                                         /\ q.connection = Nothing /\ q.prefix = Nothing}
         \cup ConnectionRequests(d, n)
    [] s = "modules"       ->
         {q \in DefineRequests \cup ConfirmRequests : n = 1 => q.key = k1}
         \cup {q \in RelateRequests(n) : n = 1 => q.source = k1 /\ q.target \in {k1, k2} \cup Statement}
    [] s = "assumptions"   -> AssumptionRequests(d, n)
    [] s = "deliverables"  -> {q \in ChangeRequests : q.change # "reject" \/ q.item = i1}
                              \cup AssembleRequests \cup EndRequests(d)
    [] s = "publication"   ->
         {q \in PublishRequests(d, n) :
            /\ q.row = Delivered({}, {}) => n = 1
            /\ n = 1 => ~q.overwrite
            /\ IF q.name = Nothing THEN n = 3 => q.row = Full /\ q.overwrite
               ELSE n = 1 /\ q.name \in {t2, t3} /\ ~q.overwrite}
         \cup {q \in ConnectionRequests(d, n) : q.op = "authorize" /\ q.by = p1 /\ n = 1}
    [] s = "evidence"      -> {q \in EvidenceRequests(d, n) :
                                 /\ q.op = "judge" => q.item \in {v1, v3}
                                 /\ q.op = "set noise" => q.item \in {v2, v3}
                                 /\ q.op = "reconcile" =>
                                      /\ q.focus \subseteq {v1}
                                      /\ q.key # Nothing => n = 2 /\ q.focus = {}}
    [] s = "sources"       -> RegisterRequests \cup SourceRequests(d, n)
    [] s = "submissions"   ->
         {q \in DocumentRequests(n) : /\ q.source = l1 => n = 1 /\ q.missing = 0
                                      /\ IF q.missing > 0 THEN n = 2 ELSE n # 2
                                      /\ q.source \in {l1, Nothing} /\ q.by # a2}
         \cup {q \in ObservationRequests(n) :
                 /\ n # 3
                 /\ q.by = a2 => n = 2 /\ q.keys[1][2] = 1 /\ q.interpreted
                 /\ q.keys[1][2] = 2 \/ ~q.interpreted => n = 2}
         \cup {q \in TurnRequests(d, n) : q.by # a2 /\ q.keys[1][2] = 1 /\ q.interpreted /\ n # 3}
         \cup {q \in CloseRequests(d, n) : n = 2} \cup {q \in ReviewRequests(n) : n = 3 /\ q.keys = <<1>>}
    [] s = "projects"      -> CreateRequests(n) \cup ContentRequests(d, n) \cup DeletionRequests(d)
    [] s = "runs"          -> DriveRequests(n) \cup RunRequests(d, n)
    [] s = "classification" -> ClassifyRequests(n) \cup SettleRequests(d)
=============================================================================
