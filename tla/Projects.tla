------------------------------ MODULE Projects ------------------------------
(***************************************************************************)
(* How a project comes to be and how it goes (create_project and           *)
(* ensure_project in memory_service.py, project_deletion_service.py): a    *)
(* key that is taken is replaced by the next, and a deletion empties the   *)
(* tables one by one, in an order derived from what refers to what.        *)
(***************************************************************************)
EXTENDS Transactions

CONSTANTS ProjectKey, KeyAttempts   \* keys names derive to; _KEY_ATTEMPTS

ASSUME KeyAssumption == KeyAttempts \in Nat \ {0}

-----------------------------------------------------------------------------
(* The tables                                                              *)

\* Each table with the tables its foreign keys point into.  What a project
\* knows and what it is built of carry its identifier without one.
RefersTo == [sessions |-> {"project"}, messages |-> {"project", "sessions"},
             items |-> {}, versions |-> {"items"}, chunks |-> {"project", "items"}, modules |-> {}]

ProjectAt(p)   == <<"project", p>>
Of(p, t, d)    == {r \in DOMAIN d : r[1] = t /\ r[2] = p}
Row(t, p, n, refers) == One(<<t, p, n>>, [refers |-> refers])

\* Every foreign key is NO ACTION where it matters: a row that is pointed at
\* stays.  Two projects never have one key.
ForeignKeys(d) == \A r \in DOMAIN d : "refers" \in DOMAIN d[r] => d[r].refers \subseteq DOMAIN d
KeysDiffer(d)  == \A r, s \in Kind("project", d) :
                    r # s /\ "key" \in DOMAIN d[r] => d[r].key # d[s].key

-----------------------------------------------------------------------------
(* Creating                                                                *)

\* The n-th readable key of a name, and after them one made up.
Candidate(call) ==
  IF call.attempt <= KeyAttempts THEN <<call.key, call.attempt>> ELSE <<call.key, "random", call.id>>

NextAttempt(call) ==
  CASE call.given = "ensured" -> [call EXCEPT !.op = "find winner"]
    [] call.given = "derived" /\ call.attempt <= KeyAttempts -> [call EXCEPT !.attempt = @ + 1]
    [] OTHER -> Nothing
CreateProject(call) ==
  [Insert(ProjectAt(call.id), [key |-> Candidate(call), refers |-> {}])
     EXCEPT !.clash = NextAttempt(call)]

FoundByKey(call, seen) == \E r \in DOMAIN seen : seen[r].key = Candidate(call)
EnsureProject(call, seen) ==
  IF FoundByKey(call, seen) THEN Same ELSE Goto([call EXCEPT !.op = "create project"])
FindWinner(call, seen) == IF FoundByKey(call, seen) THEN Same ELSE Refused

-----------------------------------------------------------------------------
(* Writing into a project                                                  *)

\* The interfaces ask whether the project is there in a transaction of its own.
RequireProject(call, seen) ==
  IF ProjectAt(call.project) \in DOMAIN seen THEN Goto([call EXCEPT !.op = call.then]) ELSE Refused

\* The rows of one write, in one transaction.  Only a foreign key notices that
\* the project is gone.
Content(call, seen) ==
  LET p == call.project  n == call.id
  IN CASE call.op = "open session in" -> Row("sessions", p, n, {ProjectAt(p)})
       [] call.op = "record message in" ->
            Row("messages", p, n, {ProjectAt(p)} \cup Kind("sessions", seen))
       [] call.op = "propose in" ->
            Over(Row("items", p, n, {}),
                 Over(Row("versions", p, n, {<<"items", p, n>>}),
                      Row("chunks", p, n, {ProjectAt(p), <<"items", p, n>>})))
       [] call.op = "define in" -> Row("modules", p, n, {})
WriteContent(call, seen) ==
  IF call.op = "record message in" /\ Kind("sessions", seen) = {} THEN Refused
  ELSE Writes(Content(call, seen), NoRows, Nothing)

-----------------------------------------------------------------------------
(* Deleting                                                                *)

\* _project_scoped_tables: a table comes before every table it refers to.
Scoped == DOMAIN RefersTo \ {"versions"}
Orders == {s \in [1..Cardinality(Scoped) -> Scoped] : \A i, j \in DOMAIN s : s[i] = s[j] => i = j}
\* Mutant of ScopedTables: the order in which the tables would be created.
ScopedTablesAsCreated ==
  CHOOSE s \in Orders : \A i, j \in DOMAIN s : i < j => s[j] \notin RefersTo[s[i]]
ScopedTables ==
  CHOOSE s \in Orders : \A i, j \in DOMAIN s : i < j => s[i] \notin RefersTo[s[j]]
\* Versions have no project of their own and go first.
DeletionOrder == <<"versions">> \o ScopedTables \o <<"project">>

\* A plan counts; it is what the deletion reports, whatever it finds later.
PlanDeletion(call) == Goto([call EXCEPT !.op = "delete project"])

\* One transaction, a statement for each table.
DeleteProject(call, seen) ==
  LET p == call.project
      s == DeletionOrder
      Refuses(i) == \E j \in DOMAIN s : /\ i < j
        /\ \E r \in Of(p, s[i], seen), q \in Of(p, s[j], seen) : r \in seen[q].refers
  IN IF \E i \in DOMAIN s : Refuses(i) THEN Refused ELSE Delete(DOMAIN seen)

-----------------------------------------------------------------------------
(* What a client may ask                                                   *)

CreateRequests(n) ==
  [op : {"create project"}, key : ProjectKey, given : {"given", "derived"}, attempt : {1}, id : {n}]
  \cup [op : {"ensure project"}, key : ProjectKey, given : {"ensured"}, attempt : {1}, id : {n}]
ContentRequests(d, n) ==
  [op : {"require project"}, then : {"open session in", "record message in", "propose in", "define in"},
   project : {r[2] : r \in Kind("project", d)}, id : {n}]
DeletionRequests(d) == [op : {"plan deletion"}, project : {r[2] : r \in Kind("project", d)}]

Hosting(call) == call.op \in {"create project", "ensure project", "find winner", "require project",
  "open session in", "record message in", "propose in", "define in", "plan deletion", "delete project"}
ProjectReads(call, d) ==
  CASE call.op \in {"ensure project", "find winner"} -> Kind("project", d)
    [] call.op = "require project"   -> {ProjectAt(call.project)}
    [] call.op = "record message in" -> Of(call.project, "sessions", d)
    [] call.op \in {"plan deletion", "delete project"} -> {r \in DOMAIN d : r[2] = call.project}
    [] OTHER                         -> {}
ProjectOutcome(call, seen) ==
  CASE call.op = "create project"  -> CreateProject(call)
    [] call.op = "ensure project"  -> EnsureProject(call, seen)
    [] call.op = "find winner"     -> FindWinner(call, seen)
    [] call.op = "require project" -> RequireProject(call, seen)
    [] call.op = "plan deletion"   -> PlanDeletion(call)
    [] call.op = "delete project"  -> DeleteProject(call, seen)
    [] OTHER                       -> WriteContent(call, seen)

-----------------------------------------------------------------------------
(* Properties *)

\* A deletion that meets no concurrent write is not stopped by what the project
\* holds, and takes every row of it, in every table, one that a write left
\* behind after an earlier deletion included.
NothingIsLeftBehind ==
  \A c \in Caller :
    Is(c, "deciding") /\ calls[c].call.op = "delete project" /\ ~Stale(c) =>
      /\ Decided(c).verdict = "done"
      /\ \A r \in DOMAIN Written(tables, Decided(c)) : r[2] # calls[c].call.project
=============================================================================
