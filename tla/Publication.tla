----------------------------- MODULE Publication -----------------------------
(***************************************************************************)
(* Writing a deliverable to a registered target (publication_service.py,   *)
(* render_service.py, providers/local.py).  Each step reads or writes one  *)
(* place; files are not under the database, and a file is staged beside    *)
(* its place and then moved.                                               *)
(***************************************************************************)
EXTENDS Setup, Deliverables

\* The files of a package: one for each section that holds anything, the area's first.
Paths == {"area", "unconfirmed"}
FirstOf(paths) == IF "area" \in paths THEN "area" ELSE "unconfirmed"
FileRow(prefix, path)   == <<"file", prefix, path>>
StagedRow(prefix, path) == <<"staged", prefix, path>>
AttemptRow(id) == <<"attempt", id>>

-----------------------------------------------------------------------------
(* Rendering: from what the record says of each file, its counts           *)

Section(content, path) == IF path = "area" THEN content.confirmed ELSE content.proposed
Files(row) == {p \in Paths : Section(row[2], p) # {}}
\* _markdown: two deliverables with equal counts render alike.
Rendered(row, path) ==
  [statements |-> Cardinality(Section(row[2], path)),
   confirmed  |-> IF path = "area" THEN Cardinality(row[2].confirmed) ELSE 0]

-----------------------------------------------------------------------------
(* publish                                                                 *)

Advance(call, op) == Goto([call EXCEPT !.op = op])
\* _record; every way out of publish ends here, unless an exception nobody
\* expects, or a crash, ends it first.
Fail(call, why) == Goto([call EXCEPT !.op = "record attempt", !.state = why])

ResolveTarget(call, seen) ==
  LET target == Resolve(call.name, "deliverable", seen)
  IN IF target = Nothing THEN Fail(call, "failed")
     ELSE Goto([call EXCEPT !.op = "authorize target", !.target = target,
                            !.connection = seen[target].connection,
                            !.prefix = seen[target].prefix])

\* available and unavailable_reason: a target without a connection is a local one.
Available(connection, seen) ==
  connection = Nothing \/ AuthorizationFor(connection, seen) \in Usable
Permit(call, seen) ==
  IF Available(call.connection, seen)
  THEN Advance(call, "render") ELSE Fail(call, "failed")

\* Mutant of Prefix: a place for the project's deliverables, not for each.
PrefixShared(call) == IF call.prefix # Nothing THEN call.prefix ELSE <<"deliverables">>
Prefix(call) == IF call.prefix # Nothing THEN call.prefix ELSE call.row

\* verify: a deliverable without pins and inputs is refused; what is rendered
\* carries the recorded hashes, so nothing else is.
Verified(row, seen) == seen[row].reproducible
\* Only the local provider is implemented.
Render(call, seen) ==
  IF call.row \notin DOMAIN seen THEN Refused
  ELSE IF ~Verified(call.row, seen) THEN Fail(call, "verification_failed")
  ELSE IF call.connection # Nothing THEN Fail(call, "failed")
  ELSE Goto([call EXCEPT !.op = IF Files(call.row) = {} THEN "record attempt" ELSE "stage",
                         !.state = "published", !.left = Files(call.row)])

\* LocalFilesystemProvider.publish, for one file: whether its place is taken
\* is asked before it is staged.
Place(call)  == FileRow(Prefix(call), FirstOf(call.left))
Beside(call) == StagedRow(Prefix(call), FirstOf(call.left))
Stage(call, seen) ==
  IF seen[Place(call)].bytes # Nothing /\ ~call.overwrite THEN Fail(call, "failed")
  ELSE Writes(NoRows, One(Beside(call), [bytes |-> Rendered(call.row, FirstOf(call.left))]),
              [call EXCEPT !.op = "move"])

\* staged.replace(target) raises when another publication moved it first, and
\* nothing records that.
Move(call, seen) ==
  LET bytes == seen[Beside(call)].bytes
  IN IF bytes = Nothing THEN Refused
     ELSE Writes(NoRows, Over(One(Place(call), [bytes |-> bytes]), One(Beside(call), [bytes |-> Nothing])),
            [call EXCEPT !.left = @ \ {FirstOf(@)},
               !.op = IF call.left = {FirstOf(call.left)} THEN "record attempt" ELSE "stage"])

RecordAttempt(call, seen) ==
  Insert(AttemptRow(call.id),
         [state |-> call.state, row |-> call.row, target |-> call.target,
          reference |-> IF call.state = "published" THEN Prefix(call) ELSE Nothing])

-----------------------------------------------------------------------------
(* What a client may ask                                                   *)

PublishRequests(d, n) ==
  [op : {"resolve"}, id : {n}, row : Kind("deliverable", d), name : TargetName \cup {Nothing},
   overwrite : BOOLEAN, target : {Nothing}, connection : {Nothing}, prefix : {Nothing},
   state : {Nothing}, left : {{}}]

Publishing(call) == call.op \in {"resolve", "authorize target", "render", "stage", "move",
                                 "record attempt"}
OnDisk(call) == call.op \in {"stage", "move"}
PublicationReads(call, d) ==
  CASE call.op = "resolve"          -> Kind("target", d)
    [] call.op = "authorize target" -> {call.connection}
    [] call.op = "render"           -> {call.row}
    [] call.op = "stage"            -> {Place(call)}
    [] OTHER                        -> {}
\* A rename is one step: it moves whatever the file holds then.
PublicationLocks(call) == IF call.op = "move" THEN {Beside(call)} ELSE {}
PublicationReadsLater(call) == PublicationLocks(call)
PublicationOutcome(call, seen) ==
  CASE call.op = "resolve"          -> ResolveTarget(call, seen)
    [] call.op = "authorize target" -> Permit(call, seen)
    [] call.op = "render"           -> Render(call, seen)
    [] call.op = "stage"            -> Stage(call, seen)
    [] call.op = "move"             -> Move(call, seen)
    [] call.op = "record attempt"   -> RecordAttempt(call, seen)

-----------------------------------------------------------------------------
(* Properties *)

\* An attempt recorded as published, by a target that does not name a place of
\* its own for everything, left all of its files there, and each stays as the record says it is,
\* through crashes halfway, publications at the same time, overwriting ones and
\* ones of other deliverables.
PublishedStaysWhole ==
  \A a \in Kind("attempt", tables) :
    LET row == tables[a].row
        prefix == tables[a].reference
    IN prefix # Nothing /\ tables[tables[a].target].prefix = Nothing =>
         \A path \in Files(row) :
           tables[FileRow(prefix, path)].bytes = Rendered(row, path)
=============================================================================
