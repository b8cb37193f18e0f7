---------------------------- MODULE Deliverables ----------------------------
(***************************************************************************)
(* What a project hands over (assembly_service.py, deliverable_service.py  *)
(* over domain/deliverables.py).  A package is put together from several   *)
(* reads, each in a transaction of its own, and recorded under the hash of *)
(* what it says; the record is superseded or withdrawn, never changed.     *)
(***************************************************************************)
EXTENDS Assumptions

CONSTANT KnowledgeItem   \* statements of the areas a purpose wants

ProjectRow == <<"project">>
DeliverableRow(content) == <<"deliverable", content>>
EmptyProject == [revision |-> 0, confirmed |-> {}, proposed |-> {}]

-----------------------------------------------------------------------------
(* The project's knowledge: every change of it bumps the revision in the   *)
(* transaction that makes it, and the bump locks the row.                  *)

Change(call, seen) ==
  LET was == seen[ProjectRow]
      new == CASE call.change = "propose" -> [was EXCEPT !.proposed = @ \cup {call.item}]
               [] call.change = "confirm" -> [was EXCEPT !.proposed = @ \ {call.item},
                                                         !.confirmed = @ \cup {call.item}]
               [] call.change = "reject"  -> [was EXCEPT !.proposed = @ \ {call.item},
                                                         !.confirmed = @ \ {call.item}]
  IN IF [new EXCEPT !.revision = @ + 1] = [was EXCEPT !.revision = @ + 1] THEN Refused
     ELSE Update(ProjectRow, Changed([new EXCEPT !.revision = @ + 1], was))

-----------------------------------------------------------------------------
(* assemble, a step for each transaction it makes                          *)

Step(op, call, content) == [op |-> op, include |-> call.include, content |-> content]

\* is_stale reads this before anything it describes.
ReadRevision(call, seen) ==
  Goto(Step("read confirmed", call, [EmptyProject EXCEPT !.revision = seen[ProjectRow].revision]))

\* The blueprint: what is confirmed, by area.
ReadConfirmed(call, seen) ==
  Goto(Step(IF call.include THEN "read proposed" ELSE "read pins", call,
            [call.content EXCEPT !.confirmed = seen[ProjectRow].confirmed]))

\* Mutant of ReadProposed: the revision is read last.
ReadProposedAndRevision(call, seen) ==
  Goto(Step("read pins", call, [call.content EXCEPT !.proposed = seen[ProjectRow].proposed,
                                                 !.revision = seen[ProjectRow].revision]))
\* _proposed_for; a statement confirmed since the blueprint was read is in
\* neither section, one no longer confirmed in both.
ReadProposed(call, seen) ==
  Goto(Step("read pins", call, [call.content EXCEPT !.proposed = seen[ProjectRow].proposed]))

\* _provisional: what the package rests on, read after the package is made.
Provisional(seen) == [r \in ActiveAssumptions(seen) |-> seen[r].state]
ReadPins(call, seen) ==
  Goto([op |-> "record deliverable", content |-> call.content, pins |-> Provisional(seen)])

\* The row; under another recording's hash the pins of that one stay.
DeliverableAt(call) ==
  [state |-> "recorded", by |-> Nothing, reproducible |-> TRUE, pins |-> call.pins]
\* record: the identity hash covers the revision and every statement, and the
\* unique index gives a second recording the first one's row back.
RecordDeliverable(call) == Insert(DeliverableRow(call.content), DeliverableAt(call))

IsStaleAgainst(revision, row) == row[2].revision < revision

-----------------------------------------------------------------------------
(* supersede and withdraw                                                  *)

\* _ALLOWED_TRANSITIONS
DeliverableMoves == [recorded |-> {"superseded", "withdrawn"}, superseded |-> {}, withdrawn |-> {}]
MayMove(row, state, seen) == row \in DOMAIN seen /\ state \in DeliverableMoves[seen[row].state]

\* The replacement has to be there; what state it is in is not looked at.
ReplaceDeliverable(call, seen) ==
  IF MayMove(call.row, "superseded", seen) /\ call.replacement \in DOMAIN seen
  THEN Update(call.row, [state |-> "superseded", by |-> call.replacement]) ELSE Refused

WithdrawDeliverable(call, seen) ==
  IF MayMove(call.row, "withdrawn", seen) THEN Update(call.row, [state |-> "withdrawn"]) ELSE Refused

-----------------------------------------------------------------------------
(* What a client may ask                                                   *)

ChangeRequests ==
  [op : {"change"}, change : {"propose", "confirm", "reject"}, item : KnowledgeItem]
AssembleRequests == [op : {"read revision"}, include : BOOLEAN]
EndRequests(d) ==
  [op : {"replace"}, row : Kind("deliverable", d), replacement : Kind("deliverable", d)]
  \cup [op : {"withdraw"}, row : Kind("deliverable", d)]

Delivering(call) == call.op \in {"change", "read revision", "read confirmed", "read proposed", "read pins",
                                 "record deliverable", "replace", "withdraw"}
DeliverableReads(call, d) ==
  CASE call.op \in {"read revision", "read confirmed", "read proposed"} -> {ProjectRow}
    [] call.op = "read pins" -> ActiveAssumptions(d)
    [] call.op = "replace" -> {call.row, call.replacement}
    [] call.op = "withdraw"  -> {call.row}
    [] OTHER                 -> {}
DeliverableLocks(call)      == IF call.op = "change" THEN {ProjectRow} ELSE {}
DeliverableReadsLater(call) == DeliverableLocks(call)
DeliverableOutcome(call, seen) ==
  CASE call.op = "change"         -> Change(call, seen)
    [] call.op = "read revision"  -> ReadRevision(call, seen)
    [] call.op = "read confirmed" -> ReadConfirmed(call, seen)
    [] call.op = "read proposed"  -> ReadProposed(call, seen)
    [] call.op = "read pins"      -> ReadPins(call, seen)
    [] call.op = "record deliverable" -> RecordDeliverable(call)
    [] call.op = "replace"      -> ReplaceDeliverable(call, seen)
    [] call.op = "withdraw"       -> WithdrawDeliverable(call, seen)

-----------------------------------------------------------------------------
(* Properties *)

\* What a recorded deliverable says is compared with the project by revision
\* alone, and that is enough: a deliverable that is not reported as stale says
\* what the project says, although what it says was read in pieces while the
\* project changed.
StalenessIsNoticed ==
  \A r \in Kind("deliverable", tables) :
    LET project == tables[ProjectRow]
    IN \/ IsStaleAgainst(project.revision, r)
       \/ /\ r[2].confirmed = project.confirmed
          /\ r[2].proposed \in {{}, project.proposed}

\* What was decided about an assumption or a deliverable for good stays as it
\* was decided and by whom: of decisions that are on their way together one is
\* made, and a deliverable's replacement is named once.
EndsStand ==
  \A r \in Kind("assumption", tables) \cup Kind("deliverable", tables) :
    tables[r].state \notin ActiveAssumption \cup {"recorded"} => tables'[r] = tables[r]
=============================================================================
