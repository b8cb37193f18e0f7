------------------------------ MODULE Sources ------------------------------
(***************************************************************************)
(* Where a project's material comes from (source_service.py): a source is  *)
(* registered by kind and location, told what Studio found out about it,   *)
(* pinned, classified, and no longer read; it is never deleted.            *)
(***************************************************************************)
EXTENDS Transactions

CONSTANTS
  Location,      \* kind and location
  SourceState,   \* words carried for Studio, not policed
  Revision,
  Disposed       \* the five dispositions ensure_source_disposition knows

SourceRow(l) == <<"source", l>>

\* uq_project_sources_location: a source that is there is brought up to date,
\* keeps its pin, and is read again.
Register(call, seen) ==
  LET row == SourceRow(call.location)
      new == [state |-> call.state, pinned |-> Nothing, disposition |-> call.disposition,
              retired |-> Nothing]
  IN IF row \notin DOMAIN seen THEN Insert(row, new)
     ELSE Update(row, Changed(
       [new EXCEPT !.pinned = seen[row].pinned,
          !.disposition = IF @ = Nothing THEN seen[row].disposition ELSE @], seen[row]))

\* One operation for each of record_state, pin and classify.
Describe(call, seen) ==
  LET row == call.row
  IN IF row \notin DOMAIN seen THEN Refused
     ELSE Update(row, CASE call.op = "record state"    -> Changed([state |-> call.state], seen[row])
                        [] call.op = "pin"             -> Changed([pinned |-> call.revision,
                                                                   state |-> call.state], seen[row])
                        [] call.op = "classify source" -> Changed([disposition |-> call.disposition],
                                                                  seen[row]))

\* Mutant of StopReading: a repeated call moves the time.
StopReadingAgain(call, seen) ==
  IF call.row \notin DOMAIN seen THEN Refused ELSE Update(call.row, [retired |-> call.at])
StopReading(call, seen) ==
  IF call.row \notin DOMAIN seen THEN Refused
  ELSE IF seen[call.row].retired # Nothing THEN Same
  ELSE Update(call.row, [retired |-> call.at])

ResumeReading(call, seen) ==
  IF call.row \notin DOMAIN seen THEN Refused
  ELSE IF seen[call.row].retired = Nothing THEN Same
  ELSE Update(call.row, [retired |-> Nothing])

RegisterRequests ==
  [op : {"register source"}, location : Location, state : SourceState,
   disposition : Disposed \cup {Nothing}]
SourceRequests(d, n) ==
  [op : {"record state"}, row : Kind("source", d), state : SourceState]
  \cup [op : {"pin"}, row : Kind("source", d), revision : Revision, state : SourceState]
  \cup [op : {"classify source"}, row : Kind("source", d), disposition : Disposed]
  \cup [op : {"stop reading"}, row : Kind("source", d), at : {n}]
  \cup [op : {"resume reading"}, row : Kind("source", d)]

Sourcing(call) == call.op \in {"register source", "record state", "pin", "classify source",
                               "stop reading", "resume reading"}
SourceReads(call) ==
  IF call.op = "register source" THEN {SourceRow(call.location)} ELSE {call.row}
SourceOutcome(call, seen) ==
  CASE call.op = "register source" -> Register(call, seen)
    [] call.op = "stop reading"    -> StopReading(call, seen)
    [] call.op = "resume reading"  -> ResumeReading(call, seen)
    [] OTHER                       -> Describe(call, seen)

-----------------------------------------------------------------------------
(* Properties *)

\* "When did we stop reading this" has one answer: only reading the source
\* again takes the time back, however many callers repeat the request.
FirstRetirementStands ==
  \A r \in Kind("source", tables) :
    tables[r].retired # Nothing => tables'[r].retired \in {tables[r].retired, Nothing}
=============================================================================
