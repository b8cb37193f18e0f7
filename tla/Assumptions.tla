----------------------------- MODULE Assumptions -----------------------------
(***************************************************************************)
(* What a project proceeds on without knowing (assumption_service.py over  *)
(* domain/assumptions.py): recorded as proposed, then accepted, rejected   *)
(* or retired.                                                             *)
(***************************************************************************)
EXTENDS Transactions

CONSTANT Actor

AssumptionRow(n) == <<"assumption", n>>
ActiveAssumption == {"proposed", "accepted"}

\* Mutant of AssumptionMoves: a rejection can be taken back.
AssumptionMovesBack == [proposed |-> {"accepted", "rejected", "superseded"},
                    accepted |-> {"retired", "superseded", "rejected"},
                    rejected |-> {"accepted"}, superseded |-> {}, retired |-> {}]
\* _ALLOWED
AssumptionMoves == [proposed |-> {"accepted", "rejected", "superseded"},
                    accepted |-> {"retired", "superseded", "rejected"},
                    rejected |-> {}, superseded |-> {}, retired |-> {}]

\* What must be disclosed: by its consequence, "unsafe" standing for the
\* architectural too, or because it cannot be taken back.  It may not be
\* recorded as one never to be looked at again.
Material(call)  == call.consequence = "unsafe" \/ ~call.reversible
Recordable(call) == Material(call) => call.revisit # "never"
RecordAssumption(call) ==
  IF Recordable(call)
  THEN Insert(AssumptionRow(call.id),
              [state |-> "proposed", by |-> Nothing, origin |-> call.origin,
               material |-> Material(call)])
  ELSE Refused

\* _transition: whoever moves it is stored as the one who accepted it; a
\* retirement names nobody.
MoveAssumption(call, seen) ==
  LET row == call.row
      new == [state |-> call.target, by |-> IF call.by = Nothing THEN seen[row].by ELSE call.by]
  IN IF row \in DOMAIN seen /\ call.target \in AssumptionMoves[seen[row].state]
     THEN Update(row, Changed(new, seen[row])) ELSE Refused

Risks == [op : {"assume"}, consequence : {"rework", "unsafe"}, reversible : BOOLEAN,
          revisit : {"never", "on_request"}]
From(risk, origin, n) == Over([id |-> n, origin |-> origin], risk)
\* What a program proceeds on is never what a person said: the HTTP interface
\* takes any other origin, the tool derives it from whether it names evidence.
RecordRequests(n) ==
  {From(risk, origin, n) : risk \in Risks, origin \in {"kae_inferred", "unresolved_alternative"}}
ToolRecordRequests(n) ==
  {From(risk, IF evidence THEN "kae_recommended_accepted" ELSE "kae_inferred", n) :
     risk \in Risks, evidence \in BOOLEAN}
\* Both interfaces accept, by a person they name; none rejects or retires.
AcceptRequests(d) ==
  [op : {"move assumption"}, row : Kind("assumption", d), target : {"accepted"}, by : Actor]
EndAssumptionRequests(d) ==
  [op : {"move assumption"}, row : Kind("assumption", d), target : {"rejected"}, by : Actor]
  \cup [op : {"move assumption"}, row : Kind("assumption", d), target : {"retired"}, by : {Nothing}]
AssumptionRequests(d, n) ==
  RecordRequests(n) \cup ToolRecordRequests(n) \cup AcceptRequests(d) \cup EndAssumptionRequests(d)

Assuming(call) == call.op \in {"assume", "move assumption"}
AssumptionReads(call) == IF call.op = "assume" THEN {} ELSE {call.row}
AssumptionOutcome(call, seen) ==
  IF call.op = "assume" THEN RecordAssumption(call) ELSE MoveAssumption(call, seen)

\* list_for_project: what a briefing may show as current.
ActiveAssumptions(d) == {r \in Kind("assumption", d) : d[r].state \in ActiveAssumption}

=============================================================================
