--------------------------- MODULE SynthesisRuns ---------------------------
(***************************************************************************)
(* The synthesized model and its attention queue (synthesis_service.py     *)
(* over synthesis_repository.py), written by synthesis runs and by people. *)
(*                                                                         *)
(* Every call of SynthesisService is one transaction about one record: it  *)
(* loads the record, decides, and writes the attributes that changed.  A   *)
(* run reads the evidence in a transaction of its own, plans, and makes    *)
(* its calls one after the other, recording the run's event last; the      *)
(* first refusal ends it with what it wrote so far in place.               *)
(***************************************************************************)
EXTENDS SynthesisPlans

CONSTANTS
  Runner,      \* synthesis runs that may be in progress at once
  Person,      \* requests of people
  Domains,     \* the domains to explore, one in each behaviour
  Beginnings,  \* evidence a project may start from
  Approvals,   \* the sets of wordings a judge may approve
  MaxRuns,     \* bound: runs ever started
  MaxRequests, \* bound: requests of people
  MaxChanges,  \* bound: changes of the evidence
  Isolation    \* the isolation levels to consider

ASSUME RunsAssumption ==
  /\ MaxRuns \in Nat /\ MaxRequests \in Nat /\ MaxChanges \in Nat
  /\ Domains \subseteq Domain /\ Runner \cap Person = {}

VARIABLES
  db,        \* the records of the model: row -> its attributes, for rows that exist
  revision,  \* the project's knowledge revision
  evidence,  \* Item -> kind, lifecycle and wording
  calls,     \* Runner and Person -> the calls it has to make and what it loaded
  domain,    \* the domain the runs of this behaviour synthesize
  left,      \* how many runs, requests and changes may still begin
  finished,  \* history: the plan of the last run that recorded its event
  clean,     \* history: nothing else was written since that run began
  recorded,  \* history: the plans whose events were recorded
  isolation

vars == <<db, revision, evidence, calls, domain, left, finished, clean, recorded, isolation>>

Caller == Runner \cup Person
Serializable == isolation = "serializable"
Absent == [absent |-> TRUE]
At(row) == IF row \in DOMAIN db THEN db[row] ELSE Absent
Objects == {k \in Range(KeyOrder) : <<"object", k>> \in DOMAIN db}

Idle == [phase |-> "idle", todo |-> <<>>, plan |-> <<>>, seen |-> <<>>, row |-> Absent,
         alone |-> TRUE]

-----------------------------------------------------------------------------
(* One call on the record it loaded                                        *)

Same == [verdict |-> "same", row |-> Absent]
Refused == [verdict |-> "refused", row |-> Absent]
Write(row) == [verdict |-> "write", row |-> row]

\* Mutant of PutObject: the authority is not looked at.
PutObjectOver(call, row) ==
  CASE row = Absent         -> Write([text |-> call.text, authority |-> "working_model"])
    [] row # Absent /\ row.text = call.text -> Same
    [] OTHER -> Write([row EXCEPT !.text = call.text])
PutObject(call, row) ==
  CASE row = Absent         -> Write([text |-> call.text, authority |-> "working_model"])
    [] row # Absent /\ row.text = call.text -> Same
    [] row # Absent /\ row.text # call.text /\ row.authority = "human" -> Refused
    [] OTHER -> Write([row EXCEPT !.text = call.text])

CorrectObject(call, row) ==
  IF row = Absent THEN Refused
  ELSE IF row = [text |-> call.text, authority |-> "human"] THEN Same
  ELSE Write([text |-> call.text, authority |-> "human"])

\* Mutant of BindEvidence: binding a pair again is a conflict.
BindEvidenceOnce(call, row) == IF row = Absent THEN Write([text |-> call.text]) ELSE Refused
BindEvidence(call, row) ==
  IF row = Absent THEN Write([text |-> call.text])
  ELSE IF row.text = call.text THEN Same ELSE Refused

\* A role, an attribution and a mechanism are written whatever is there already.
SetEvidenceRole(call, row)   == Write([text |-> call.text])
RecordAttribution(call, row) == Write([text |-> call.text])
RecordMechanism(call, row)   == Write([text |-> call.text])

\* Cells, effects and criteria are written when they read differently.
Upsert(call, row) ==
  IF row # Absent /\ row.text = call.text THEN Same ELSE Write([text |-> call.text])
AssignResponsibility(call, row)   == Upsert(call, row)
RecordConstraintEffect(call, row) == Upsert(call, row)
RecordCriterion(call, row)        == Upsert(call, row)

\* put_attention: an item under this identity is rewritten, whatever its status.
PutAttention(call, row) ==
  IF row = Absent THEN Write([text |-> call.text, status |-> "open"])
  ELSE IF row.text = call.text THEN Same ELSE Write([row EXCEPT !.text = call.text])

\* _ATTENTION_TRANSITIONS
AttentionMoves == [open |-> {"deferred", "resolved", "dismissed"},
                   deferred |-> {"open", "resolved", "dismissed"},
                   resolved |-> {}, dismissed |-> {}]
MoveAttention(call, row) ==
  IF row = Absent THEN Refused
  ELSE IF row.status = call.text THEN Same
  ELSE IF call.text \in AttentionMoves[row.status] THEN Write([row EXCEPT !.status = call.text])
  ELSE Refused

RecordChange(call, row) ==
  IF row = Absent THEN Write([text |-> call.text])
  ELSE IF row.text = call.text THEN Same ELSE Refused

Decide(call, row) ==
  CASE call.op = "put"     -> PutObject(call, row)
    [] call.op = "correct" -> CorrectObject(call, row)
    [] call.op = "bind"    -> BindEvidence(call, row)
    [] call.op = "role"    -> SetEvidenceRole(call, row)
    [] call.op = "attribute" -> RecordAttribution(call, row)
    [] call.op = "mechanism" -> RecordMechanism(call, row)
    [] call.op = "assign"  -> AssignResponsibility(call, row)
    [] call.op = "effect"  -> RecordConstraintEffect(call, row)
    [] call.op = "criterion" -> RecordCriterion(call, row)
    [] call.op = "attend"  -> PutAttention(call, row)
    [] call.op = "move"    -> MoveAttention(call, row)
    [] call.op = "record"  -> RecordChange(call, row)

\* The unit of work updates the attributes whose value changed.
Merged(now, was, new) ==
  IF was = Absent THEN new
  ELSE [f \in DOMAIN new |-> IF new[f] # was[f] THEN new[f] ELSE now[f]]

\* A row that was absent when it was loaded and is there by now violates its
\* unique constraint.
Collides(c) == calls[c].row = Absent /\ Head(calls[c].todo).row \in DOMAIN db

-----------------------------------------------------------------------------
(* Reading                                                                 *)

Read(op) == {row[2] : row \in {r \in DOMAIN db : r[1] = op}}
\* _criteria_by_statement and _attributions_by_statement.
Beside(compared, judged, approved, roles) ==
  [compared |-> compared, judged |-> judged, approved |-> approved, roles |-> roles,
   criteria |-> Read("criterion"), enforced |-> Read("mechanism"),
   attributed |-> Read("attribution"),
   standing |-> {k \in Read("attribution") :
     LET source == db[<<"attribution", k>>].text
     IN source = Nothing \/ At(<<"object", source>>) = Absent
        \/ db[<<"object", source>>].authority = "human"}]

\* What the providers make of a run: whether an embedder answers, and a judge.
Provided == {p \in [compared : BOOLEAN, judged : BOOLEAN, approved : {{}} \cup Approvals] :
               /\ ~p.judged => p.approved = {}
               /\ domain # "goal" => ~p.judged
               /\ domain \notin {"goal", "unknown"} => ~p.compared}

\* list_roles: absence of a role remains active.
Roles == [i \in Item |-> IF <<"role", i>> \in DOMAIN db THEN db[<<"role", i>>].text ELSE "active"]

ReadEvidence(r) ==
  /\ calls[r].phase = "idle" /\ left.runs > 0
  /\ calls' = [calls EXCEPT ![r] = [Idle EXCEPT !.phase = "planning",
                                               !.seen = [evidence |-> evidence, roles |-> Roles]]]
  /\ left' = [left EXCEPT !.runs = @ - 1]
  /\ UNCHANGED <<db, revision, evidence, domain, finished, clean, recorded, isolation>>

\* Requirements and rules read what people recorded in a second transaction.
PlanRun(r) ==
  /\ calls[r].phase = "planning"
  /\ \E p \in Provided :
       LET seen == calls[r].seen
           plan == PlanFor(domain, seen.evidence,
                           Beside(p.compared, p.judged, p.approved, seen.roles))
       IN calls' = [calls EXCEPT ![r].phase = "ready", ![r].plan = plan, ![r].todo = plan,
                                 ![r].seen = <<>>]
  /\ UNCHANGED <<db, revision, evidence, domain, left, finished, clean, recorded, isolation>>

\* What a person may ask for, of the objects and items there are.
Requests ==
  {CorrectTo(k, s) : k \in Objects, s \in Statement}
  \cup {Put(Key[s], s) : s \in Statement}
  \cup {Bind(k, i, kind) : k \in Objects, i \in {j \in Item : evidence[j].life # "absent"},
                           kind \in {"supports", "contradicts"}}
  \cup {Role(i, "resolved") : i \in {j \in Item : evidence[j].life # "absent" /\ domain = "unknown"}}
  \cup {[op |-> "move", row |-> row, text |-> status] :
          row \in {r \in DOMAIN db : r[1] = "attention"}, status \in DOMAIN AttentionMoves}
  \cup {[op |-> "criterion", row |-> <<"criterion", k>>, text |-> "done"] :
          k \in {j \in Objects : domain = "requirement"}}
  \cup {[op |-> "mechanism", row |-> <<"mechanism", k>>, text |-> "gate"] :
          k \in {j \in Objects : domain = "rule"}}
  \cup {[op |-> "attribute", row |-> <<"attribution", k>>, text |-> source] :
          k \in {j \in Objects : domain = "rule"}, source \in Objects \cup {Nothing}}

Ask(p) ==
  /\ calls[p].phase = "idle" /\ left.requests > 0
  /\ \E call \in Requests :
       calls' = [calls EXCEPT ![p] = [Idle EXCEPT !.phase = "ready", !.todo = <<call>>]]
  /\ left' = [left EXCEPT !.requests = @ - 1]
  /\ UNCHANGED <<db, revision, evidence, domain, finished, clean, recorded, isolation>>

\* Extraction and review go on beside the runs (module KnowledgeReview).
EvidenceMoves ==
  /\ left.changes > 0
  /\ \E i \in Item, life \in {"proposed", "validated", "rejected"} :
       /\ <<evidence[i].life, life>> \in {<<"absent", "proposed">>, <<"proposed", "validated">>,
                                          <<"proposed", "rejected">>}
       /\ evidence' = [evidence EXCEPT ![i].life = life]
  /\ left' = [left EXCEPT !.changes = @ - 1]
  /\ UNCHANGED <<db, revision, calls, domain, finished, clean, recorded, isolation>>

-----------------------------------------------------------------------------
(* The calls                                                               *)

Load(c) ==
  /\ calls[c].phase = "ready"
  /\ calls' = [calls EXCEPT ![c].phase = "loaded", ![c].row = At(Head(calls[c].todo).row)]
  /\ UNCHANGED <<db, revision, evidence, domain, left, finished, clean, recorded, isolation>>

\* SQLSTATE 40001: the call is made again.
Retry(c) ==
  /\ Serializable /\ calls[c].phase = "loaded"
  /\ calls[c].row # At(Head(calls[c].todo).row)
  /\ calls' = [calls EXCEPT ![c].phase = "ready", ![c].row = Absent]
  /\ UNCHANGED <<db, revision, evidence, domain, left, finished, clean, recorded, isolation>>

\* The caller goes on to its next call; the others are no longer alone when
\* this one wrote.
Advance(c, wrote) ==
  LET rest == Tail(calls[c].todo)
      over == rest = <<>>
  IN /\ calls' = [d \in Caller |->
          IF d = c THEN IF over THEN Idle
                        ELSE [calls[c] EXCEPT !.phase = "ready", !.todo = rest, !.row = Absent]
          ELSE IF wrote /\ calls[d].phase # "idle" THEN [calls[d] EXCEPT !.alone = FALSE]
          ELSE calls[d]]
     /\ finished' = IF over /\ c \in Runner THEN calls[c].plan ELSE finished
     /\ clean' = IF over /\ c \in Runner THEN calls[c].alone
                 ELSE clean /\ (wrote => calls[c].plan = finished)
     /\ recorded' = IF over /\ c \in Runner THEN recorded \cup {calls[c].plan} ELSE recorded

Commit(c) ==
  LET call == Head(calls[c].todo)
      decided == Decide(call, calls[c].row)
  IN /\ calls[c].phase = "loaded"
     /\ Serializable => calls[c].row = At(call.row)
     /\ ~Collides(c)
     /\ \/ decided.verdict = "same" /\ Advance(c, FALSE) /\ UNCHANGED <<db, revision>>
        \/ /\ decided.verdict = "write"
           /\ LET new == Merged(At(call.row), calls[c].row, decided.row)
              IN db' = [row \in DOMAIN db \cup {call.row} |-> IF row = call.row THEN new ELSE db[row]]
           /\ revision' = IF call.op = "record" THEN revision ELSE revision + 1
           /\ Advance(c, TRUE)
     /\ UNCHANGED <<evidence, domain, left, isolation>>

\* Mutant of Refuse: a run passes over the call that was refused.
RefuseAndGoOn(c) ==
  /\ calls[c].phase = "loaded"
  /\ Decide(Head(calls[c].todo), calls[c].row).verdict = "refused" \/ (Collides(c) /\ ~Serializable)
  /\ Advance(c, FALSE)
  /\ UNCHANGED <<db, revision, evidence, domain, left, isolation>>
\* The call raises, and with it the run: an override or idempotency conflict,
\* an unknown record, a unique constraint.
Refuse(c) ==
  /\ calls[c].phase = "loaded"
  /\ \/ Decide(Head(calls[c].todo), calls[c].row).verdict = "refused"
     \/ Collides(c) /\ ~Serializable
  /\ calls' = [calls EXCEPT ![c] = Idle]
  /\ UNCHANGED <<db, revision, evidence, domain, left, finished, clean, recorded, isolation>>

\* The process that makes the calls dies between two of them.
Abandon(r) ==
  /\ calls[r].phase # "idle"
  /\ calls' = [calls EXCEPT ![r] = Idle]
  /\ UNCHANGED <<db, revision, evidence, domain, left, finished, clean, recorded, isolation>>

-----------------------------------------------------------------------------
Init ==
  /\ db = <<>> /\ revision = 0
  /\ domain \in Domains /\ evidence \in Beginnings[domain]
  /\ calls = [c \in Caller |-> Idle]
  /\ left = [runs |-> MaxRuns, requests |-> MaxRequests, changes |-> MaxChanges]
  /\ finished = <<>> /\ clean = FALSE /\ recorded = {}
  /\ isolation \in Isolation

Next ==
  \/ \E r \in Runner : ReadEvidence(r) \/ PlanRun(r) \/ Abandon(r)
  \/ \E p \in Person : Ask(p)
  \/ \E c \in Caller : Load(c) \/ Retry(c) \/ Commit(c) \/ Refuse(c)
  \/ EvidenceMoves

Spec == Init /\ [][Next]_vars

-----------------------------------------------------------------------------
(* Properties *)

Makes(c, ops, row) ==
  /\ calls[c].phase = "loaded" /\ calls'[c] # calls[c]
  /\ Head(calls[c].todo).op \in ops /\ Head(calls[c].todo).row = row

\* What a person settled stays settled where stale reads are refused: the
\* wording of a human-authoritative object changes by a correction alone and
\* keeps its authority, and an attention item that was closed stays closed,
\* whatever runs were in progress ("working-model synthesis cannot overwrite it").
SettledStaysSettled ==
  [][Serializable =>
       \A row \in DOMAIN db :
         /\ row[1] = "object" /\ db[row].authority = "human" /\ db'[row] # db[row]
              => /\ db'[row].authority = "human"
                 /\ \E c \in Caller : Makes(c, {"correct"}, row)
         /\ row[1] = "attention" /\ db[row].status \in {"resolved", "dismissed"}
              => db'[row].status = db[row].status]_vars

Reworded(plan) ==
  \E i, j \in DOMAIN plan : plan[i].op = "put" /\ plan[j].op = "put"
                            /\ plan[i].row = plan[j].row /\ plan[i].text # plan[j].text

\* A run over evidence that reads as it did, with nothing else written since
\* the last one began, is never refused and leaves every record as it is
\* ("Rerunning changes nothing"), unless two of its candidates have one
\* identity key.
RerunIsQuiet ==
  \A r \in Runner :
    LET again == calls[r]
    IN again.plan # <<>> /\ again.plan = finished /\ clean /\ again.alone /\ ~Reworded(finished)
         => \A j \in DOMAIN again.todo :
              LET decided == Decide(again.todo[j], At(again.todo[j].row))
              IN \/ decided.verdict = "same"
                 \/ decided.verdict = "write" /\ decided.row = At(again.todo[j].row)

\* The event of a run is recorded after everything the run planned: each
\* object, link, cell and attention item of a recorded plan exists, though
\* any run may be refused, race another one or die half-way.
EventMeansWritten ==
  \A plan \in recorded : \A j \in DOMAIN plan :
    /\ plan[j].row \in DOMAIN db
    /\ plan[j].op \in {"bind", "record"} => db[plan[j].row].text = plan[j].text
=============================================================================
