--------------------------- MODULE Classification ---------------------------
(***************************************************************************)
(* Reading observations (classification_service.py over                    *)
(* classification_repository.py and domain/observation.py): spans of a     *)
(* message under a classifier's version, the operational records they      *)
(* imply, and what people decide about those.                              *)
(*                                                                         *)
(* Superseding the readings of other versions, looking for this version's  *)
(* and recording one are three transactions.                               *)
(***************************************************************************)
EXTENDS Transactions

CONSTANTS
  Message,
  Version,       \* versions of the classifier that may be running
  Finds,         \* version, message -> the spans it finds, a sequence
  Settler        \* who decides about operational records

SpanRow(m, v, i) == <<"span", m, v, i>>
UpdateRow(n, i)  == <<"update", n, i>>
SpansOf(m, v, d) == {r \in Kind("span", d) : r[2] = m /\ r[3] = v}

\* TIER_OF: "requirement" stands for the durable classes, "milestone" for the
\* operational ones and "greeting" for what is only evidence.
TierOf == [requirement |-> "durable", milestone |-> "operational", greeting |-> "evidence",
           unclassified |-> "evidence"]
\* Above CONFIDENT, between the two marks, and below UNCERTAIN.
Confidence == {"confident", "fair", "uncertain"}

\* route_for
RouteFor(class, confidence) ==
  CASE confidence = "uncertain" \/ class = "unclassified" -> "needs_review"
    [] confidence # "uncertain" /\ class = "greeting" -> "evidence_only"
    [] confidence = "fair" /\ TierOf[class] \in {"durable", "operational"} -> "needs_review"
    [] OTHER -> IF TierOf[class] = "durable" THEN "knowledge_candidate" ELSE "operational_update"

\* The status a project last recorded for a subject, whatever became of it.
Updates(subject, d) == {r \in Kind("update", d) : d[r].subject = subject}
\* Mutant of LatestStatus: what was rejected does not count.
LatestStanding(subject, d) ==
  LET known == {r \in Updates(subject, d) : d[r].reported # Nothing /\ d[r].state # "rejected"}
  IN IF known = {} THEN Nothing
     ELSE d[CHOOSE r \in known : \A s \in known : d[s].at <= d[r].at].reported
LatestStatus(subject, d) ==
  LET known == {r \in Updates(subject, d) : d[r].reported # Nothing}
  IN IF known = {} THEN Nothing
     ELSE d[CHOOSE r \in known : \A s \in known : d[s].at <= d[r].at].reported

\* _transition_type
TransitionType(current, reported) ==
  CASE reported = Nothing -> Nothing
    [] reported # Nothing /\ current = Nothing -> "initial"
    [] reported # Nothing /\ current = reported -> "restatement"
    [] current = "complete" /\ reported \notin {Nothing, "complete"} -> "regression"
    [] OTHER -> "progression"

-----------------------------------------------------------------------------
(* classify                                                                *)

\* supersede_older_versions: the current readings of any other version.
OtherVersions(version, seen) == {s \in DOMAIN seen : s[3] # version /\ seen[s].retired = Nothing}
\* _supersede_earlier_versions
Supersede(call, seen) ==
  Writes(NoRows, [r \in OtherVersions(call.version, seen) |-> [retired |-> call.version]],
         [call EXCEPT !.op = "existing"])

\* _existing: a reading of this version, superseded or not, is a replay.
Existing(call, seen) ==
  IF DOMAIN seen = {} THEN Goto([call EXCEPT !.op = "persist"]) ELSE Same

\* _operational_record: a report of an agent, proposed.  The later spans of one
\* reading see the records of the earlier ones.
OperationalRecord(span, call, current, at) ==
  [message |-> call.message, version |-> call.version, subject |-> span.subject,
   reported |-> span.status, current |-> current, type |-> TransitionType(current, span.status),
   state |-> "proposed", settled |-> <<>>, at |-> at]

Implies(span) == RouteFor(span.class, span.confidence) = "operational_update"
RecordAfter(span, call, d) ==
  OperationalRecord(span, call,
    IF span.subject = Nothing THEN Nothing ELSE LatestStatus(span.subject, d),
    Cardinality(Kind("update", d)) + 1)
Recorded(call, d) ==
  LET spans == Finds[call.version][call.message]
      first[n \in 0 .. Len(spans)] ==
        IF n = 0 THEN NoRows
        ELSE LET before == first[n - 1]
             IN IF Implies(spans[n])
                THEN Over(One(UpdateRow(call.id, n), RecordAfter(spans[n], call, Over(before, d))),
                          before)
                ELSE before
  IN first[Len(spans)]

\* _persist: every span and record of a reading in one transaction.
Persist(call, seen) ==
  LET spans == Finds[call.version][call.message]
      read  == [r \in {SpanRow(call.message, call.version, i) : i \in DOMAIN spans} |->
                  [class |-> spans[r[4]].class, retired |-> Nothing]]
  IN Writes(Over(read, Recorded(call, seen)), NoRows, Nothing)

-----------------------------------------------------------------------------
(* settle                                                                  *)

\* _ALLOWED_OPERATIONAL_TRANSITIONS
OperationalMoves == [proposed |-> {"active", "rejected", "expired"},
                     active |-> {"resolved", "expired", "rejected"},
                     resolved |-> {}, expired |-> {}, rejected |-> {}]

Settle(call, seen) ==
  LET row == call.row
      new == [state |-> call.target,
              settled |-> Append(seen[row].settled, <<seen[row].state, call.target, call.by>>)]
  IN IF row \in DOMAIN seen /\ call.target \in OperationalMoves[seen[row].state]
     THEN Update(row, Changed(new, seen[row])) ELSE Refused

-----------------------------------------------------------------------------
(* What a client may ask: processes of different versions may be running   *)

ClassifyRequests(n) == [op : {"supersede"}, id : {n}, message : Message, version : Version]
SettleRequests(d) ==
  [op : {"settle"}, row : Kind("update", d), target : DOMAIN OperationalMoves, by : Settler]

Classifying(call) == call.op \in {"supersede", "existing", "persist", "settle"}
ClassificationReads(call, d) ==
  CASE call.op = "supersede" -> {r \in Kind("span", d) : r[2] = call.message}
    [] call.op = "existing"  -> SpansOf(call.message, call.version, d)
    [] call.op = "persist"   -> Kind("update", d)
    [] call.op = "settle"    -> {call.row}
ClassificationOutcome(call, seen) ==
  CASE call.op = "supersede" -> Supersede(call, seen)
    [] call.op = "existing"  -> Existing(call, seen)
    [] call.op = "persist"   -> Persist(call, seen)
    [] call.op = "settle"    -> Settle(call, seen)

\* The tool wants the person who decided named.
ToolSettleRequests(d) == {q \in SettleRequests(d) : q.by # Nothing}

-----------------------------------------------------------------------------
(* What a reader is shown                                                  *)

ActiveStates == {"proposed", "active"}
\* filtered: the records in the states asked for, the active ones by default.
Records(states, subject, d) ==
  {r \in Kind("update", d) :
     /\ d[r].state \in IF states = {} THEN ActiveStates ELSE states
     /\ subject \in {Nothing, d[r].subject}}
OperationalShown(states, subject, d) == {<<r, d[r]>> : r \in Records(states, subject, d)}
\* for_project: the spans of the reading that was not superseded.
CurrentSpans(tiers, d) ==
  {r \in Kind("span", d) : d[r].retired = Nothing /\ (tiers # {} => TierOf[d[r].class] \in tiers)}

\* _tier_report: a tier that is left out is named.
Tiers == {"durable", "operational", "evidence"}
Requested(tiers) == IF tiers = {} THEN {"durable", "operational"} ELSE tiers
TierReport(tiers, d) ==
  [included |-> Requested(tiers), excluded |-> Tiers \ Requested(tiers),
   operational |-> IF "operational" \in Requested(tiers) THEN Records({}, Nothing, d) ELSE {},
   evidence |-> IF "evidence" \in Requested(tiers) THEN CurrentSpans({"evidence"}, d) ELSE {}]

\* What a submission is told of its reading; a replay names no records.
OfTier(tier, spans) == {i \in DOMAIN spans : TierOf[spans[i].class] = tier}
HintAgreed(hint, spans) == \E i \in DOMAIN spans : spans[i].class = hint
ReadingTold(version, message, replayed, hint) ==
  LET spans  == Finds[version][message]
      routed == IF replayed THEN {} ELSE {i \in DOMAIN spans : Implies(spans[i])}
  IN [replayed |-> replayed, durable |-> Cardinality(OfTier("durable", spans)),
      operational |-> Cardinality(routed), evidence |-> Cardinality(OfTier("evidence", spans)),
      unclassified |-> Cardinality({i \in DOMAIN spans : spans[i].class = "unclassified"}),
      warned |-> OfTier("operational", spans) # {} /\ routed = {} /\ ~replayed,
      agreed |-> hint # Nothing /\ HintAgreed(hint, spans)]

-----------------------------------------------------------------------------
(* Properties *)

\* A version reads a message once: all of its spans are there with one
\* operational record for each that implies one, or none of either.
ReadOnce ==
  \A m \in Message, v \in Version :
    LET spans == Finds[v][m]
        records == {r \in Kind("update", tables) : tables[r].message = m /\ tables[r].version = v}
    IN \/ SpansOf(m, v, tables) = {} /\ records = {}
       \/ /\ SpansOf(m, v, tables) = {SpanRow(m, v, i) : i \in DOMAIN spans}
          /\ Cardinality(records) = Cardinality({i \in DOMAIN spans :
               RouteFor(spans[i].class, spans[i].confidence) = "operational_update"})

\* However often and by however many processes messages are read, a version reads
\* each once and whole.  Where stale reads are refused, the records of a subject
\* are one history: each names as current the status reported by the last one
\* before it that reported any, whatever people decided about either in between,
\* and the settlements of each lead from proposed to the state it is in, step by
\* step.
StatusesChain ==
  ReadOnce /\ (Serializable =>
    \A r \in Kind("update", tables) :
      LET row == tables[r]
          before == {tables[s] : s \in {t \in Updates(row.subject, tables) : tables[t].at < row.at}}
          told == {b \in before : b.reported # Nothing}
          steps == <<<<Nothing, "proposed", Nothing>>>> \o row.settled
      IN /\ row.subject # Nothing =>
              IF told = {} THEN row.current = Nothing
              ELSE \E b \in told : row.current = b.reported /\ \A a \in told : a.at <= b.at
         /\ row.state = steps[Len(steps)][2]
         /\ \A i \in 1..Len(row.settled) : row.settled[i][1] = steps[i][2])
=============================================================================
