----------------------------- MODULE Submissions -----------------------------
(***************************************************************************)
(* How material enters (ingestion_service.py, kae_submit_observation in    *)
(* mcp/tools.py, record_message and enqueue_run in memory_service.py): a   *)
(* session, then for each piece a message and a run to read it, each in a  *)
(* transaction of its own, each under a key that makes a retry safe.       *)
(***************************************************************************)
EXTENDS Sources, FiniteSetsExt

CONSTANTS
  Bodies,     \* document -> its chunks, in order
  MaxChunks,  \* the limits on the chunks of a document that callers set
  Submitter   \* who hands material in; part of what a key stands for

\* A document without text, or a limit below one, is refused.
ASSUME SubmissionsAssumption ==
  /\ MaxChunks \subseteq Nat \ {0}
  /\ \A document \in DOMAIN Bodies :
       Len(Bodies[document]) \in Nat \ {0} /\ DOMAIN Bodies[document] = 1..Len(Bodies[document])

SessionRow(n)   == <<"session", n>>
MessageRow(key) == <<"message", key>>
ReadingRow(key) == <<"reading", key>>   \* the run "extract:", "observe:" or "message:" this
MessagesIn(session, d) == {r \in Kind("message", d) : d[r].session = session}

\* _chunk_key: document, position and what the chunk says.
ChunkKeys(document) == [i \in DOMAIN Bodies[document] |-> <<document, i, Bodies[document][i]>>]
Kept(document, limit) == SubSeq(ChunkKeys(document), 1, Min({limit, Len(Bodies[document])}))

-----------------------------------------------------------------------------
(* A submission: the session, then each key in turn                        *)

\* ingest_document asks for the source first, then always opens a session; an
\* observation is put in the open session that was started last.
CheckSource(call, seen) ==
  IF SourceRow(call.source) \in DOMAIN seen THEN Goto([call EXCEPT !.op = "open session"])
  ELSE Refused
OpenSessions(seen) == {r \in DOMAIN seen : seen[r].status = "open"}
FindSession(call, seen) ==
  IF OpenSessions(seen) = {} THEN Goto([call EXCEPT !.op = "open session"])
  ELSE Goto([call EXCEPT !.op = "record message",
         !.session = CHOOSE r \in OpenSessions(seen) :
                       \A s \in OpenSessions(seen) : r[2] >= s[2]])
OpenSession(call) ==
  Writes(One(SessionRow(call.id), [status |-> "open"]), NoRows,
         [call EXCEPT !.op = "record message", !.session = SessionRow(call.id)])
\* close_session: its messages and runs stay, and more may be recorded in it.
CloseSession(call) == Update(call.session, [status |-> "closed"])

\* next_sequence_number: one more than the session's last; two messages of one
\* session may ask for the same.
NextSequence(seen) == Cardinality(DOMAIN seen) + 1
Key(call) == Head(call.keys)
IsTurn(call) == Key(call)[1] = "turn"
\* What is not to be interpreted is recorded and no more.
ThenRead(call) == [call EXCEPT !.op = IF call.interpreted THEN "enqueue" ELSE "kept"]
RecordMessage(call, seen) ==
  [Writes(One(MessageRow(Key(call)),
            [session |-> call.session, sequence |-> NextSequence(seen), by |-> call.by]),
          NoRows, ThenRead(call))
     EXCEPT !.clash = [call EXCEPT !.op = "resolve replay"]]

\* Mutant of ResolveReplay: what was recorded before was queued before.
ResolveReplayOnly(call, seen) ==
  IF MessageRow(Key(call)) \in DOMAIN seen /\ seen[MessageRow(Key(call))].by = call.by
  THEN Goto([call EXCEPT !.keys = Tail(@),
               !.op = IF Len(call.keys) = 1 THEN "accepted" ELSE "record message"])
  ELSE Refused

\* _resolve_replay: the same payload is a replay, another one a conflict.  The
\* turn of a conversation is queued only by the call that recorded it.
ResolveReplay(call, seen) ==
  IF MessageRow(Key(call)) \in DOMAIN seen /\ seen[MessageRow(Key(call))].by = call.by
  THEN Goto(IF IsTurn(call) THEN [call EXCEPT !.op = "kept"] ELSE ThenRead(call))
  ELSE Refused

\* Chunks cut off by the limit become no run; the first one's run carries how
\* many they were.
Missing(call) == IF Key(call) = Head(call.all) THEN call.missing ELSE 0
\* enqueue_run: the run under this key, or a new one.
Enqueue(call, seen) ==
  LET row  == ReadingRow(Key(call))
      then == [call EXCEPT !.keys = Tail(@),
                 !.op = IF Len(call.keys) = 1 THEN "accepted" ELSE "record message"]
  IN IF row \in DOMAIN seen THEN Goto(then)
     ELSE Writes(One(row, [message |-> MessageRow(Key(call)), source |-> call.source,
                           missing |-> Missing(call)]), NoRows, then)

\* A review is asked for with a warning if anything is still to be read: the
\* runs are counted in one transaction, the review is queued in another.
ReviewRow(key)  == <<"review", key>>
CountOutstanding(call, seen) ==
  Goto([call EXCEPT !.op = "enqueue review", !.missing = Cardinality(DOMAIN seen)])
EnqueueReview(call, seen) ==
  LET then == [call EXCEPT !.op = "kept"]
  IN IF ReviewRow(call.keys) \in DOMAIN seen THEN Goto(then)
     ELSE Writes(One(ReviewRow(call.keys), [warned |-> call.missing > 0]), NoRows, then)

\* extraction_coverage, of runs that were read, given up or are still waiting.
Coverage(status, d) ==
  [succeeded |-> Cardinality({r \in Kind("reading", d) : status[r] = "succeeded"}),
   abandoned |-> Cardinality({r \in Kind("reading", d) : status[r] = "abandoned"}),
   not_ingested |-> MapThenSumSet(LAMBDA r : d[r].missing, Kind("reading", d))]

-----------------------------------------------------------------------------
(* What a client may ask                                                   *)

Submission(op, n, keys, by, source) ==
  [op |-> op, id |-> n, keys |-> keys, all |-> keys, by |-> by, source |-> source,
   session |-> Nothing, interpreted |-> TRUE, missing |-> 0]
\* A document, in whole or as far as the limit allows, from a source or from nowhere.
Handed(n, d, m, p, l) ==
  [Submission(IF l = Nothing THEN "open session" ELSE "check source", n, Kept(d, m), p, l)
     EXCEPT !.missing = Len(Bodies[d]) - Len(Kept(d, m))]
DocumentRequests(n) ==
  {Handed(n, d, m, p, l) :
     d \in DOMAIN Bodies, m \in MaxChunks, p \in Submitter, l \in Location \cup {Nothing}}
\* An observation of an agent; its policy says whether it is to be interpreted.
Observed(n, k, p, i) ==
  [Submission("find session", n, <<<<"observation", k>>>>, p, Nothing) EXCEPT !.interpreted = i]
ObservationRequests(n) ==
  {Observed(n, k, p, i) : k \in 1..2, p \in Submitter, i \in BOOLEAN}
\* What somebody says in a session, open or not; only a person's words about the
\* project are interpreted.
Spoken(n, k, p, r, i) ==
  [Submission("record message", n, <<<<"turn", k>>>>, p, Nothing)
     EXCEPT !.session = r, !.interpreted = i]
TurnRequests(d, n) ==
  {Spoken(n, k, p, r, i) :
     k \in 1..2, p \in Submitter, r \in Kind("session", d), i \in BOOLEAN}
CloseRequests(d, n) ==
  {[Submission("close session", n, <<>>, Nothing, Nothing) EXCEPT !.session = r] :
     r \in Kind("session", d)}
ReviewRequests(n) == {Submission("count outstanding", n, k, Nothing, Nothing) : k \in {<<1>>, <<2>>}}

Submitting(call) == call.op \in {"check source", "find session", "open session",
                                 "close session", "record message", "resolve replay", "enqueue",
                                 "accepted", "kept", "count outstanding", "enqueue review"}
SubmissionReads(call, d) ==
  CASE call.op = "check source"   -> {SourceRow(call.source)}
    [] call.op = "find session"   -> Kind("session", d)
    [] call.op = "close session"  -> {call.session}
    [] call.op = "record message" -> MessagesIn(call.session, d)
    [] call.op = "resolve replay" -> {MessageRow(Key(call))}
    [] call.op = "enqueue"        -> {ReadingRow(Key(call))}
    [] call.op = "count outstanding" -> Kind("reading", d)
    [] call.op = "enqueue review" -> {ReviewRow(call.keys)}
    [] OTHER                      -> {}
SubmissionOutcome(call, seen) ==
  CASE call.op = "check source"   -> CheckSource(call, seen)
    [] call.op = "find session"   -> FindSession(call, seen)
    [] call.op = "open session"   -> OpenSession(call)
    [] call.op = "close session"  -> CloseSession(call)
    [] call.op = "record message" -> RecordMessage(call, seen)
    [] call.op = "resolve replay" -> ResolveReplay(call, seen)
    [] call.op = "enqueue"        -> Enqueue(call, seen)
    [] call.op = "count outstanding" -> CountOutstanding(call, seen)
    [] call.op = "enqueue review" -> EnqueueReview(call, seen)
    [] call.op \in {"accepted", "kept"} -> Same
\* Two messages of a session never have one number.
SequenceIsUnique(d) ==
  \A r, s \in Kind("message", d) :
    r # s => <<d[r].session, d[r].sequence>> # <<d[s].session, d[s].sequence>>

-----------------------------------------------------------------------------
(* Properties *)

\* When a submission is answered, every piece of it is recorded and waits to be
\* read, whatever earlier attempts at it died of and however far they got.
AcceptedIsQueued ==
  \A c \in Caller :
    calls[c].call # Nothing /\ Submitting(calls[c].call) /\ calls[c].call.op = "accepted" =>
      \A i \in DOMAIN calls[c].call.all :
        LET key == calls[c].call.all[i]
        IN /\ MessageRow(key) \in DOMAIN tables /\ ReadingRow(key) \in DOMAIN tables
           /\ tables[ReadingRow(key)].message = MessageRow(key)
=============================================================================
