--------------------------- MODULE Clarification ---------------------------
(***************************************************************************)
(* Questions put to people and what they say about them                    *)
(* (application/clarification_service.py over MemoryService.record_message *)
(* and enqueue_run): a listing asks what has not been asked, a response is *)
(* recorded as a message and then scheduled for extraction.                *)
(*                                                                         *)
(* Every lookup, insert and enqueue is a transaction of its own.  The      *)
(* insert of a message also reads the session's highest sequence number,   *)
(* and two constraints meet it: the number in its session and the key in   *)
(* its project.                                                            *)
(***************************************************************************)
EXTENDS Integers, FiniteSets

CONSTANTS
  Caller,       \* requests that may be in progress at once
  Subject,      \* what the project's findings justify asking about
  Wording,      \* the words a finding may recommend asking it with
  Text,         \* what a person may say
  Key,          \* keys callers choose for their responses
  NoKey,        \* a response without one
  Limits,       \* the limits callers set on what a listing returns
  MaxRequests,  \* bound: requests ever started
  MaxSessions,  \* bound: sessions ever opened
  Isolation     \* the isolation levels to consider

ASSUME ClarificationAssumption ==
  /\ NoKey \notin Key /\ Limits \subseteq Nat \ {0} /\ MaxRequests \in Nat /\ MaxSessions \in Nat
  /\ Isolation \subseteq {"serializable", "read committed"}

\* "deferred" stands for every disposition outside SETTLES a caller may send.
Disposition == {"answered", "deferred"}
Settles == {"answered"}

VARIABLES
  messages,   \* the messages of the project
  sessions,   \* how many sessions were opened; the last is the latest
  runs,       \* extraction runs: the key, and the message its context names
  request,    \* Caller -> the request in progress
  made,       \* requests started so far
  told,       \* history: the messages listings returned for a subject
  isolation   \* CockroachDB's isolation level or PostgreSQL's default, for good

vars == <<messages, sessions, runs, request, made, told, isolation>>

Serializable == isolation = "serializable"

-----------------------------------------------------------------------------
(* Messages.  A message's identifier is its place: session and number.       *)

Nothing   == <<0, 0>>
Id(m)     == <<m.session, m.number>>
Questions == {m \in messages : m.type = "question"}
Answers   == {m \in messages : m.type = "answer"}
ByKey(k)  == {m \in messages : m.key = k}
ById(i)   == CHOOSE m \in messages : Id(m) = i

\* next_sequence_number
NextNumber(s) == 1 + Cardinality({m \in messages : m.session = s})

\* Mutant of QuestionKey: the wording is part of the key.
QuestionKeyByWording(s, u) == <<"question", s, u>>
\* _question_key: the subject, never the wording.
QuestionKey(s, u) == <<"question", s>>

\* Mutant of AnswerKey: whatever is said has a key of its own.
AnswerKeyByText(q, d, t, k) == IF k # NoKey THEN <<"caller", k>> ELSE <<"answer", q, d, t>>
\* _default_answer_key: a decision keys on its question, anything else on what
\* was said.
AnswerKey(q, d, t, k) ==
  IF k # NoKey THEN <<"caller", k>>
  ELSE IF d \in Settles THEN <<"answer", q>> ELSE <<"answer", q, d, t>>

\* Mutant of ExistingAnswer: any response counts.
ExistingResponse(q) == {m \in Answers : m.about = q}
\* _existing_answer: the settling responses, of which the first is taken.
ExistingAnswer(q) == {m \in Answers : m.about = q /\ m.disposition \in Settles}
First(S) == CHOOSE m \in S : \A n \in S : m.number <= n.number

\* _dispositions: the last thing said about a question, not the first.
Responses(q) == {m \in Answers : m.about = q}
Standing(q) ==
  IF Responses(q) = {} THEN "open"
  ELSE (CHOOSE m \in Responses(q) : \A n \in Responses(q) : n.number <= m.number).disposition
\* What a listing leaves out: what is settled, and what somebody responded to
\* without settling it unless the caller wants that too.
Hidden(deferred) ==
  {q \in {Id(m) : m \in Questions} :
     Standing(q) \in Settles \/ (~deferred /\ Standing(q) # "open")}
\* candidates, unsettled_count: the same without asking.
Asked(s)             == {m \in Questions : m.key = QuestionKey(s, m.body)}
Candidates(deferred) == {s \in Subject : \A m \in Asked(s) : Id(m) \notin Hidden(deferred)}
UnsettledCount(deferred) == Cardinality(Candidates(deferred))
Omitted(returned, limit, deferred) ==
  IF returned < limit \/ UnsettledCount(deferred) <= returned THEN 0
  ELSE UnsettledCount(deferred) - returned

-----------------------------------------------------------------------------
(* Requests *)

Stage == {"idle", "find", "session", "open", "look", "number", "insert", "resolve",
          "enqueue", "replay", "progress"}
None == [at |-> "idle", type |-> "question", todo |-> {}, hidden |-> {}, left |-> 0,
         again |-> FALSE, about |-> Nothing, session |-> 0,
         subject |-> "none", disposition |-> "none", body |-> "none", key |-> <<"none">>,
         number |-> 0, message |-> Nothing]

Is(v, stage)  == request[v].at = stage
Become(v, r)  == request' = [request EXCEPT ![v] = r]
Goto(v, stage) == request' = [request EXCEPT ![v].at = stage]
Leave(v)      == Become(v, None)

\* A listing looks at its next subject, in the words of the moment.
Turn(v, r) ==
  \E s \in r.todo, u \in Wording :
    Become(v, [r EXCEPT !.at = "find", !.subject = s, !.body = u,
                        !.key = QuestionKey(s, u), !.todo = @ \ {s}])
\* open_questions: what was said so far is read before anything is asked.
Listing(limit, deferred, again) ==
  [None EXCEPT !.todo = Subject, !.left = limit, !.hidden = Hidden(deferred), !.again = again]
\* The route lists and counts; the tool lists, and lists everything a second time
\* to count what awaits a person (awaiting_a_person).
RouteListings == {Listing(n, FALSE, FALSE) : n \in Limits}
ToolListings  ==
  {Listing(n, FALSE, TRUE) : n \in Limits} \cup {Listing(n, TRUE, TRUE) : n \in Limits}
Awaiting      == Listing(Cardinality(Subject), TRUE, FALSE)

\* A question found or asked is returned unless it was responded to before the
\* listing began; the listing ends at its limit.
Onward(v, m) ==
  LET r == [request[v] EXCEPT !.left = @ - IF Id(m) \in request[v].hidden THEN 0 ELSE 1]
  IN IF r.todo # {} /\ r.left > 0 THEN Turn(v, r)
     ELSE IF r.again THEN Turn(v, Awaiting) ELSE Leave(v)

List(v) ==
  /\ Is(v, "idle") /\ made < MaxRequests /\ made' = made + 1
  /\ \E r \in RouteListings \cup ToolListings : Turn(v, r)
  /\ UNCHANGED <<messages, sessions, runs, told, isolation>>

\* A response to a question that was asked, in any disposition.
RouteResponses == [about : {Id(q) : q \in Questions}, text : Text, disposition : Disposition,
                   key : Key \cup {NoKey}]
\* answer
Respond(v) ==
  /\ Is(v, "idle") /\ made < MaxRequests /\ made' = made + 1
  /\ \E a \in RouteResponses :
       Become(v, [None EXCEPT !.at = "look", !.type = "answer", !.about = a.about,
                    !.session = ById(a.about).session, !.disposition = a.disposition,
                    !.body = a.text, !.key = AnswerKey(a.about, a.disposition, a.text, a.key)])
  /\ UNCHANGED <<messages, sessions, runs, told, isolation>>

\* A client opens a conversation of its own.
OpenConversation ==
  /\ sessions < MaxSessions /\ sessions' = sessions + 1
  /\ UNCHANGED <<messages, runs, request, made, told, isolation>>

\* The process dies, or the connection to the database does.
Die(v) ==
  /\ ~Is(v, "idle") /\ Leave(v)
  /\ UNCHANGED <<messages, sessions, runs, made, told, isolation>>

Tell(v, m) == told' = told \cup {<<request[v].subject, Id(m)>>}

-----------------------------------------------------------------------------
(* _materialise and _LazySession *)

Find(v) ==
  /\ Is(v, "find")
  /\ IF ByKey(request[v].key) = {}
     THEN /\ Goto(v, IF request[v].session = 0 THEN "session" ELSE "number")
          /\ UNCHANGED told
     ELSE /\ \E m \in ByKey(request[v].key) : Tell(v, m) /\ Onward(v, m)
  /\ UNCHANGED <<messages, sessions, runs, made, isolation>>

\* The project's latest session, if it has one.
FindSession(v) ==
  /\ Is(v, "session")
  /\ Become(v, IF sessions = 0 THEN [request[v] EXCEPT !.at = "open"]
               ELSE [request[v] EXCEPT !.at = "number", !.session = sessions])
  /\ UNCHANGED <<messages, sessions, runs, made, told, isolation>>

OpenSession(v) ==
  /\ Is(v, "open") /\ sessions < MaxSessions
  /\ sessions' = sessions + 1
  /\ Become(v, [request[v] EXCEPT !.at = "number", !.session = sessions'])
  /\ UNCHANGED <<messages, runs, made, told, isolation>>

-----------------------------------------------------------------------------
(* answer, before and after its message is recorded *)

\* A recorded decision is replayed under its key and stands under any other.
Look(v) ==
  LET r == request[v]  recorded == ExistingAnswer(r.about)
  IN /\ Is(v, "look")
     /\ IF recorded = {} THEN Goto(v, "number")
        ELSE IF First(recorded).key = r.key THEN Goto(v, "replay") ELSE Leave(v)
     /\ UNCHANGED <<messages, sessions, runs, made, told, isolation>>

\* enqueue_run: the run of a key stays as it was first enqueued.
Scheduled(k) == \E e \in runs : e.key = k
Schedule(k, message) ==
  runs' = IF Scheduled(k) THEN runs ELSE runs \cup {[key |-> k, reads |-> message]}

\* The reply goes out, over the tool interface after a look at the progress.
Reply(v) == Leave(v) \/ Goto(v, "progress")

Enqueue(v) ==
  /\ Is(v, "enqueue")
  /\ Schedule(request[v].key, request[v].message)
  /\ Reply(v)
  /\ UNCHANGED <<messages, sessions, made, told, isolation>>

\* _extraction_run_for enqueues under the key alone, without a message.
Replay(v) ==
  /\ Is(v, "replay")
  /\ Schedule(request[v].key, Nothing)
  /\ Reply(v)
  /\ UNCHANGED <<messages, sessions, made, told, isolation>>

\* progress: the same, for whatever settles the question by now.
Progress(v) ==
  /\ Is(v, "progress")
  /\ LET recorded == ExistingAnswer(request[v].about)
     IN IF recorded = {} THEN UNCHANGED runs ELSE Schedule(First(recorded).key, Nothing)
  /\ Leave(v)
  /\ UNCHANGED <<messages, sessions, made, told, isolation>>

\* Where a question has got to: from its answer, the status of the answer's run
\* and the lifecycles of what that run produced.
Workflow(answered, status, produced) ==
  IF ~answered THEN "waiting_for_answer"
  ELSE IF status = "failed" THEN "extraction_failed"
  ELSE IF status = "running" THEN "extracting"
  ELSE IF produced = {} THEN "waiting_for_extraction"
  ELSE IF "proposed" \in produced THEN "awaiting_review" ELSE "completed"

-----------------------------------------------------------------------------
(* record_message *)

\* The session's next number is read.
ReadNumber(v) ==
  /\ Is(v, "number")
  /\ Become(v, [request[v] EXCEPT !.at = "insert",
                                  !.number = NextNumber(request[v].session)])
  /\ UNCHANGED <<messages, sessions, runs, made, told, isolation>>

\* The constraint on a session and its numbers.
Outdated(v) == request[v].number # NextNumber(request[v].session)
Violates(v) == Outdated(v) \/ ByKey(request[v].key) # {}

\* The number is read again, or the retries are used up.
RetryInsert(v) ==
  /\ Is(v, "insert") /\ Serializable /\ Outdated(v)
  /\ \/ Become(v, [request[v] EXCEPT !.number = NextNumber(request[v].session)])
     \/ Leave(v)
  /\ UNCHANGED <<messages, sessions, runs, made, told, isolation>>

Message(v) ==
  LET r == request[v]
  IN [session |-> r.session, number |-> r.number, type |-> r.type, key |-> r.key,
      body |-> r.body, subject |-> r.subject, about |-> r.about,
      disposition |-> r.disposition]

Insert(v) ==
  LET m == Message(v)
  IN /\ Is(v, "insert") /\ ~Violates(v)
     /\ messages' = messages \cup {m}
     /\ IF m.type = "question" THEN Tell(v, m) /\ Onward(v, m)
        ELSE /\ Become(v, [request[v] EXCEPT !.at = "enqueue", !.message = Id(m)])
             /\ UNCHANGED told
     /\ UNCHANGED <<sessions, runs, made, isolation>>

\* An IntegrityError, whichever constraint it came from.
Refused(v) ==
  /\ Is(v, "insert") /\ Violates(v) /\ ~(Serializable /\ Outdated(v))
  /\ Goto(v, "resolve")
  /\ UNCHANGED <<messages, sessions, runs, made, told, isolation>>

\* The fingerprint has the words and the type, not what the message is about.
SamePayload(v, m) == m.body = request[v].body /\ m.type = request[v].type

\* _resolve_replay: what the key recorded, if it says the same.  A question the
\* key recorded in other words stands; any other conflict is the caller's.
Resolve(v) ==
  LET r == request[v]
  IN /\ Is(v, "resolve")
     /\ IF ByKey(r.key) = {} THEN Leave(v) /\ UNCHANGED told
        ELSE \E m \in ByKey(r.key) :
          IF r.type = "question" THEN Tell(v, m) /\ Onward(v, m)
          ELSE /\ IF SamePayload(v, m)
                  THEN Become(v, [r EXCEPT !.at = "enqueue", !.message = Id(m)])
                  ELSE Leave(v)
               /\ UNCHANGED told
     /\ UNCHANGED <<messages, sessions, runs, made, isolation>>

-----------------------------------------------------------------------------
Init ==
  /\ messages = {} /\ runs = {} /\ told = {}
  /\ sessions = 0 /\ made = 0
  /\ request = [v \in Caller |-> None]
  /\ isolation \in Isolation

Ask(v)    == List(v) \/ Find(v) \/ FindSession(v) \/ OpenSession(v)
Answer(v) == Respond(v) \/ Look(v) \/ Enqueue(v) \/ Replay(v) \/ Progress(v)
Record(v) == ReadNumber(v) \/ RetryInsert(v) \/ Insert(v) \/ Refused(v) \/ Resolve(v)
Next == OpenConversation \/ \E v \in Caller : Ask(v) \/ Answer(v) \/ Record(v) \/ Die(v)
Spec == Init /\ [][Next]_vars

-----------------------------------------------------------------------------
(* Properties *)

Keys == {QuestionKey(s, u) : s \in Subject, u \in Wording} \cup {<<"caller", k>> : k \in Key}
        \cup {AnswerKey(Id(m), d, t, NoKey) : m \in Questions, d \in Disposition, t \in Text}

\* Nobody is asked about a subject twice, however it is worded, whichever
\* session is current and however many listings run at once, and every listing
\* names that one question (open_questions and its key on the subject).
AskedOnce ==
  /\ \A m, n \in Questions : m.subject = n.subject => m = n
  /\ \A t \in told : \E m \in Questions : t = <<m.subject, Id(m)>>

\* A question has a second verdict only when somebody chose the key of one of
\* them: the key of the others is the question's own (_default_answer_key).
OneVerdict ==
  \A m, n \in Answers :
    /\ m # n /\ m.about = n.about
    /\ m.disposition \in Settles /\ n.disposition \in Settles
    => m.key[1] = "caller" \/ n.key[1] = "caller"

\* What a caller is told was recorded are the caller's words (the fingerprint of
\* record_message), a run that names a message names the one its key recorded,
\* and the run of a deferral always names it: no later look at the question
\* enqueues that run empty.
NothingSaidIsDropped ==
  /\ \A v \in Caller : Is(v, "enqueue") => ById(request[v].message).body = request[v].body
  /\ \A e \in runs : e.reads # Nothing => ById(e.reads).key = e.key
  /\ \A m \in Answers, e \in runs :
       e.key = m.key /\ m.key[1] = "answer" /\ m.disposition \notin Settles => e.reads = Id(m)
=============================================================================
