------------------------ MODULE ClarificationProofs ------------------------
(***************************************************************************)
(* Nobody is asked twice, a question's default key admits one verdict and  *)
(* nothing anybody said is dropped, for any callers, subjects, words, keys *)
(* and bounds and at either isolation level.  What a request is about      *)
(* determines the key its message will have, and a key has one message; a  *)
(* run belongs to the message of its key.                                  *)
(***************************************************************************)
EXTENDS Clarification, FiniteSetTheorems, WellFoundedInduction, TLAPS

\* The key of a request or message m fits what it is about.
Fits(m) ==
  \/ m.type = "question" /\ m.key = <<"question", m.subject>>
  \/ /\ m.type = "answer" /\ m.key[1] \in {"caller", "answer"}
     /\ m.disposition \in Settles => m.key[1] = "caller" \/ m.key = <<"answer", m.about>>

\* A request as the actions leave it.
Sound(r) ==
  /\ DOMAIN r = DOMAIN None
  /\ r.at = "idle" \/ Fits(r)
  /\ r.at \in {"find", "session", "open"} => r.type = "question"

RequestsFit == DOMAIN request = Caller /\ \A v \in Caller : Sound(request[v])
MessagesFit == \A m \in messages : Fits(m)
KeysAreUnique == \A m, n \in messages : m.key = n.key => m = n
ToldFits == \A t \in told : \E m \in Questions : t = <<m.subject, Id(m)>>
Keyed == RequestsFit /\ MessagesFit /\ KeysAreUnique /\ ToldFits

-----------------------------------------------------------------------------
(* Requests *)

\* A step that replaces one request by a sound one keeps them sound.
LEMMA BecomingSound ==
  ASSUME RequestsFit, NEW v \in Caller, NEW r, Sound(r), Become(v, r)
  PROVE  RequestsFit'
BY DEF RequestsFit, Become

LEMMA NoneIsSound == Sound(None)
BY DEF Sound, None

LEMMA LeavingIsSound ==
  ASSUME RequestsFit, NEW v \in Caller, Leave(v)
  PROVE  RequestsFit'
BY NoneIsSound, BecomingSound DEF Leave

\* A request in progress may move on to any stage that its type admits.
LEMMA GoingIsSound ==
  ASSUME RequestsFit, NEW v \in Caller, ~Is(v, "idle"), NEW stage,
         stage \in {"find", "session", "open"} => request[v].type = "question",
         Goto(v, stage)
  PROVE  RequestsFit'
<1>1. Sound([request[v] EXCEPT !.at = stage])
  BY DEF RequestsFit, Sound, Fits, Is, None
<1>2. Become(v, [request[v] EXCEPT !.at = stage])
  BY DEF Goto, Become, RequestsFit
<1>. QED  BY <1>1, <1>2, BecomingSound

LEMMA TurningIsSound ==
  ASSUME RequestsFit, NEW v \in Caller, NEW r, DOMAIN r = DOMAIN None, r.type = "question",
         Turn(v, r)
  PROVE  RequestsFit'
<1>. PICK s \in r.todo, u \in Wording :
       Become(v, [r EXCEPT !.at = "find", !.subject = s, !.body = u,
                           !.key = QuestionKey(s, u), !.todo = @ \ {s}])
  BY DEF Turn
<1>1. Sound([r EXCEPT !.at = "find", !.subject = s, !.body = u,
                      !.key = QuestionKey(s, u), !.todo = @ \ {s}])
  BY DEF Sound, Fits, None, QuestionKey
<1>. QED  BY <1>1, BecomingSound

LEMMA ListingIsShaped ==
  ASSUME NEW limit, NEW deferred, NEW again
  PROVE  /\ DOMAIN Listing(limit, deferred, again) = DOMAIN None
         /\ Listing(limit, deferred, again).type = "question"
BY DEF Listing, None

LEMMA GoingOnIsSound ==
  ASSUME RequestsFit, NEW v \in Caller, request[v].type = "question", NEW m, Onward(v, m)
  PROVE  RequestsFit'
<1>. DEFINE r == [request[v] EXCEPT !.left = @ - IF Id(m) \in request[v].hidden THEN 0 ELSE 1]
<1>1. DOMAIN r = DOMAIN None /\ r.type = "question"
  BY DEF RequestsFit, Sound, None
<1>2. Turn(v, r) \/ Turn(v, Awaiting) \/ Leave(v)
  BY DEF Onward
<1>3. CASE Turn(v, r)
  BY <1>1, <1>3, TurningIsSound
<1>4. CASE Turn(v, Awaiting)
  BY <1>4, TurningIsSound, ListingIsShaped DEF Awaiting
<1>5. CASE Leave(v)
  BY <1>5, LeavingIsSound
<1>. QED  BY <1>2, <1>3, <1>4, <1>5

-----------------------------------------------------------------------------
(* Steps that leave the messages alone *)

Said == <<messages, told>>

LEMMA QuietKeepsKeys ==
  ASSUME Keyed, RequestsFit', UNCHANGED Said
  PROVE  Keyed'
BY DEF Keyed, Said, MessagesFit, KeysAreUnique, ToldFits, Questions, Id

\* The key a response is given fits it.
LEMMA AnswerKeysFit ==
  ASSUME NEW q, NEW d, NEW t, NEW k
  PROVE  /\ AnswerKey(q, d, t, k)[1] \in {"caller", "answer"}
         /\ d \in Settles => \/ AnswerKey(q, d, t, k)[1] = "caller"
                             \/ AnswerKey(q, d, t, k) = <<"answer", q>>
BY DEF AnswerKey

LEMMA RespondingIsSound ==
  ASSUME RequestsFit, NEW v \in Caller, Respond(v)
  PROVE  RequestsFit'
<1>. PICK a \in RouteResponses :
       Become(v, [None EXCEPT !.at = "look", !.type = "answer", !.about = a.about,
                    !.session = ById(a.about).session, !.disposition = a.disposition,
                    !.body = a.text, !.key = AnswerKey(a.about, a.disposition, a.text, a.key)])
  BY DEF Respond
<1>. DEFINE r == [None EXCEPT !.at = "look", !.type = "answer", !.about = a.about,
                    !.session = ById(a.about).session, !.disposition = a.disposition,
                    !.body = a.text, !.key = AnswerKey(a.about, a.disposition, a.text, a.key)]
<1>1. /\ DOMAIN r = DOMAIN None /\ r.at = "look" /\ r.type = "answer" /\ r.about = a.about
      /\ r.disposition = a.disposition
      /\ r.key = AnswerKey(a.about, a.disposition, a.text, a.key)
  BY DEF None
<1>. HIDE DEF r
<1>2. Sound(r)
  BY <1>1, AnswerKeysFit DEF Sound, Fits
<1>. QED  BY <1>2, BecomingSound DEF r

LEMMA AskingIsSound ==
  ASSUME RequestsFit, NEW v \in Caller, FindSession(v) \/ OpenSession(v)
  PROVE  RequestsFit'
<1>1. CASE FindSession(v)
  <2>. DEFINE r == IF sessions = 0 THEN [request[v] EXCEPT !.at = "open"]
                   ELSE [request[v] EXCEPT !.at = "number", !.session = sessions]
  <2>1. Sound(r)
    BY <1>1 DEF FindSession, Is, RequestsFit, Sound, Fits, None
  <2>2. Become(v, r)
    BY <1>1 DEF FindSession
  <2>. QED  BY <2>1, <2>2, BecomingSound
<1>2. CASE OpenSession(v)
  <2>. DEFINE r == [request[v] EXCEPT !.at = "number", !.session = sessions']
  <2>1. Sound(r)
    BY <1>2 DEF OpenSession, Is, RequestsFit, Sound, Fits, None
  <2>2. Become(v, r)
    BY <1>2 DEF OpenSession
  <2>. QED  BY <2>1, <2>2, BecomingSound
<1>. QED  BY <1>1, <1>2

LEMMA AnsweringIsSound ==
  ASSUME RequestsFit, NEW v \in Caller, Look(v) \/ Enqueue(v) \/ Replay(v) \/ Progress(v)
  PROVE  RequestsFit'
<1>1. CASE Look(v)
  <2>1. ~Is(v, "idle") /\ (Goto(v, "number") \/ Goto(v, "replay") \/ Leave(v))
    BY <1>1 DEF Look, Is
  <2>. QED  BY <2>1, GoingIsSound, LeavingIsSound
<1>2. CASE Enqueue(v) \/ Replay(v)
  <2>1. ~Is(v, "idle") /\ (Goto(v, "progress") \/ Leave(v))
    BY <1>2 DEF Enqueue, Replay, Reply, Is
  <2>. QED  BY <2>1, GoingIsSound, LeavingIsSound
<1>3. CASE Progress(v)
  BY <1>3, LeavingIsSound DEF Progress
<1>. QED  BY <1>1, <1>2, <1>3

LEMMA NumberingIsSound ==
  ASSUME RequestsFit, NEW v \in Caller, ReadNumber(v) \/ RetryInsert(v) \/ Refused(v)
  PROVE  RequestsFit'
<1>1. CASE ReadNumber(v)
  <2>. DEFINE r == [request[v] EXCEPT !.at = "insert", !.number = NextNumber(request[v].session)]
  <2>1. Sound(r)
    BY <1>1 DEF ReadNumber, Is, RequestsFit, Sound, Fits, None
  <2>2. Become(v, r)
    BY <1>1 DEF ReadNumber
  <2>. QED  BY <2>1, <2>2, BecomingSound
<1>2. CASE RetryInsert(v)
  <2>. DEFINE r == [request[v] EXCEPT !.number = NextNumber(request[v].session)]
  <2>1. Sound(r)
    BY <1>2 DEF RetryInsert, Is, RequestsFit, Sound, Fits, None
  <2>2. Become(v, r) \/ Leave(v)
    BY <1>2 DEF RetryInsert
  <2>. QED  BY <2>1, <2>2, BecomingSound, LeavingIsSound
<1>3. CASE Refused(v)
  <2>1. ~Is(v, "idle") /\ Goto(v, "resolve")
    BY <1>3 DEF Refused, Is
  <2>. QED  BY <2>1, GoingIsSound
<1>. QED  BY <1>1, <1>2, <1>3

-----------------------------------------------------------------------------
(* Steps that record a message or name one *)

\* What a listing finds under its key is the question about its subject.
LEMMA FoundIsTheQuestion ==
  ASSUME MessagesFit, NEW v \in Caller, request[v].key = <<"question", request[v].subject>>,
         NEW m \in ByKey(request[v].key)
  PROVE  m \in Questions /\ m.subject = request[v].subject
<1>1. m \in messages /\ m.key = <<"question", request[v].subject>> /\ Fits(m)
  BY DEF ByKey, MessagesFit
<1>2. m.key[1] = "question"
  BY <1>1
<1>3. m.key # <<"answer", m.about>>
  BY <1>1
<1>. QED  BY <1>1, <1>2 DEF Fits, Questions

LEMMA TellingFits ==
  ASSUME ToldFits, NEW v \in Caller, NEW m, messages \subseteq messages', m \in messages',
         m.type = "question", m.subject = request[v].subject, Tell(v, m)
  PROVE  ToldFits'
BY DEF ToldFits, Questions, Tell, Id

LEMMA FindKeepsKeys ==
  ASSUME Keyed, NEW v \in Caller, Find(v)
  PROVE  Keyed'
<1>1. /\ request[v].at = "find" /\ request[v].type = "question" /\ ~Is(v, "idle")
      /\ request[v].key = <<"question", request[v].subject>> /\ UNCHANGED messages
  BY DEF Find, Is, Keyed, RequestsFit, Sound, Fits
<1>2. CASE ByKey(request[v].key) = {}
  <2>1. RequestsFit'
    BY <1>1, <1>2, GoingIsSound DEF Find, Keyed
  <2>. QED  BY <1>1, <1>2, <2>1, QuietKeepsKeys DEF Find, Said
<1>3. CASE ByKey(request[v].key) # {}
  <2>. PICK m \in ByKey(request[v].key) : Tell(v, m) /\ Onward(v, m)
    BY <1>3 DEF Find
  <2>1. m \in Questions /\ m.subject = request[v].subject
    BY <1>1, FoundIsTheQuestion DEF Keyed
  <2>2. RequestsFit'
    BY <1>1, GoingOnIsSound DEF Keyed
  <2>3. ToldFits'
    BY <1>1, <2>1, TellingFits DEF Keyed, Questions
  <2>. QED  BY <1>1, <2>2, <2>3 DEF Keyed, MessagesFit, KeysAreUnique
<1>. QED  BY <1>2, <1>3

LEMMA ResolveKeepsKeys ==
  ASSUME Keyed, NEW v \in Caller, Resolve(v)
  PROVE  Keyed'
<1>1. request[v].at = "resolve" /\ ~Is(v, "idle") /\ Fits(request[v]) /\ UNCHANGED messages
  BY DEF Resolve, Is, Keyed, RequestsFit, Sound
<1>2. CASE ByKey(request[v].key) = {}
  <2>1. RequestsFit'
    BY <1>2, LeavingIsSound DEF Resolve, Keyed
  <2>. QED  BY <1>1, <1>2, <2>1, QuietKeepsKeys DEF Resolve, Said
<1>3. CASE ByKey(request[v].key) # {} /\ request[v].type = "question"
  <2>. PICK m \in ByKey(request[v].key) : Tell(v, m) /\ Onward(v, m)
    BY <1>3 DEF Resolve
  <2>1. m \in Questions /\ m.subject = request[v].subject
    BY <1>1, <1>3, FoundIsTheQuestion DEF Keyed, Fits
  <2>2. RequestsFit'
    BY <1>3, GoingOnIsSound DEF Keyed
  <2>3. ToldFits'
    BY <1>1, <2>1, TellingFits DEF Keyed, Questions
  <2>. QED  BY <1>1, <2>2, <2>3 DEF Keyed, MessagesFit, KeysAreUnique
<1>4. CASE ByKey(request[v].key) # {} /\ request[v].type # "question"
  <2>. PICK m \in ByKey(request[v].key) :
         /\ IF SamePayload(v, m)
            THEN Become(v, [request[v] EXCEPT !.at = "enqueue", !.message = Id(m)]) ELSE Leave(v)
         /\ UNCHANGED told
    BY <1>4 DEF Resolve
  <2>1. Sound([request[v] EXCEPT !.at = "enqueue", !.message = Id(m)])
    BY <1>1 DEF Keyed, RequestsFit, Sound, Fits, None
  <2>2. RequestsFit'
    BY <2>1, BecomingSound, LeavingIsSound DEF Keyed
  <2>. QED  BY <1>1, <2>2, QuietKeepsKeys DEF Said
<1>. QED  BY <1>2, <1>3, <1>4

\* The one step that adds a message: its key is new, and it is what the request
\* said it would be.
LEMMA InsertKeepsKeys ==
  ASSUME Keyed, NEW v \in Caller, Insert(v)
  PROVE  Keyed'
<1>. DEFINE m == Message(v)
<1>1. request[v].at = "insert" /\ Fits(request[v]) /\ ByKey(request[v].key) = {}
      /\ messages' = messages \cup {m}
  BY DEF Insert, Is, Keyed, RequestsFit, Sound, Violates
<1>2. Fits(m) /\ m.key = request[v].key /\ m.type = request[v].type
      /\ m.subject = request[v].subject
  BY <1>1 DEF Message, Fits
<1>3. MessagesFit'
  BY <1>1, <1>2 DEF Keyed, MessagesFit, Fits
<1>4. KeysAreUnique'
  BY <1>1, <1>2 DEF Keyed, KeysAreUnique, ByKey
<1>5. CASE m.type = "question"
  <2>1. Tell(v, m) /\ Onward(v, m)
    BY <1>5 DEF Insert
  <2>2. RequestsFit'
    BY <1>2, <1>5, <2>1, GoingOnIsSound DEF Keyed
  <2>3. ToldFits'
    BY <1>1, <1>2, <1>5, <2>1, TellingFits DEF Keyed
  <2>. QED  BY <1>3, <1>4, <2>2, <2>3 DEF Keyed
<1>6. CASE m.type # "question"
  <2>1. Become(v, [request[v] EXCEPT !.at = "enqueue", !.message = Id(m)]) /\ UNCHANGED told
    BY <1>6 DEF Insert
  <2>2. Sound([request[v] EXCEPT !.at = "enqueue", !.message = Id(m)])
    BY <1>1 DEF Keyed, RequestsFit, Sound, Fits, None
  <2>3. RequestsFit'
    BY <2>1, <2>2, BecomingSound DEF Keyed
  <2>4. ToldFits'
    BY <1>1, <2>1 DEF Keyed, ToldFits, Questions, Id
  <2>. QED  BY <1>3, <1>4, <2>3, <2>4 DEF Keyed
<1>. QED  BY <1>5, <1>6

-----------------------------------------------------------------------------
LEMMA InitKeyed == Init => Keyed
<1>. SUFFICES ASSUME Init PROVE Keyed
  OBVIOUS
<1>1. RequestsFit
  BY NoneIsSound DEF Init, RequestsFit
<1>2. MessagesFit /\ KeysAreUnique /\ ToldFits
  BY DEF Init, MessagesFit, KeysAreUnique, ToldFits
<1>. QED  BY <1>1, <1>2 DEF Keyed

LEMMA NextKeepsKeys == Keyed /\ [Next]_vars => Keyed'
<1>. SUFFICES ASSUME Keyed, [Next]_vars PROVE Keyed'
  OBVIOUS
<1>1. CASE UNCHANGED vars
  BY <1>1 DEF vars, Keyed, RequestsFit, Sound, Fits, MessagesFit, KeysAreUnique, ToldFits,
              Questions, Id
<1>2. CASE OpenConversation
  BY <1>2, QuietKeepsKeys DEF OpenConversation, Said, Keyed, RequestsFit, Sound, Fits
<1>3. ASSUME NEW v \in Caller, List(v) PROVE Keyed'
  <2>1. PICK r \in RouteListings \cup ToolListings : Turn(v, r)
    BY <1>3 DEF List
  <2>2. ASSUME r \in RouteListings PROVE RequestsFit'
    <3>. PICK n \in Limits : r = Listing(n, FALSE, FALSE)
      BY <2>2 DEF RouteListings
    <3>. QED  BY <2>1, ListingIsShaped, TurningIsSound DEF Keyed
  <2>3. ASSUME r \in ToolListings PROVE RequestsFit'
    <3>. PICK n \in Limits : r = Listing(n, FALSE, TRUE) \/ r = Listing(n, TRUE, TRUE)
      BY <2>3 DEF ToolListings
    <3>. QED  BY <2>1, ListingIsShaped, TurningIsSound DEF Keyed
  <2>4. RequestsFit'
    BY <2>1, <2>2, <2>3
  <2>. QED  BY <1>3, <2>4, QuietKeepsKeys DEF List, Said
<1>4. ASSUME NEW v \in Caller, Find(v) PROVE Keyed'
  BY <1>4, FindKeepsKeys
<1>5. ASSUME NEW v \in Caller, FindSession(v) \/ OpenSession(v) PROVE Keyed'
  BY <1>5, AskingIsSound, QuietKeepsKeys DEF FindSession, OpenSession, Said, Keyed
<1>6. ASSUME NEW v \in Caller, Respond(v) PROVE Keyed'
  BY <1>6, RespondingIsSound, QuietKeepsKeys DEF Respond, Said, Keyed
<1>7. ASSUME NEW v \in Caller, Look(v) \/ Enqueue(v) \/ Replay(v) \/ Progress(v) PROVE Keyed'
  BY <1>7, AnsweringIsSound, QuietKeepsKeys DEF Look, Enqueue, Replay, Progress, Said, Keyed
<1>8. ASSUME NEW v \in Caller, ReadNumber(v) \/ RetryInsert(v) \/ Refused(v) PROVE Keyed'
  BY <1>8, NumberingIsSound, QuietKeepsKeys DEF ReadNumber, RetryInsert, Refused, Said, Keyed
<1>9. ASSUME NEW v \in Caller, Insert(v) PROVE Keyed'
  BY <1>9, InsertKeepsKeys
<1>10. ASSUME NEW v \in Caller, Resolve(v) PROVE Keyed'
  BY <1>10, ResolveKeepsKeys
<1>11. ASSUME NEW v \in Caller, Die(v) PROVE Keyed'
  BY <1>11, LeavingIsSound, QuietKeepsKeys DEF Die, Said, Keyed
<1>. QED  BY <1>1, <1>2, <1>3, <1>4, <1>5, <1>6, <1>7, <1>8, <1>9, <1>10, <1>11
          DEF Next, Ask, Answer, Record

LEMMA KeysHold == Spec => []Keyed
BY InitKeyed, NextKeepsKeys, PTL DEF Spec

LEMMA KeysAskOnce == Keyed => AskedOnce
<1>. SUFFICES ASSUME Keyed PROVE AskedOnce
  OBVIOUS
<1>1. ASSUME NEW m \in Questions, NEW n \in Questions, m.subject = n.subject PROVE m = n
  <2>1. m.key = <<"question", m.subject>> /\ n.key = <<"question", n.subject>>
    BY DEF Keyed, MessagesFit, Questions, Fits
  <2>. QED  BY <1>1, <2>1 DEF Keyed, KeysAreUnique, Questions
<1>. QED  BY <1>1 DEF AskedOnce, Keyed, ToldFits

LEMMA KeysGiveOneVerdict == Keyed => OneVerdict
<1>. SUFFICES ASSUME Keyed, NEW m \in Answers, NEW n \in Answers, m # n, m.about = n.about,
                     m.disposition \in Settles, n.disposition \in Settles,
                     m.key[1] # "caller", n.key[1] # "caller"
              PROVE  FALSE
  BY DEF OneVerdict
<1>1. m.key = <<"answer", m.about>> /\ n.key = <<"answer", n.about>>
  BY DEF Keyed, MessagesFit, Answers, Fits
<1>. QED  BY <1>1 DEF Keyed, KeysAreUnique, Answers

\* Whatever the number of callers and their timing, a subject is asked about once
\* and every listing names that question (open_questions and _materialise).
THEOREM SubjectsAreAskedOnce == Spec => []AskedOnce
BY KeysHold, KeysAskOnce, PTL

\* Whatever the number of callers and their timing, a question has two verdicts
\* only if somebody chose a key for one of them (answer and _default_answer_key).
THEOREM VerdictsAreOne == Spec => []OneVerdict
BY KeysHold, KeysGiveOneVerdict, PTL

-----------------------------------------------------------------------------
(* What was said and what reads it *)

Thread(M, s) == {m \in M : m.session = s}

\* The numbers of a session are those of its messages, none of them twice.
Numbered(M) ==
  /\ IsFiniteSet(M)
  /\ \A m \in M : m.number \in Nat /\ m.number <= Cardinality(Thread(M, m.session))
  /\ \A m, n \in M : Id(m) = Id(n) => m = n

\* A request that is about to enqueue names what it recorded; one that replays
\* found a decision under its key.
Named(r, M) ==
  /\ r.at = "enqueue" => \E m \in M : r.message = Id(m) /\ m.body = r.body /\ m.key = r.key
  /\ r.at = "replay"  => \E m \in M : m.key = r.key /\ m.disposition \in Settles

\* A run belongs to the message of its key and names it, unless that is a decision.
Reads(e, M) ==
  \E m \in M : /\ m.key = e.key
               /\ e.reads = Id(m) \/ (e.reads = Nothing /\ m.disposition \in Settles)

Recorded == /\ Numbered(messages)
            /\ \A v \in Caller : Named(request[v], messages)
            /\ \A e \in runs : Reads(e, messages)

\* A message found by its identifier.
LEMMA FoundById ==
  ASSUME Numbered(messages), NEW m \in messages
  PROVE  ById(Id(m)) = m
BY DEF ById, Numbered

LEMMA LeastNumber ==
  ASSUME NEW T, T \subseteq Nat, T # {}
  PROVE  \E n \in T : \A m \in T : n <= m
<1>1. PICK n \in T : \A m \in T : ~(<<m, n>> \in OpToRel(<, Nat))
  BY NatLessThanWellFounded, WFMin
<1>2. \A m \in T : ~(m < n)
  BY <1>1 DEF OpToRel
<1>. QED  BY <1>2

\* _existing_answer finds a decision when there is one.
LEMMA FirstIsRecorded ==
  ASSUME Numbered(messages), NEW q, ExistingAnswer(q) # {}
  PROVE  First(ExistingAnswer(q)) \in messages /\ First(ExistingAnswer(q)).disposition \in Settles
<1>. DEFINE S == ExistingAnswer(q)
            T == {m.number : m \in S}
<1>1. S # {} /\ \A m \in S : m \in messages /\ m.disposition \in Settles /\ m.number \in Nat
  BY DEF ExistingAnswer, Answers, Numbered
<1>. HIDE DEF S
<1>2. T # {} /\ T \subseteq Nat
  BY <1>1
<1>3. PICK n \in T : \A k \in T : n <= k
  BY <1>2, LeastNumber
<1>4. \E m \in S : \A k \in S : m.number <= k.number
  BY <1>3
<1>5. First(S) \in S
  BY <1>4 DEF First
<1>. QED  BY <1>1, <1>5 DEF S

\* One request goes on, without anything to enqueue or to replay.
Calm(v) == /\ \A u \in Caller \ {v} : request'[u] = request[u]
           /\ request'[v].at \notin {"enqueue", "replay"}

LEMMA NamedStaysNamed ==
  ASSUME NEW r, NEW M, NEW N, M \subseteq N, Named(r, M)
  PROVE  Named(r, N)
BY DEF Named

LEMMA CalmKeepsRecorded ==
  ASSUME Recorded, NEW v \in Caller, Calm(v), UNCHANGED <<messages, runs>>
  PROVE  Recorded'
BY DEF Recorded, Calm, Named

LEMMA BecomingIsCalm ==
  ASSUME RequestsFit, NEW v \in Caller, NEW r, Become(v, r), r.at \notin {"enqueue", "replay"}
  PROVE  Calm(v)
BY DEF RequestsFit, Become, Calm

LEMMA GoingIsCalm ==
  ASSUME RequestsFit, NEW v \in Caller, NEW stage, Goto(v, stage),
         stage \notin {"enqueue", "replay"}
  PROVE  Calm(v)
BY DEF RequestsFit, Sound, None, Goto, Calm

LEMMA LeavingIsCalm ==
  ASSUME RequestsFit, NEW v \in Caller, Leave(v)
  PROVE  Calm(v)
BY BecomingIsCalm DEF Leave, None

LEMMA TurningIsCalm ==
  ASSUME RequestsFit, NEW v \in Caller, NEW r, DOMAIN r = DOMAIN None, Turn(v, r)
  PROVE  Calm(v)
<1>. PICK s \in r.todo, u \in Wording :
       Become(v, [r EXCEPT !.at = "find", !.subject = s, !.body = u,
                           !.key = QuestionKey(s, u), !.todo = @ \ {s}])
  BY DEF Turn
<1>1. [r EXCEPT !.at = "find", !.subject = s, !.body = u,
                !.key = QuestionKey(s, u), !.todo = @ \ {s}].at = "find"
  BY DEF None
<1>. QED  BY <1>1, BecomingIsCalm

LEMMA GoingOnIsCalm ==
  ASSUME RequestsFit, NEW v \in Caller, NEW m, Onward(v, m)
  PROVE  Calm(v)
<1>. DEFINE r == [request[v] EXCEPT !.left = @ - IF Id(m) \in request[v].hidden THEN 0 ELSE 1]
<1>1. DOMAIN r = DOMAIN None
  BY DEF RequestsFit, Sound, None
<1>2. Turn(v, r) \/ Turn(v, Awaiting) \/ Leave(v)
  BY DEF Onward
<1>. QED  BY <1>1, <1>2, TurningIsCalm, LeavingIsCalm, ListingIsShaped DEF Awaiting

\* Asking, numbering and leaving name nothing.
LEMMA AskingIsCalm ==
  ASSUME RequestsFit, NEW v \in Caller,
         List(v) \/ Find(v) \/ FindSession(v) \/ OpenSession(v) \/ Respond(v)
         \/ ReadNumber(v) \/ RetryInsert(v) \/ Refused(v) \/ Die(v)
  PROVE  Calm(v) /\ UNCHANGED <<messages, runs>>
<1>1. UNCHANGED <<messages, runs>>
  BY DEF List, Find, FindSession, OpenSession, Respond, ReadNumber, RetryInsert, Refused, Die
<1>2. DOMAIN request[v] = DOMAIN None
  BY DEF RequestsFit, Sound
<1>3. CASE List(v)
  <2>1. PICK r \in RouteListings \cup ToolListings : Turn(v, r)
    BY <1>3 DEF List
  <2>2. DOMAIN r = DOMAIN None
    BY ListingIsShaped DEF RouteListings, ToolListings
  <2>. QED  BY <1>1, <2>1, <2>2, TurningIsCalm
<1>4. CASE Find(v)
  <2>1. \/ Goto(v, "session") \/ Goto(v, "number")
        \/ \E m \in ByKey(request[v].key) : Onward(v, m)
    BY <1>4 DEF Find
  <2>. QED  BY <1>1, <2>1, GoingIsCalm, GoingOnIsCalm
<1>5. CASE FindSession(v)
  <2>. DEFINE r == IF sessions = 0 THEN [request[v] EXCEPT !.at = "open"]
                   ELSE [request[v] EXCEPT !.at = "number", !.session = sessions]
  <2>1. Become(v, r) /\ r.at \in {"open", "number"}
    BY <1>2, <1>5 DEF FindSession, None
  <2>. QED  BY <1>1, <2>1, BecomingIsCalm
<1>6. CASE OpenSession(v)
  <2>. DEFINE r == [request[v] EXCEPT !.at = "number", !.session = sessions']
  <2>1. Become(v, r) /\ r.at = "number"
    BY <1>2, <1>6 DEF OpenSession, None
  <2>. QED  BY <1>1, <2>1, BecomingIsCalm
<1>7. CASE Respond(v)
  <2>. PICK a \in RouteResponses :
         Become(v, [None EXCEPT !.at = "look", !.type = "answer", !.about = a.about,
                      !.session = ById(a.about).session, !.disposition = a.disposition,
                      !.body = a.text, !.key = AnswerKey(a.about, a.disposition, a.text, a.key)])
    BY <1>7 DEF Respond
  <2>. DEFINE r == [None EXCEPT !.at = "look", !.type = "answer", !.about = a.about,
                      !.session = ById(a.about).session, !.disposition = a.disposition,
                      !.body = a.text, !.key = AnswerKey(a.about, a.disposition, a.text, a.key)]
  <2>1. r.at = "look"
    BY DEF None
  <2>. QED  BY <1>1, <2>1, BecomingIsCalm
<1>8. CASE ReadNumber(v)
  <2>. DEFINE r == [request[v] EXCEPT !.at = "insert", !.number = NextNumber(request[v].session)]
  <2>1. Become(v, r) /\ r.at = "insert"
    BY <1>2, <1>8 DEF ReadNumber, None
  <2>. QED  BY <1>1, <2>1, BecomingIsCalm
<1>9. CASE RetryInsert(v)
  <2>. DEFINE r == [request[v] EXCEPT !.number = NextNumber(request[v].session)]
  <2>1. (Become(v, r) \/ Leave(v)) /\ r.at = "insert"
    BY <1>2, <1>9 DEF RetryInsert, Is, None
  <2>. QED  BY <1>1, <2>1, BecomingIsCalm, LeavingIsCalm
<1>10. CASE Refused(v) \/ Die(v)
  BY <1>1, <1>10, GoingIsCalm, LeavingIsCalm DEF Refused, Die
<1>. QED  BY <1>3, <1>4, <1>5, <1>6, <1>7, <1>8, <1>9, <1>10

\* A request becomes r and the messages and runs are told of.
LEMMA OneRequestNamed ==
  ASSUME Recorded, RequestsFit, NEW v \in Caller, NEW r, Become(v, r),
         messages \subseteq messages', Numbered(messages)', Named(r, messages'),
         \A e \in runs' : e \in runs \/ Reads(e, messages')
  PROVE  Recorded'
<1>1. \A u \in Caller \ {v} : request'[u] = request[u]
  BY DEF RequestsFit, Become
<1>2. request'[v] = r
  BY DEF RequestsFit, Become
<1>3. \A u \in Caller : Named(request'[u], messages')
  BY <1>1, <1>2, NamedStaysNamed DEF Recorded
<1>4. \A e \in runs' : Reads(e, messages')
  BY DEF Recorded, Reads
<1>. QED  BY <1>3, <1>4 DEF Recorded

\* A look at the question finds a decision under the request's key, or none.
LEMMA LookingKeepsRecorded ==
  ASSUME Recorded, RequestsFit, NEW v \in Caller, Look(v)
  PROVE  Recorded'
<1>1. UNCHANGED <<messages, runs>> /\ ~Is(v, "idle") /\ DOMAIN request[v] = DOMAIN None
  BY DEF Look, Is, RequestsFit, Sound
<1>2. CASE Goto(v, "number") \/ Leave(v)
  BY <1>1, <1>2, GoingIsCalm, LeavingIsCalm, CalmKeepsRecorded
<1>3. CASE ~(Goto(v, "number") \/ Leave(v))
  <2>1. PICK q : q = request[v].about
    OBVIOUS
  <2>2. /\ ExistingAnswer(q) # {} /\ First(ExistingAnswer(q)).key = request[v].key
        /\ Goto(v, "replay")
    BY <1>3, <2>1 DEF Look
  <2>3. PICK m \in messages : m.key = request[v].key /\ m.disposition \in Settles
    BY <2>2, FirstIsRecorded DEF Recorded
  <2>4. PICK r : r = [request[v] EXCEPT !.at = "replay"]
    OBVIOUS
  <2>5. r.at = "replay" /\ r.key = request[v].key
    BY <1>1, <2>4 DEF None
  <2>6. Become(v, r)
    BY <2>2, <2>4 DEF Goto, Become, RequestsFit
  <2>7. Named(r, messages')
    BY <1>1, <2>3, <2>5 DEF Named
  <2>8. Numbered(messages)'
    BY <1>1 DEF Recorded, Numbered, Thread, Id
  <2>. QED  BY <1>1, <2>6, <2>7, <2>8, OneRequestNamed
<1>. QED  BY <1>2, <1>3

\* Every run that is enqueued belongs to the message of its key.
LEMMA ReplyIsCalm ==
  ASSUME RequestsFit, NEW v \in Caller, Reply(v)
  PROVE  Calm(v)
BY GoingIsCalm, LeavingIsCalm DEF Reply

LEMMA CalmScheduling ==
  ASSUME Recorded, NEW v \in Caller, Calm(v), UNCHANGED messages,
         NEW k, NEW i, Schedule(k, i),
         \E m \in messages : m.key = k /\ (i = Id(m) \/ (i = Nothing /\ m.disposition \in Settles))
  PROVE  Recorded'
<1>1. \A e \in runs' : e \in runs \/ e = [key |-> k, reads |-> i]
  BY DEF Schedule
<1>2. Reads([key |-> k, reads |-> i], messages)
  BY DEF Reads
<1>3. \A e \in runs' : Reads(e, messages)
  BY <1>1, <1>2 DEF Recorded
<1>4. \A u \in Caller : Named(request'[u], messages)
  BY DEF Recorded, Calm, Named
<1>. QED  BY <1>3, <1>4 DEF Recorded

LEMMA EnqueueingKeepsRecorded ==
  ASSUME Recorded, RequestsFit, NEW v \in Caller, Enqueue(v) \/ Replay(v) \/ Progress(v)
  PROVE  Recorded'
<1>1. UNCHANGED messages
  BY DEF Enqueue, Replay, Progress
<1>2. CASE Enqueue(v)
  <2>1. Calm(v) /\ request[v].at = "enqueue" /\ Schedule(request[v].key, request[v].message)
    BY <1>2, ReplyIsCalm DEF Enqueue, Is
  <2>2. PICK m \in messages : request[v].message = Id(m) /\ m.key = request[v].key
    BY <2>1 DEF Recorded, Named
  <2>. QED  BY <1>1, <2>1, <2>2, CalmScheduling
<1>3. CASE Replay(v)
  <2>1. Calm(v) /\ request[v].at = "replay" /\ Schedule(request[v].key, Nothing)
    BY <1>3, ReplyIsCalm DEF Replay, Is
  <2>2. PICK m \in messages : m.disposition \in Settles /\ m.key = request[v].key
    BY <2>1 DEF Recorded, Named
  <2>. QED  BY <1>1, <2>1, <2>2, CalmScheduling
<1>4. CASE Progress(v)
  <2>1. Calm(v)
    BY <1>4, LeavingIsCalm DEF Progress
  <2>2. PICK q : q = request[v].about
    OBVIOUS
  <2>3. CASE ExistingAnswer(q) = {}
    BY <1>1, <1>4, <2>1, <2>2, <2>3, CalmKeepsRecorded DEF Progress
  <2>4. CASE ExistingAnswer(q) # {}
    <3>1. Schedule(First(ExistingAnswer(q)).key, Nothing)
      BY <1>4, <2>2, <2>4 DEF Progress
    <3>2. PICK m \in messages : m = First(ExistingAnswer(q)) /\ m.disposition \in Settles
      BY <2>4, FirstIsRecorded DEF Recorded
    <3>. QED  BY <1>1, <2>1, <3>1, <3>2, CalmScheduling
  <2>. QED  BY <2>3, <2>4
<1>. QED  BY <1>2, <1>3, <1>4

\* A caller who lost a race is told of the message its key recorded, in the words
\* the caller used.
LEMMA ResolvingKeepsRecorded ==
  ASSUME Recorded, RequestsFit, NEW v \in Caller, Resolve(v)
  PROVE  Recorded'
<1>1. UNCHANGED <<messages, runs>> /\ DOMAIN request[v] = DOMAIN None
  BY DEF Resolve, RequestsFit, Sound
<1>2. CASE Leave(v)
  BY <1>1, <1>2, LeavingIsCalm, CalmKeepsRecorded
<1>3. ASSUME NEW m, Onward(v, m) PROVE Recorded'
  BY <1>1, <1>3, GoingOnIsCalm, CalmKeepsRecorded
<1>4. ASSUME NEW m \in ByKey(request[v].key), SamePayload(v, m),
             Become(v, [request[v] EXCEPT !.at = "enqueue", !.message = Id(m)])
      PROVE  Recorded'
  <2>1. PICK r : r = [request[v] EXCEPT !.at = "enqueue", !.message = Id(m)]
    OBVIOUS
  <2>2. /\ r.at = "enqueue" /\ r.message = Id(m) /\ r.body = request[v].body
        /\ r.key = request[v].key
    BY <1>1, <2>1 DEF None
  <2>3. Named(r, messages')
    BY <1>1, <1>4, <2>2 DEF Named, ByKey, SamePayload
  <2>4. Numbered(messages)'
    BY <1>1 DEF Recorded, Numbered, Thread, Id
  <2>. QED  BY <1>1, <1>4, <2>1, <2>3, <2>4, OneRequestNamed
<1>. QED  BY <1>2, <1>3, <1>4 DEF Resolve

\* The next number of a session is beyond those it has.
LEMMA NumberingGoesOn ==
  ASSUME NEW M, Numbered(M), NEW m, m \notin M,
         m.number = 1 + Cardinality(Thread(M, m.session))
  PROVE  Numbered(M \cup {m})
<1>. DEFINE N == M \cup {m}
<1>1. IsFiniteSet(M) /\ IsFiniteSet(N) /\ \A s : IsFiniteSet(Thread(M, s)) /\ IsFiniteSet(Thread(N, s))
  <2>1. IsFiniteSet(M)
    BY DEF Numbered
  <2>2. IsFiniteSet(N)
    BY <2>1, FS_AddElement
  <2>3. \A s : Thread(M, s) \subseteq M /\ Thread(N, s) \subseteq N
    BY DEF Thread
  <2>. QED  BY <2>1, <2>2, <2>3, FS_Subset
<1>2. Thread(N, m.session) = Thread(M, m.session) \cup {m}
  BY DEF Thread
<1>3. m \notin Thread(M, m.session)
  BY DEF Thread
<1>4. Cardinality(Thread(N, m.session)) = Cardinality(Thread(M, m.session)) + 1
  BY <1>1, <1>2, <1>3, FS_AddElement
<1>5. \A s : s # m.session => Thread(N, s) = Thread(M, s)
  BY DEF Thread
<1>6. \A s : Cardinality(Thread(M, s)) \in Nat
  BY <1>1, FS_CardinalityType
<1>7. \A n \in M : n.number \in Nat /\ n.number <= Cardinality(Thread(M, n.session))
  BY DEF Numbered
<1>8. \A n \in N : n.number \in Nat /\ n.number <= Cardinality(Thread(N, n.session))
  <2>. TAKE n \in N
  <2>1. CASE n = m
    BY <1>4, <1>6, <2>1
  <2>2. CASE n # m /\ n.session = m.session
    BY <1>4, <1>6, <1>7, <2>2
  <2>3. CASE n # m /\ n.session # m.session
    BY <1>5, <1>7, <2>3
  <2>. QED  BY <2>1, <2>2, <2>3
<1>9. \A n \in M : Id(n) # Id(m)
  BY <1>6, <1>7 DEF Id
<1>10. \A n, k \in N : Id(n) = Id(k) => n = k
  BY <1>9 DEF Numbered
<1>. QED  BY <1>1, <1>8, <1>10 DEF Numbered

LEMMA InsertingKeepsRecorded ==
  ASSUME Recorded, RequestsFit, NEW v \in Caller, Insert(v)
  PROVE  Recorded'
<1>1. PICK m : m = Message(v)
  OBVIOUS
<1>2. /\ messages' = messages \cup {m} /\ UNCHANGED runs
      /\ ~Outdated(v) /\ ByKey(request[v].key) = {} /\ DOMAIN request[v] = DOMAIN None
  BY <1>1 DEF Insert, Violates, RequestsFit, Sound
<1>3. /\ m.number = request[v].number /\ m.session = request[v].session
      /\ m.key = request[v].key /\ m.body = request[v].body
  BY <1>1 DEF Message
<1>4. m \notin messages
  BY <1>2, <1>3 DEF ByKey
<1>5. m.number = 1 + Cardinality(Thread(messages, m.session))
  <2>1. request[v].number = NextNumber(request[v].session)
    BY <1>2 DEF Outdated
  <2>. QED  BY <1>3, <2>1 DEF NextNumber, Thread
<1>6. Numbered(messages')
  BY <1>2, <1>4, <1>5, NumberingGoesOn DEF Recorded
<1>7. \A e \in runs' : Reads(e, messages')
  BY <1>2 DEF Recorded, Reads
<1>8. CASE Onward(v, m)
  <2>1. Calm(v)
    BY <1>8, GoingOnIsCalm
  <2>2. \A u \in Caller : Named(request'[u], messages')
    BY <1>2, <2>1, NamedStaysNamed DEF Recorded, Calm, Named
  <2>. QED  BY <1>6, <1>7, <2>2 DEF Recorded
<1>9. CASE Become(v, [request[v] EXCEPT !.at = "enqueue", !.message = Id(m)])
  <2>1. PICK r : r = [request[v] EXCEPT !.at = "enqueue", !.message = Id(m)]
    OBVIOUS
  <2>2. /\ r.at = "enqueue" /\ r.message = Id(m) /\ r.body = request[v].body
        /\ r.key = request[v].key
    BY <1>2, <2>1 DEF None
  <2>3. Named(r, messages')
    BY <1>2, <1>3, <2>2 DEF Named
  <2>4. Numbered(messages)'
    BY <1>6 DEF Numbered, Thread, Id
  <2>. QED  BY <1>2, <1>7, <1>9, <2>1, <2>3, <2>4, OneRequestNamed
<1>10. Onward(v, m) \/ Become(v, [request[v] EXCEPT !.at = "enqueue", !.message = Id(m)])
  BY <1>1 DEF Insert
<1>. QED  BY <1>8, <1>9, <1>10

-----------------------------------------------------------------------------
LEMMA InitRecorded == Init => Recorded
<1>. SUFFICES ASSUME Init PROVE Recorded
  OBVIOUS
<1>1. Numbered(messages)
  BY FS_EmptySet DEF Init, Numbered
<1>2. \A v \in Caller : Named(request[v], messages)
  BY DEF Init, Named, None
<1>. QED  BY <1>1, <1>2 DEF Init, Recorded

LEMMA NextKeepsRecorded == Keyed /\ Recorded /\ [Next]_vars => Recorded'
<1>. SUFFICES ASSUME Keyed, Recorded, [Next]_vars PROVE Recorded'
  OBVIOUS
<1>. RequestsFit
  BY DEF Keyed
<1>1. CASE UNCHANGED vars \/ OpenConversation
  <2>1. UNCHANGED <<messages, runs, request>>
    BY <1>1 DEF vars, OpenConversation
  <2>. QED  BY <2>1 DEF Recorded, Named
<1>2. ASSUME NEW v \in Caller,
             List(v) \/ Find(v) \/ FindSession(v) \/ OpenSession(v) \/ Respond(v)
             \/ ReadNumber(v) \/ RetryInsert(v) \/ Refused(v) \/ Die(v)
      PROVE  Recorded'
  BY <1>2, AskingIsCalm, CalmKeepsRecorded
<1>3. ASSUME NEW v \in Caller, Look(v) PROVE Recorded'
  BY <1>3, LookingKeepsRecorded
<1>4. ASSUME NEW v \in Caller, Enqueue(v) \/ Replay(v) \/ Progress(v) PROVE Recorded'
  BY <1>4, EnqueueingKeepsRecorded
<1>5. ASSUME NEW v \in Caller, Insert(v) PROVE Recorded'
  BY <1>5, InsertingKeepsRecorded
<1>6. ASSUME NEW v \in Caller, Resolve(v) PROVE Recorded'
  BY <1>6, ResolvingKeepsRecorded
<1>. QED  BY <1>1, <1>2, <1>3, <1>4, <1>5, <1>6 DEF Next, Ask, Answer, Record

LEMMA NothingIsLost == Keyed /\ Recorded => NothingSaidIsDropped
<1>. SUFFICES ASSUME Keyed, Recorded PROVE NothingSaidIsDropped
  OBVIOUS
<1>1. ASSUME NEW v \in Caller, Is(v, "enqueue") PROVE ById(request[v].message).body = request[v].body
  <2>1. PICK m \in messages : request[v].message = Id(m) /\ m.body = request[v].body
    BY <1>1 DEF Recorded, Named, Is
  <2>. QED  BY <2>1, FoundById DEF Recorded
<1>2. ASSUME NEW e \in runs, e.reads # Nothing PROVE ById(e.reads).key = e.key
  <2>1. PICK m \in messages : m.key = e.key /\ e.reads = Id(m)
    BY <1>2 DEF Recorded, Reads
  <2>. QED  BY <2>1, FoundById DEF Recorded
<1>3. ASSUME NEW m \in Answers, NEW e \in runs, e.key = m.key, m.disposition \notin Settles
      PROVE  e.reads = Id(m)
  <2>1. PICK n \in messages : /\ n.key = e.key
                              /\ e.reads = Id(n) \/ (e.reads = Nothing /\ n.disposition \in Settles)
    BY DEF Recorded, Reads
  <2>2. n = m
    BY <1>3, <2>1 DEF Keyed, KeysAreUnique, Answers
  <2>. QED  BY <1>3, <2>1, <2>2
<1>. QED  BY <1>1, <1>2, <1>3 DEF NothingSaidIsDropped

\* Whatever the number of callers, their timing and their deaths, what a caller
\* is told was recorded are the caller's words, a run that names a message names
\* the one its key recorded, and the run of a deferral always names it
\* (record_message, answer and the three places that enqueue_run).
THEOREM NothingIsDropped == Spec => []NothingSaidIsDropped
<1>1. Init => Keyed /\ Recorded
  BY InitKeyed, InitRecorded
<1>2. (Keyed /\ Recorded) /\ [Next]_vars => (Keyed /\ Recorded)'
  BY NextKeepsKeys, NextKeepsRecorded
<1>. QED  BY <1>1, <1>2, NothingIsLost, PTL DEF Spec
=============================================================================
