-------------------------- MODULE KnowledgeReview --------------------------
(***************************************************************************)
(* What people and agents decide about a knowledge item: confirm, reject,  *)
(* correct and supersede (application/memory_service.py over               *)
(* persistence/repositories.py and review_event_repository.py).            *)
(*                                                                         *)
(* Every request is one transaction that looks its key up, loads the items *)
(* one after the other, writes each back and commits.  Under READ          *)
(* COMMITTED other transactions commit between those statements, so each   *)
(* is an action; under serializable isolation a commit on a stale read is  *)
(* refused and the request starts again.                                   *)
(***************************************************************************)
EXTENDS Integers, FiniteSets, Sequences

CONSTANTS
  Reviewer,      \* requests that may be in progress at once
  Item,          \* the knowledge items of one project
  Key,           \* idempotency keys of review decisions
  NoKey,         \* a request without one
  MaxRequests,   \* bound: requests ever started
  Isolation      \* the isolation levels to consider

ASSUME ReviewAssumption ==
  /\ NoKey \notin Key /\ MaxRequests \in Nat
  /\ Isolation \subseteq {"serializable", "read committed"}

\* _ALLOWED_TRANSITIONS
Allowed == [proposed |-> {"validated", "rejected"}, validated |-> {"superseded"},
            rejected |-> {}, superseded |-> {}]

\* The lifecycle each decision aims at; corrections are in Target.
Aim == [review_confirm |-> "validated", confirm_knowledge |-> "validated",
        confirm_knowledge_set |-> "validated", review_reject |-> "rejected",
        reject_knowledge |-> "rejected", supersede_knowledge |-> "superseded"]
Correction == {"review_correct", "correct_knowledge"}
Reviewed   == {"review_confirm", "review_reject", "review_correct"}

VARIABLES
  item,      \* Item -> lifecycle and the wordings of its versions
  index,     \* Item -> the wording its search chunks hold
  edges,     \* SUPERSEDES relationships: <<superseding, superseded>>
  events,    \* knowledge_review_events
  revision,  \* the project's knowledge revision
  request,   \* Reviewer -> the request in progress
  made,      \* requests started so far; a wording is named by its request
  covered,   \* history: Item -> the version its validation was given on
  isolation  \* CockroachDB's isolation level or PostgreSQL's default, for good

vars == <<item, index, edges, events, revision, request, made, covered, isolation>>

Serializable == isolation = "serializable"

Version(i) == Len(item[i].wordings)

-----------------------------------------------------------------------------
(* Requests *)

None == [phase |-> "idle", op |-> "review_confirm", items |-> <<>>, todo |-> <<>>,
         by |-> <<>>, key |-> NoKey, expected |-> 0, user |-> TRUE, number |-> 0,
         loaded |-> {}]

\* A decision about a version its author has seen, under a key or none.
Reviews(op, i, who) ==
  [op : {op}, items : {<<i>>}, by : {<<>>}, key : Key \cup {NoKey},
   expected : 1 .. Version(i), user : who]
Decides(op, items, by) ==
  [op : {op}, items : items, by : by, key : {NoKey}, expected : {0}, user : {TRUE}]

\* The HTTP interface and the tools relay what a person decided about a version;
\* a tool refuses the relay that names no person, no version or no reason.
ConfirmRequests(i)     == Reviews("review_confirm", i, {TRUE})
ToolConfirmRequests(i) == Reviews("review_confirm", i, {TRUE})
RejectRequests(i)      == Reviews("review_reject", i, {TRUE})
ToolRejectRequests(i)  == Reviews("review_reject", i, {TRUE})
CorrectRequests(i)     == Reviews("review_correct", i, {TRUE})
ToolCorrectRequests(i) == Reviews("review_correct", i, {TRUE})
\* The older routes name neither version nor person; a set is one decision.
PlainConfirmRequests(i) == Decides("confirm_knowledge", {<<i>>}, {<<>>})
SetRequests == Decides("confirm_knowledge_set", {s \in Item \X Item : s[1] # s[2]}, {<<>>})
\* What only code that holds the service asks, an agent's decisions included.
ServiceRequests(i) ==
  (UNION {Reviews(op, i, {FALSE}) : op \in Reviewed})
  \cup Decides("reject_knowledge", {<<i>>}, {<<>>}) \cup Decides("correct_knowledge", {<<i>>}, {<<>>})
  \cup Decides("supersede_knowledge", {<<i>>}, {<<j>> : j \in Item \ {i}})
Requests ==
  SetRequests \cup UNION {
    ConfirmRequests(i) \cup ToolConfirmRequests(i) \cup RejectRequests(i) \cup ToolRejectRequests(i)
    \cup CorrectRequests(i) \cup ToolCorrectRequests(i) \cup PlainConfirmRequests(i)
    \cup ServiceRequests(i) : i \in Item}

\* The lifecycle a request leaves an item in.  Only a person's correction of a
\* statement nobody has ruled on validates it.
Target(q, life) ==
  IF q.op \notin Correction THEN Aim[q.op]
  ELSE IF q.op = "review_correct" /\ q.user /\ life = "proposed" THEN "validated"
  ELSE "proposed"

\* Why a loaded item ends the request without a write: the version moved, the
\* decision already holds, or the lifecycle does not admit it.
Refused(q, i) ==
  \/ q.op \in Reviewed /\ q.expected # Version(i)
  \/ q.op \in Correction /\ item[i].life \in {"rejected", "superseded"}
  \/ /\ q.op \notin Correction
     /\ Aim[q.op] \notin Allowed[item[i].life]
     /\ ~(q.op = "confirm_knowledge_set" /\ item[i].life = "validated")

\* Mutant of Recorded: the key is looked up among confirmations only.
RecordedElsewhere(i, k) ==
  \E e \in events : k # NoKey /\ e.item = i /\ e.key = k /\ e.op = "review_confirm"
\* find_by_idempotency_key, and the unique index on (item, key).
Recorded(i, k) == \E e \in events : k # NoKey /\ e.item = i /\ e.key = k

\* The row is updated only when the loaded lifecycle differs from the target.
Writes(q, c) == Target(q, c.life) # c.life

\* A row another open transaction has updated.
Locked(i) == \E v \in Reviewer : \E c \in request[v].loaded :
               c.item = i /\ c.saved /\ Writes(request[v], c)

Finish(v) == request' = [request EXCEPT ![v] = None]
Unwritten == UNCHANGED <<item, index, edges, events, revision, made, covered, isolation>>

Begin(v) ==
  /\ request[v].phase = "idle" /\ made < MaxRequests
  /\ \E q \in Requests :
       request' = [request EXCEPT ![v] =
         IF Recorded(q.items[1], q.key) THEN None
         ELSE [phase |-> "begun", op |-> q.op, items |-> q.items, todo |-> q.items,
               by |-> q.by, key |-> q.key, expected |-> q.expected, user |-> q.user,
               number |-> made + 1, loaded |-> {}]]
  /\ made' = made + 1
  /\ UNCHANGED <<item, index, edges, events, revision, covered, isolation>>

Load(v) ==
  LET q == request[v]  i == Head(q.todo)
  IN /\ q.phase = "begun"
     /\ IF Refused(q, i) THEN Finish(v)
        ELSE request' = [request EXCEPT ![v].phase = "loaded",
               ![v].loaded = @ \cup {[item |-> i, life |-> item[i].life,
                                      version |-> Version(i), adds |-> FALSE,
                                      saved |-> FALSE]}]
     /\ Unwritten

\* The record a request writes back next, once the update gets the row.
MaySave(v, c) ==
  /\ request[v].phase = "loaded" /\ c \in request[v].loaded
  /\ c.item = Head(request[v].todo)
  /\ Writes(request[v], c) => ~Locked(c.item)

\* SqlAlchemyKnowledgeRepository.save: the update waits for the row, and then a
\* version is added unless its number exists by now.
Save(v) ==
  LET q == request[v]  i == Head(q.todo)
  IN /\ \E c \in q.loaded :
          /\ MaySave(v, c)
          /\ LET done == [c EXCEPT !.saved = TRUE,
                            !.adds = q.op \in Correction /\ Version(i) = c.version]
             IN request' = [request EXCEPT
                  ![v].phase = IF Len(q.todo) = 1 THEN "saved" ELSE "begun",
                  ![v].todo = Tail(@),
                  ![v].loaded = (@ \ {c}) \cup {done}]
     /\ Unwritten

Restart(v) == [request[v] EXCEPT !.phase = "begun", !.todo = request[v].items, !.loaded = {}]

\* The retrying runner starts the request again; a key that was recorded
\* meanwhile makes it a replay.
StartsOver(v) ==
  request' = [request EXCEPT ![v] =
    IF Recorded(request[v].items[1], request[v].key) THEN None ELSE Restart(v)]

\* Open transactions that wait for each other's rows in a circle: the database
\* ends one of them, which is retried where stale reads are refused, too.
Waits(v, u) == /\ request[v].phase = "loaded"
               /\ \E c \in request[v].loaded, d \in request[u].loaded :
                    /\ c.item = Head(request[v].todo) /\ ~c.saved /\ Writes(request[v], c)
                    /\ d.item = c.item /\ d.saved /\ Writes(request[u], d)
\* Mutant of Entangled: only a transaction that waits for itself is found.
EntangledAlone(v) == Waits(v, v)
Entangled(v) ==
  \E circle \in SUBSET Reviewer :
    /\ v \in circle
    /\ \A u \in circle : (\E w \in circle : Waits(u, w)) /\ (\E w \in circle : Waits(w, u))
Deadlocked(v) ==
  /\ Entangled(v) /\ Unwritten
  /\ Finish(v) \/ (Serializable /\ StartsOver(v))

\* Mutant of Stale: only the item row is validated, not its versions.
StaleLifecycle(v) == \E c \in request[v].loaded : c.life # item[c.item].life
Stale(v) == \E c \in request[v].loaded :
              c.life # item[c.item].life \/ c.version # Version(c.item)

\* SQLSTATE 40001: what the request read was overtaken, or its key was recorded.
Retries(v) == Serializable /\ (Stale(v) \/ Recorded(request[v].items[1], request[v].key))
Retry(v) ==
  /\ request[v].phase = "saved" /\ Retries(v)
  /\ StartsOver(v) /\ Unwritten

\* A unique constraint is violated: the same key, or the same version number.
Duplicate(v) == \/ Recorded(request[v].items[1], request[v].key)
                \/ \E c \in request[v].loaded : c.adds /\ Version(c.item) # c.version
\* Nothing is written: the caller is told what its key recorded or, as when the
\* retries are used up, sees the database's error.
Loses(v) == IF Serializable THEN Stale(v) ELSE Duplicate(v)
RaceLost(v) ==
  /\ request[v].phase = "saved" /\ Loses(v)
  /\ Finish(v) /\ Unwritten

\* The event a request appends, for the items it decides with one.
Decided(q) ==
  IF q.op \notin Reviewed \cup {"reject_knowledge"} THEN {}
  ELSE {[item |-> c.item, key |-> q.key, op |-> q.op, from |-> c.life,
         to |-> Target(q, c.life), number |-> q.number,
         version |-> IF q.op \in Correction THEN c.version + 1 ELSE c.version] : c \in q.loaded}

\* supersede_knowledge: the item that takes its place points at it.
Superseded(q) == {<<q.by[j], q.items[1]>> : j \in DOMAIN q.by}

\* bump_knowledge_revision
Bumped(q) == revision + 1

\* _reindex
Reindexed(q) == [i \in Item |->
  IF q.op \in Correction /\ (\E c \in q.loaded : c.item = i) THEN q.number ELSE index[i]]

Wins(v) ==
  IF Serializable THEN ~Stale(v) /\ ~Recorded(request[v].items[1], request[v].key) ELSE ~Duplicate(v)
Commit(v) ==
  LET q == request[v]
      of(i) == {c \in q.loaded : c.item = i}
  IN /\ q.phase = "saved"
     /\ Wins(v)
     /\ item' = [i \in Item |->
          [life |-> IF \E c \in of(i) : Writes(q, c)
                    THEN Target(q, (CHOOSE c \in of(i) : TRUE).life) ELSE item[i].life,
           wordings |-> IF \E c \in of(i) : c.adds
                        THEN Append(item[i].wordings, q.number) ELSE item[i].wordings]]
     /\ index' = Reindexed(q)
     /\ edges' = edges \cup Superseded(q)
     /\ events' = events \cup Decided(q)
     /\ revision' = Bumped(q)
     /\ covered' = [i \in Item |->
          IF \E c \in of(i) : Writes(q, c) /\ Target(q, c.life) = "validated"
          THEN LET c == CHOOSE c \in of(i) : TRUE
               IN IF q.op \in Correction THEN c.version + 1 ELSE c.version
          ELSE covered[i]]
     /\ Finish(v)
     /\ UNCHANGED <<made, isolation>>

-----------------------------------------------------------------------------
Init ==
  /\ item = [i \in Item |-> [life |-> "proposed", wordings |-> <<0>>]]
  /\ index = [i \in Item |-> 0]
  /\ edges = {} /\ events = {} /\ revision = 0 /\ made = 0
  /\ request = [v \in Reviewer |-> None]
  /\ covered = [i \in Item |-> 0]
  /\ isolation \in Isolation

Handle(v) == Load(v) \/ Save(v) \/ Deadlocked(v) \/ Retry(v) \/ RaceLost(v) \/ Commit(v)
Next == \E v \in Reviewer : Begin(v) \/ Handle(v)
Spec == Init /\ [][Next]_vars

-----------------------------------------------------------------------------
(* Properties *)

Wording == 0 .. MaxRequests

\* Where stale reads are refused, a validated item carries the wording its
\* validation was given on: a decision never lands on text the decider did not
\* load (`expected_version`).
AuthorityCoversWording ==
  Serializable =>
    \A i \in Item : item[i].life = "validated" => covered[i] = Version(i)

\* Where stale reads are refused, a correction that was accepted is in the
\* version history under the number its event names, with its wording, and the
\* search chunks hold the last of them (correct_knowledge, `_reindex`).
CorrectionIsKept ==
  Serializable =>
    /\ \A e \in events : e.op = "review_correct" =>
         e.version <= Version(e.item) /\ item[e.item].wordings[e.version] = e.number
    /\ \A i \in Item : index[i] = item[i].wordings[Version(i)]

\* A key names one decision about an item, however its retries race.
OneDecisionPerKey ==
  \A e, f \in events : e.item = f.item /\ e.key = f.key /\ e.key # NoKey => e = f

\* Requests never all wait: whenever one is in progress, one of them can take
\* its next step, because the database breaks the circles of row locks.
MayMove(v) ==
  \/ request[v].phase = "begun"
  \/ \E c \in request[v].loaded : MaySave(v, c)
  \/ Entangled(v)
  \/ request[v].phase = "saved" /\ (Retries(v) \/ Loses(v) \/ Wins(v))
SomeoneProceeds ==
  (\E v \in Reviewer : request[v].phase # "idle") => \E v \in Reviewer : MayMove(v)
=============================================================================
