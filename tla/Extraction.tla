----------------------------- MODULE Extraction -----------------------------
(***************************************************************************)
(* What a step of a run does to the project's knowledge                    *)
(* (worker/execution.py), composed with the run queue that schedules it.   *)
(* The executor talks to the database in transactions of its own, before   *)
(* and outside the fenced save of the run: none of them checks the lease.  *)
(*                                                                         *)
(* Runs submitted by clients extract statements; the runs the executor     *)
(* asks for as follow-ups review, that is assign statements to areas.  A   *)
(* review's key is the knowledge revision it was asked at.                 *)
(***************************************************************************)
EXTENDS RunQueue

CONSTANTS
  Content,   \* the statements a provider may extract
  Area       \* the discovery areas a statement may be assigned to

ASSUME ReviewKeyAssumption == FollowUpKey \subseteq Nat

VARIABLES
  items,     \* the live knowledge items
  links,     \* PRODUCED_BY provenance: <<run, item>>
  areaLinks, \* knowledge_area_links: <<item, area>>
  revision,  \* the project's knowledge revision
  exec,      \* Worker -> what its executor call holds in memory
  considered \* history: items a review has read as candidates

knowledge == <<items, links, areaLinks, revision, considered>>
allVars   == <<vars, knowledge, exec>>

\* An item is identified by the write transaction that inserted it: the run and
\* the claim under which the executor ran, and the statement.
Item == [body : Content, run : Run, token : Nat]

Stage == {"none", "start", "provider", "write", "outstanding", "revision", "review", "assign"}
NotExecuting == [at |-> "none", bodies |-> {}, seen |-> {}, todo |-> {}]
Call(stage)  == [NotExecuting EXCEPT !.at = stage]

At(w, stage)   == InPhase(w, "stepping") /\ exec[w].at = stage
IsReview(r)    == row[r].key \in FollowUpKey
Advance(w, e)  == exec' = [exec EXCEPT ![w] = e]
Done(followUp) == [kind |-> "done", followUp |-> followUp]
Raised         == [kind |-> "raised", followUp |-> NoKey]

\* The executor returns (or raises) and the worker takes over.
Return(w, outcome) == StepReturns(w, outcome) /\ Advance(w, NotExecuting)

-----------------------------------------------------------------------------
(* AgentStepExecutor.__call__ *)

Produced(r) == {l[2] : l \in {k \in links : k[1] = r}}

\* Mutant of HasOutput: the executor does not look for earlier output.
NeverHasOutput(r) == FALSE
\* knowledge_produced_by(run.id) is not empty.
HasOutput(r) == Produced(r) # {}

\* A replayed step reports the existing output and asks for nothing.
Replay(w) ==
  /\ At(w, "start") /\ HasOutput(worker[w].run)
  /\ Return(w, Done(NoKey))
  /\ UNCHANGED <<knowledge, faults>>

Dispatch(w) ==
  /\ At(w, "start") /\ ~HasOutput(worker[w].run)
  /\ Advance(w, Call(IF IsReview(worker[w].run) THEN "review" ELSE "provider"))
  /\ UNCHANGED <<vars, knowledge>>

\* The provider answers with any statements, or fails.
Extract(w) ==
  /\ At(w, "provider")
  /\ \E bodies \in SUBSET Content :
       Advance(w, [Call("write") EXCEPT !.bodies = bodies, !.seen = items])
  /\ UNCHANGED <<vars, knowledge>>

ProviderFails(w) ==
  /\ exec[w].at \in {"provider", "review"} /\ CanFault
  /\ Return(w, Raised)
  /\ faults' = faults + 1
  /\ UNCHANGED knowledge

-----------------------------------------------------------------------------
(* write_knowledge: one transaction, which read the collapse targets (seen) *)
(* before it inserts.                                                       *)

Twins(w, body) == {i \in exec[w].seen : i.body = body}
Fresh(w) == {b \in exec[w].bodies : Twins(w, b) = {}}
NewItem(w, body) == [body |-> body, run |-> worker[w].run, token |-> worker[w].token]

\* Mutant of Targets: every statement becomes an item of its own.
TargetsNeverCollapse(w) == {NewItem(w, b) : b \in exec[w].bodies}
\* The items the run's statements land on: a twin already there, or a new item.
Targets(w) == {NewItem(w, b) : b \in Fresh(w)}
              \cup {CHOOSE i \in Twins(w, b) : TRUE : b \in exec[w].bodies \ Fresh(w)}

WriteKnowledge(w) ==
  /\ At(w, "write") /\ (Serializable => exec[w].seen = items)
  /\ items' = items \cup Targets(w)
  /\ links' = links \cup {<<worker[w].run, i>> : i \in Targets(w)}
  /\ revision' = IF Fresh(w) = {} THEN revision ELSE revision + 1
  /\ Advance(w, Call("outstanding"))
  /\ UNCHANGED <<vars, areaLinks, considered>>

WriteRetry(w) ==
  /\ At(w, "write") /\ Serializable /\ exec[w].seen # items
  /\ Advance(w, [exec[w] EXCEPT !.seen = items])
  /\ UNCHANGED <<vars, knowledge>>

\* The retries are used up: the error reaches the worker.
WriteGivesUp(w) ==
  /\ At(w, "write") /\ Serializable /\ exec[w].seen # items
  /\ Return(w, Raised)
  /\ UNCHANGED <<knowledge, faults>>

-----------------------------------------------------------------------------
(* _review_when_the_queue_drains: the runs are read in one transaction, the *)
(* revision in another, and the run is saved in a third.                    *)

\* Mutant of OthersOutstanding: the run itself counts as outstanding.
AnyOutstanding(r) == \E s \in Run : Present(s) /\ row[s].status \notin Terminal
OthersOutstanding(r) ==
  \E s \in Run \ {r} : Present(s) /\ row[s].status \notin Terminal

NothingToFollow(w) ==
  /\ At(w, "outstanding") /\ OthersOutstanding(worker[w].run)
  /\ Return(w, Done(NoKey))
  /\ UNCHANGED <<knowledge, faults>>

LastOneStanding(w) ==
  /\ At(w, "outstanding") /\ ~OthersOutstanding(worker[w].run)
  /\ Advance(w, Call("revision"))
  /\ UNCHANGED <<vars, knowledge>>

AskForReview(w) ==
  /\ At(w, "revision") /\ revision \in FollowUpKey
  /\ Return(w, Done(revision))
  /\ UNCHANGED <<knowledge, faults>>

-----------------------------------------------------------------------------
(* _review: the statements without an area are classified, then assigned    *)
(* one transaction at a time.                                               *)

Unplaced == {i \in items : \A a \in Area : <<i, a>> \notin areaLinks}

ReviewRead(w) ==
  /\ At(w, "review")
  /\ \E placing \in [Unplaced -> SUBSET Area] :
       /\ \A i \in Unplaced : \A a, b \in placing[i] : a = b
       /\ Advance(w, [Call("assign") EXCEPT
                        !.todo = {p \in Unplaced \X Area : p[2] \in placing[p[1]]}])
  /\ considered' = considered \cup Unplaced
  /\ UNCHANGED <<vars, items, links, areaLinks, revision>>

AssignArea(w) ==
  /\ At(w, "assign")
  /\ \E p \in exec[w].todo :
       /\ p \notin areaLinks
       /\ areaLinks' = areaLinks \cup {p}
       /\ Advance(w, [exec[w] EXCEPT !.todo = @ \ {p}])
  /\ revision' = revision + 1
  /\ UNCHANGED <<vars, items, links, considered>>

\* UniqueConstraint("knowledge_item_id", "area_key"): another review was first,
\* and the IntegrityError is not one of the errors the loop survives.
AssignAgain(w) ==
  /\ At(w, "assign") /\ exec[w].todo \cap areaLinks # {}
  /\ Return(w, Raised)
  /\ UNCHANGED <<knowledge, faults>>

\* Readiness is recalculated (module Readiness) and the step is done.
ReviewDone(w) ==
  /\ At(w, "assign") /\ exec[w].todo = {}
  /\ Return(w, Done(NoKey))
  /\ UNCHANGED <<knowledge, faults>>

-----------------------------------------------------------------------------
Execute(w) ==
  \/ Replay(w) \/ Dispatch(w) \/ Extract(w) \/ ProviderFails(w)
  \/ WriteKnowledge(w) \/ WriteRetry(w) \/ WriteGivesUp(w)
  \/ NothingToFollow(w) \/ LastOneStanding(w) \/ AskForReview(w)
  \/ ReviewRead(w) \/ AssignArea(w) \/ AssignAgain(w) \/ ReviewDone(w)

\* The queue's own steps; a renewed lease starts a call of the executor.
BeginStep(w) == HeartbeatOk(w) /\ Advance(w, Call("start")) /\ UNCHANGED knowledge
Kill(w)      == Crash(w) /\ Advance(w, NotExecuting) /\ UNCHANGED knowledge
QueueStep(w) ==
  /\ \/ Claim(w) \/ HeartbeatLost(w) \/ Settle(w)
     \/ RequestStop(w) \/ Exit(w) \/ Restart(w)
  /\ UNCHANGED <<knowledge, exec>>
Environment ==
  /\ (\E c \in Client : Enqueue(c)) \/ Tick
  /\ UNCHANGED <<knowledge, exec>>

InitExtraction ==
  /\ Init
  /\ items = {} /\ links = {} /\ areaLinks = {} /\ revision = 0 /\ considered = {}
  /\ exec = [w \in Worker |-> NotExecuting]

NextExtraction ==
  \/ \E w \in Worker : Execute(w) \/ BeginStep(w) \/ Kill(w) \/ QueueStep(w)
  \/ Environment

SpecExtraction == InitExtraction /\ [][NextExtraction]_allVars

-----------------------------------------------------------------------------
(* Properties *)

\* A run that is retried, reclaimed or replayed does not do its work a second
\* time: its statements come from one of its attempts, and reviews, however often
\* they are made, place a statement in at most one area, so that readiness counts
\* it once.
OutputIsWrittenOnce ==
  /\ \A i, j \in items : i.run = j.run => i.token = j.token
  /\ \A i \in items : Cardinality({a \in Area : <<i, a>> \in areaLinks}) <= 1

\* The same statement reaching two runs is one live item with two sources, also
\* when two workers write it at once, where stale reads are refused.
NoTwins == \A i, j \in items : i.body = j.body => i = j

\* The processes run, the clock advances, and a stopped worker is restarted.
FairExtraction ==
  /\ SpecExtraction /\ WF_allVars(Environment)
  /\ \A w \in Worker : WF_allVars(Execute(w) \/ BeginStep(w) \/ QueueStep(w))

\* As long as nothing fails, everything a run wrote is eventually read by a
\* review, although no client ever asks for one (FollowUp).
WrittenIsReviewed ==
  [](faults = 0) => \A r \in Run : HasOutput(r) ~> Produced(r) \subseteq considered
=============================================================================
