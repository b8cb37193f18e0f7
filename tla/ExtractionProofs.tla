-------------------------- MODULE ExtractionProofs --------------------------
(***************************************************************************)
(* Theorems about what steps do to the project's knowledge, for any number *)
(* of runs, statements, areas, retries and faults.                         *)
(***************************************************************************)
EXTENDS Extraction, RunQueueProofs, FiniteSetTheorems

-----------------------------------------------------------------------------
(* One live item per statement, where stale reads are refused.              *)

\* The statements of a write land on a twin that was read or on a new item.
LEMMA TargetsAreTwinsOrNew ==
  ASSUME NEW w, NEW i \in Targets(w)
  PROVE  \/ i \in exec[w].seen
         \/ \E b \in Fresh(w) : i = NewItem(w, b)
<1>1. CASE i \in {NewItem(w, b) : b \in Fresh(w)}
  BY <1>1
<1>2. CASE i \in {CHOOSE j \in Twins(w, b) : TRUE : b \in exec[w].bodies \ Fresh(w)}
  <2>1. PICK b \in exec[w].bodies \ Fresh(w) : i = CHOOSE j \in Twins(w, b) : TRUE
    BY <1>2
  <2>2. Twins(w, b) # {}
    BY DEF Fresh
  <2>3. i \in Twins(w, b)
    BY <2>1, <2>2
  <2>. QED  BY <2>3 DEF Twins
<1>. QED  BY <1>1, <1>2 DEF Targets

LEMMA WritingMakesNoTwin ==
  ASSUME NoTwins, Serializable, NEW w \in Worker, WriteKnowledge(w)
  PROVE  NoTwins'
<1>. SUFFICES ASSUME NEW i \in items \cup Targets(w), NEW j \in items \cup Targets(w),
                     i.body = j.body
              PROVE  i = j
  BY DEF WriteKnowledge, NoTwins
<1>1. exec[w].seen = items
  BY DEF WriteKnowledge
<1>2. \A k \in items \cup Targets(w) : \/ k \in items
                                       \/ \E b \in Fresh(w) : k = NewItem(w, b)
  BY <1>1, TargetsAreTwinsOrNew
<1>3. ASSUME NEW k \in items, NEW b \in Fresh(w)  PROVE k.body # b
  BY <1>1 DEF Fresh, Twins
<1>4. \A b : NewItem(w, b).body = b
  BY DEF NewItem
<1>. QED  BY <1>2, <1>3, <1>4 DEF NoTwins

LEMMA OnlyWritesAddItems ==
  ASSUME [NextExtraction]_allVars
  PROVE  /\ isolation' = isolation
         /\ UNCHANGED items \/ \E w \in Worker : WriteKnowledge(w)
<1>1. CASE UNCHANGED allVars
  BY <1>1 DEF allVars, vars, knowledge
<1>2. ASSUME NEW w \in Worker, Execute(w)
      PROVE  isolation' = isolation /\ (UNCHANGED items \/ WriteKnowledge(w))
  <2>1. CASE WriteKnowledge(w)
    BY <2>1 DEF WriteKnowledge, vars
  <2>2. CASE Dispatch(w) \/ Extract(w) \/ WriteRetry(w) \/ LastOneStanding(w) \/ ReviewRead(w)
             \/ AssignArea(w)
    BY <2>2 DEF Dispatch, Extract, WriteRetry, LastOneStanding, ReviewRead, AssignArea, vars,
                knowledge
  <2>3. CASE Replay(w) \/ ProviderFails(w) \/ WriteGivesUp(w) \/ NothingToFollow(w)
             \/ AskForReview(w) \/ AssignAgain(w) \/ ReviewDone(w)
    BY <2>3 DEF Replay, ProviderFails, WriteGivesUp, NothingToFollow, AskForReview, AssignAgain,
                ReviewDone, Return, StepReturns, knowledge
  <2>. QED  BY <1>2, <2>1, <2>2, <2>3 DEF Execute
<1>3. ASSUME NEW w \in Worker, BeginStep(w) \/ Kill(w) \/ QueueStep(w)
      PROVE  isolation' = isolation /\ UNCHANGED items
  BY <1>3 DEF BeginStep, Kill, QueueStep, knowledge, HeartbeatOk, Crash, Claim, ClaimRead,
              ClaimWin, ClaimLose, ClaimRetry, ClaimCollide, HeartbeatLost, Settle, Checkpoint,
              Succeed, SaveBegin, SaveCommit, SaveCollide, SaveRetry, Fail, Release, RequestStop,
              Exit, Restart
<1>4. CASE Environment
  BY <1>4 DEF Environment, knowledge, Enqueue, EnqueueLookup, EnqueueInsert, Tick
<1>. QED  BY <1>1, <1>2, <1>3, <1>4 DEF NextExtraction

\* However many workers write at once, a statement is one live item under
\* serializable isolation.
THEOREM StatementsHaveNoTwins == SpecExtraction => [](Serializable => NoTwins)
<1>1. InitExtraction => (Serializable => NoTwins)
  BY DEF InitExtraction, NoTwins
<1>2. (Serializable => NoTwins) /\ [NextExtraction]_allVars => (Serializable => NoTwins)'
  <2>. SUFFICES ASSUME Serializable => NoTwins, [NextExtraction]_allVars, Serializable'
                PROVE  NoTwins'
    OBVIOUS
  <2>1. Serializable
    BY OnlyWritesAddItems DEF Serializable
  <2>. QED  BY <2>1, OnlyWritesAddItems, WritingMakesNoTwin DEF NoTwins
<1>. QED  BY <1>1, <1>2, PTL DEF SpecExtraction

-----------------------------------------------------------------------------
(* Types *)

LEMMA ReturningKeepsTypes ==
  ASSUME TypeOK, NEW w \in Worker, NEW o \in Outcome, StepReturns(w, o), faults' \in Nat
  PROVE  TypeOK'
<1>1. worker' \in [Worker -> WorkerType]
  BY StepType DEF StepReturns, Phase
<1>. QED  BY <1>1 DEF StepReturns, TypeOK

LEMMA NextExtractionKeepsTypes == TypeOK /\ [NextExtraction]_allVars => TypeOK'
<1>. SUFFICES ASSUME TypeOK, [NextExtraction]_allVars  PROVE  TypeOK'
  OBVIOUS
<1>1. CASE UNCHANGED vars
  BY <1>1, NextKeepsTypes
<1>2. ASSUME NEW w \in Worker, Execute(w)  PROVE  TypeOK'
  <2>1. /\ Done(NoKey) \in Outcome /\ Raised \in Outcome
        /\ \A k \in FollowUpKey : Done(k) \in Outcome
    BY DEF Done, Raised, Outcome
  <2>2. CASE WriteKnowledge(w) \/ Dispatch(w) \/ Extract(w) \/ WriteRetry(w)
             \/ LastOneStanding(w) \/ ReviewRead(w) \/ AssignArea(w)
    BY <1>1, <2>2 DEF WriteKnowledge, Dispatch, Extract, WriteRetry, LastOneStanding, ReviewRead,
                      AssignArea
  <2>3. CASE Replay(w) \/ ProviderFails(w) \/ WriteGivesUp(w) \/ NothingToFollow(w)
             \/ AskForReview(w) \/ AssignAgain(w) \/ ReviewDone(w)
    <3>1. \E o \in Outcome : StepReturns(w, o)
      BY <2>1, <2>3 DEF Replay, ProviderFails, WriteGivesUp, NothingToFollow, AskForReview,
                        AssignAgain, ReviewDone, Return
    <3>2. faults' \in Nat
      BY <2>3 DEF Replay, ProviderFails, WriteGivesUp, NothingToFollow, AskForReview,
                  AssignAgain, ReviewDone, TypeOK
    <3>. QED  BY <3>1, <3>2, ReturningKeepsTypes
  <2>. QED  BY <1>2, <2>2, <2>3 DEF Execute
<1>3. ASSUME NEW w \in Worker, BeginStep(w) \/ Kill(w) \/ QueueStep(w)  PROVE  TypeOK'
  BY <1>3, ClaimKeepsTypes, StepKeepsTypes, SettleKeepsTypes, OthersKeepTypes
     DEF BeginStep, Kill, QueueStep, Heartbeat, Control
<1>4. CASE Environment
  BY <1>4, OthersKeepTypes DEF Environment
<1>. QED  BY <1>1, <1>2, <1>3, <1>4 DEF NextExtraction, allVars

-----------------------------------------------------------------------------
(* Work is done once, as long as calls of the executor do not overlap.      *)

OneCallAtATime ==
  \A v, w \in Worker : exec[v].at # "none" /\ exec[w].at # "none" => v = w

\* Which executor calls are in progress, and what they may rely on.
CallsAreSteps ==
  /\ DOMAIN exec = Worker
  /\ \A w \in Worker : /\ DOMAIN exec[w] = DOMAIN NotExecuting
                       /\ exec[w].at # "none" => InPhase(w, "stepping")
                       /\ exec[w].seen \subseteq items

OutputIsLinked == \A i \in items : <<i.run, i>> \in links

NothingWrittenYet ==
  \A w \in Worker : exec[w].at \in {"provider", "write"} => ~HasOutput(worker[w].run)

\* What a review is about to place has no place, and gets one.
Open(p) == /\ p = <<p[1], p[2]>>
           /\ \A a \in Area : <<p[1], a>> \notin areaLinks
PlacesAreOpen ==
  \A w \in Worker : exec[w].at = "assign" =>
    /\ \A p \in exec[w].todo : Open(p)
    /\ \A p, q \in exec[w].todo : p[1] = q[1] => p = q

OnePlace ==
  \A i : \A a, b \in Area : <<i, a>> \in areaLinks /\ <<i, b>> \in areaLinks => a = b

OneToken == \A i, j \in items : i.run = j.run => i.token = j.token

Once == CallsAreSteps /\ OutputIsLinked /\ NothingWrittenYet /\ PlacesAreOpen
        /\ OnePlace /\ OneToken

\* A run whose output nobody has written has no statement.
LEMMA NoOutputNoItem ==
  ASSUME OutputIsLinked, NEW r, ~HasOutput(r)
  PROVE  \A i \in items : i.run # r
<1>. SUFFICES ASSUME NEW i \in items, i.run = r  PROVE FALSE
  OBVIOUS
<1>. DEFINE l == <<r, i>>
<1>1. l \in {k \in links : k[1] = r} /\ l[2] = i
  BY DEF OutputIsLinked
<1>2. i \in Produced(r)
  BY <1>1 DEF Produced
<1>. QED  BY <1>2 DEF HasOutput

\* What a call of the executor knows survives a step that starts no call and
\* writes nothing.
LEMMA QueueKeepsOnce ==
  ASSUME Once, UNCHANGED <<knowledge, exec>>,
         \A w \in Worker : InPhase(w, "stepping") =>
           InPhase(w, "stepping")' /\ worker'[w].run = worker[w].run
  PROVE  Once'
<1>1. CallsAreSteps' /\ OutputIsLinked' /\ PlacesAreOpen' /\ OnePlace' /\ OneToken'
  BY DEF Once, CallsAreSteps, OutputIsLinked, PlacesAreOpen, Open, OnePlace, OneToken, knowledge
<1>2. \A r : HasOutput(r)' <=> HasOutput(r)
  BY DEF HasOutput, Produced, knowledge
<1>3. NothingWrittenYet'
  BY <1>2 DEF Once, NothingWrittenYet, CallsAreSteps
<1>. QED  BY <1>1, <1>3 DEF Once

LEMMA StepsStay ==
  ASSUME TypeOK, NEW w \in Worker, QueueStep(w)
  PROVE  \A v \in Worker : InPhase(v, "stepping") =>
           InPhase(v, "stepping")' /\ worker'[v].run = worker[v].run
<1>. SUFFICES ASSUME NEW v \in Worker, InPhase(v, "stepping")
              PROVE  InPhase(v, "stepping")' /\ worker'[v].run = worker[v].run
  OBVIOUS
<1>1. DOMAIN worker = Worker /\ worker[v] \in WorkerType
  BY DEF TypeOK
<1>2. CASE RequestStop(w)
  BY <1>1, <1>2 DEF RequestStop, InPhase, WorkerType
<1>3. CASE Claim(w) \/ HeartbeatLost(w) \/ Exit(w) \/ Restart(w)
  <2>1. ~InPhase(w, "stepping")
    BY <1>3 DEF Claim, ClaimRead, ClaimWin, ClaimLose, ClaimRetry, ClaimCollide, HeartbeatLost,
                Exit, Restart, InPhase
  <2>2. \A u \in Worker \ {w} : worker'[u] = worker[u]
    BY <1>1, <1>3 DEF Claim, ClaimRead, ClaimWin, ClaimLose, ClaimRetry, ClaimCollide,
                      HeartbeatLost, LoseLease, Exit, Restart
  <2>. QED  BY <2>1, <2>2 DEF InPhase
<1>4. CASE Settle(w)
  <2>1. ~InPhase(w, "stepping")
    BY <1>4 DEF Settle, Checkpoint, Succeed, SaveBegin, SaveCommit, SaveCollide, SaveRetry, Fail,
                Release, InPhase
  <2>2. \A u \in Worker \ {w} : worker'[u] = worker[u]
    BY <1>1, <1>4 DEF Settle, Checkpoint, Succeed, SaveBegin, SaveCommit, SaveCollide, SaveRetry,
                      Fail, Release, LoseLease, Goto
  <2>. QED  BY <2>1, <2>2 DEF InPhase
<1>. QED  BY <1>2, <1>3, <1>4 DEF QueueStep

\* A call that moves on without writing a statement or a place.
LEMMA CallMovesOn ==
  ASSUME Once, NEW w \in Worker, NEW e, Advance(w, e),
         DOMAIN e = DOMAIN NotExecuting, e.seen \subseteq items,
         UNCHANGED <<items, links, areaLinks>>,
         \A v \in Worker \ {w} : worker'[v] = worker[v],
         e.at # "none" => InPhase(w, "stepping")',
         e.at \in {"provider", "write"} => ~HasOutput(worker'[w].run),
         e.at = "assign" => /\ \A p \in e.todo : Open(p)
                            /\ \A p, q \in e.todo : p[1] = q[1] => p = q
  PROVE  Once'
<1>1. exec'[w] = e /\ DOMAIN exec' = Worker /\ \A v \in Worker \ {w} : exec'[v] = exec[v]
  BY DEF Once, CallsAreSteps, Advance
<1>2. CallsAreSteps'
  BY <1>1 DEF Once, CallsAreSteps, InPhase
<1>3. \A r : HasOutput(r)' <=> HasOutput(r)
  BY DEF HasOutput, Produced
<1>4. NothingWrittenYet'
  BY <1>1, <1>3 DEF Once, NothingWrittenYet
<1>5. \A p : Open(p)' <=> Open(p)
  BY DEF Open
<1>6. PlacesAreOpen'
  BY <1>1, <1>5 DEF Once, PlacesAreOpen
<1>. QED  BY <1>2, <1>4, <1>6 DEF Once, OutputIsLinked, OnePlace, OneToken

LEMMA ReadingKeepsOnce ==
  ASSUME Once, NEW w \in Worker,
         Dispatch(w) \/ Extract(w) \/ WriteRetry(w) \/ LastOneStanding(w)
  PROVE  Once'
<1>0. /\ InPhase(w, "stepping") /\ UNCHANGED <<worker, items, links, areaLinks>>
      /\ exec[w].at # "none" /\ DOMAIN exec[w] = DOMAIN NotExecuting
  BY DEF Dispatch, Extract, WriteRetry, LastOneStanding, At, vars, knowledge, Once, CallsAreSteps
<1>1. \A stage : Call(stage) = [at |-> stage, bodies |-> {}, seen |-> {}, todo |-> {}]
  BY DEF Call, NotExecuting
<1>2. CASE Dispatch(w) \/ LastOneStanding(w)
  <2>1. PICK stage \in {"provider", "review", "revision"} :
          /\ Advance(w, Call(stage))
          /\ stage = "provider" => ~HasOutput(worker[w].run)
    BY <1>2 DEF Dispatch, LastOneStanding
  <2>2. /\ Call(stage).at = stage /\ DOMAIN Call(stage) = DOMAIN NotExecuting
        /\ Call(stage).seen = {}
    BY <1>1 DEF NotExecuting
  <2>. QED  BY <1>0, <2>1, <2>2, CallMovesOn DEF InPhase
<1>3. CASE Extract(w)
  <2>1. PICK bodies : Advance(w, [Call("write") EXCEPT !.bodies = bodies, !.seen = items])
    BY <1>3 DEF Extract
  <2>. DEFINE e == [Call("write") EXCEPT !.bodies = bodies, !.seen = items]
  <2>2. e.at = "write" /\ DOMAIN e = DOMAIN NotExecuting /\ e.seen = items
    BY <1>1 DEF NotExecuting
  <2>3. ~HasOutput(worker[w].run)
    BY <1>3 DEF Extract, At, Once, NothingWrittenYet
  <2>. HIDE DEF e
  <2>. QED  BY <1>0, <2>1, <2>2, <2>3, CallMovesOn DEF InPhase, e
<1>4. CASE WriteRetry(w)
  <2>. DEFINE e == [exec[w] EXCEPT !.seen = items]
  <2>1. Advance(w, e) /\ exec[w].at = "write"
    BY <1>4 DEF WriteRetry, At
  <2>2. e.at = "write" /\ DOMAIN e = DOMAIN NotExecuting /\ e.seen = items
    BY <1>0, <2>1 DEF NotExecuting
  <2>3. ~HasOutput(worker[w].run)
    BY <2>1 DEF Once, NothingWrittenYet
  <2>. HIDE DEF e
  <2>. QED  BY <1>0, <2>1, <2>2, <2>3, CallMovesOn DEF InPhase
<1>. QED  BY <1>2, <1>3, <1>4

\* The executor returns, begins or dies: nothing of the call is left.
LEMMA EndingKeepsOnce ==
  ASSUME TypeOK, Once, NEW w \in Worker,
         \/ BeginStep(w) \/ Kill(w)
         \/ Replay(w) \/ ProviderFails(w) \/ WriteGivesUp(w) \/ NothingToFollow(w)
         \/ AskForReview(w) \/ AssignAgain(w) \/ ReviewDone(w)
  PROVE  Once'
<1>1. \A stage : Call(stage) = [at |-> stage, bodies |-> {}, seen |-> {}, todo |-> {}]
  BY DEF Call, NotExecuting
<1>2. UNCHANGED <<items, links, areaLinks>>
  BY DEF BeginStep, Kill, Replay, ProviderFails, WriteGivesUp, NothingToFollow, AskForReview,
         AssignAgain, ReviewDone, knowledge
<1>3. DOMAIN worker = Worker /\ \A v \in Worker : worker[v] \in WorkerType
  BY DEF TypeOK
<1>4. \A v \in Worker \ {w} : worker'[v] = worker[v]
  BY <1>3 DEF BeginStep, HeartbeatOk, Goto, Kill, Crash, Replay, ProviderFails, WriteGivesUp,
              NothingToFollow, AskForReview, AssignAgain, ReviewDone, Return, StepReturns
<1>5. CASE BeginStep(w)
  <2>1. InPhase(w, "stepping")'
    BY <1>3, <1>5 DEF BeginStep, HeartbeatOk, Goto, InPhase, WorkerType
  <2>. DEFINE e == Call("start")
  <2>2. e.at = "start" /\ DOMAIN e = DOMAIN NotExecuting /\ e.seen = {}
    BY <1>1 DEF NotExecuting
  <2>3. Advance(w, e)
    BY <1>5 DEF BeginStep
  <2>. HIDE DEF e
  <2>. QED  BY <1>2, <1>4, <2>1, <2>2, <2>3, CallMovesOn
<1>6. CASE ~BeginStep(w)
  <2>1. Advance(w, NotExecuting)
    BY <1>6 DEF Kill, Replay, ProviderFails, WriteGivesUp, NothingToFollow, AskForReview,
                AssignAgain, ReviewDone, Return
  <2>2. NotExecuting.at = "none" /\ NotExecuting.seen = {}
    BY DEF NotExecuting
  <2>. QED  BY <1>2, <1>4, <2>1, <2>2, CallMovesOn
<1>. QED  BY <1>5, <1>6

\* A write: the run has no statement yet, so those of this attempt are its only ones.
LEMMA WritingIsTheOnlyOutput ==
  ASSUME Once, OneCallAtATime, NEW w \in Worker, WriteKnowledge(w)
  PROVE  Once'
<1>. DEFINE R == worker[w].run
<1>1. /\ exec[w].at = "write" /\ exec' = [exec EXCEPT ![w] = Call("outstanding")]
      /\ items' = items \cup Targets(w) /\ areaLinks' = areaLinks
      /\ links' = links \cup {<<R, i>> : i \in Targets(w)}
      /\ worker' = worker /\ InPhase(w, "stepping")
  BY DEF WriteKnowledge, Advance, At, vars
<1>2. \A i \in items : i.run # R
  BY <1>1, NoOutputNoItem DEF Once, NothingWrittenYet
<1>3. \A i \in Targets(w) : i \in items \/ (i.run = R /\ i.token = worker[w].token)
  <2>. SUFFICES ASSUME NEW i \in Targets(w), i \notin items
                PROVE  i.run = R /\ i.token = worker[w].token
    OBVIOUS
  <2>1. i \notin exec[w].seen
    BY DEF Once, CallsAreSteps
  <2>2. PICK b \in Fresh(w) : i = NewItem(w, b)
    BY <2>1, TargetsAreTwinsOrNew
  <2>. QED  BY <2>2 DEF NewItem
<1>4. OneToken'
  BY <1>1, <1>2, <1>3 DEF Once, OneToken
<1>5. OutputIsLinked'
  BY <1>1, <1>3 DEF Once, OutputIsLinked
<1>. DEFINE e == Call("outstanding")
<1>6. e.at = "outstanding" /\ DOMAIN e = DOMAIN NotExecuting /\ e.seen = {}
  BY DEF Call, NotExecuting
<1>. HIDE DEF e
<1>7. exec'[w] = e /\ DOMAIN exec' = Worker /\ \A v \in Worker \ {w} : exec'[v] = exec[v]
  BY <1>1 DEF Once, CallsAreSteps, e
<1>8. \A v \in Worker \ {w} : exec'[v].at = "none"
  BY <1>1, <1>7 DEF OneCallAtATime
<1>9. CallsAreSteps'
  BY <1>1, <1>6, <1>7 DEF Once, CallsAreSteps, InPhase
<1>10. NothingWrittenYet' /\ PlacesAreOpen'
  BY <1>6, <1>7, <1>8 DEF NothingWrittenYet, PlacesAreOpen
<1>. QED  BY <1>1, <1>4, <1>5, <1>9, <1>10 DEF Once, OnePlace

\* A review reads statements without a place and chooses at most one for each.
LEMMA ReadingLeavesPlacesOpen ==
  ASSUME Once, NEW w \in Worker, ReviewRead(w)
  PROVE  Once'
<1>1. /\ InPhase(w, "stepping") /\ UNCHANGED <<worker, items, links, areaLinks>>
  BY DEF ReviewRead, At, vars
<1>2. PICK placing \in [Unplaced -> SUBSET Area] :
        /\ \A i \in Unplaced : \A a, b \in placing[i] : a = b
        /\ Advance(w, [Call("assign") EXCEPT
                         !.todo = {p \in Unplaced \X Area : p[2] \in placing[p[1]]}])
  BY DEF ReviewRead
<1>. DEFINE todo == {p \in Unplaced \X Area : p[2] \in placing[p[1]]}
            e == [Call("assign") EXCEPT !.todo = todo]
<1>3. Advance(w, e)
  BY <1>2
<1>4. \A p \in todo : Open(p)
  BY DEF Open, Unplaced
<1>5. \A p, q \in todo : p[1] = q[1] => p = q
  BY <1>2
<1>. HIDE DEF todo
<1>6. /\ e.at = "assign" /\ DOMAIN e = DOMAIN NotExecuting /\ e.seen = {} /\ e.todo = todo
  BY DEF Call, NotExecuting
<1>. HIDE DEF e
<1>. QED  BY <1>1, <1>3, <1>4, <1>5, <1>6, CallMovesOn DEF InPhase

LEMMA AssigningKeepsOnce ==
  ASSUME Once, OneCallAtATime, NEW w \in Worker, AssignArea(w)
  PROVE  Once'
<1>1. PICK p \in exec[w].todo :
        /\ areaLinks' = areaLinks \cup {p}
        /\ exec' = [exec EXCEPT ![w] = [exec[w] EXCEPT !.todo = exec[w].todo \ {p}]]
  BY DEF AssignArea, Advance
<1>2. /\ exec[w].at = "assign" /\ InPhase(w, "stepping")
      /\ UNCHANGED <<worker, items, links>>
      /\ DOMAIN exec = Worker /\ DOMAIN exec[w] = DOMAIN NotExecuting
  BY DEF AssignArea, At, vars, Once, CallsAreSteps
<1>3. p = <<p[1], p[2]>> /\ \A a \in Area : <<p[1], a>> \notin areaLinks
  BY <1>2 DEF Once, PlacesAreOpen, Open
<1>4. OnePlace'
  BY <1>1, <1>3 DEF Once, OnePlace
<1>. DEFINE e == [exec[w] EXCEPT !.todo = exec[w].todo \ {p}]
<1>5. /\ e.at = "assign" /\ DOMAIN e = DOMAIN NotExecuting /\ e.seen = exec[w].seen
      /\ e.todo = exec[w].todo \ {p}
  BY <1>2 DEF NotExecuting
<1>. HIDE DEF e
<1>6. exec'[w] = e /\ DOMAIN exec' = Worker /\ \A v \in Worker \ {w} : exec'[v] = exec[v]
  BY <1>1, <1>2 DEF e
<1>7. \A v \in Worker \ {w} : exec'[v].at = "none"
  BY <1>2, <1>6 DEF OneCallAtATime
<1>8. CallsAreSteps'
  BY <1>2, <1>5, <1>6 DEF Once, CallsAreSteps, InPhase
<1>9. NothingWrittenYet'
  BY <1>5, <1>6, <1>7 DEF NothingWrittenYet
<1>10. ASSUME NEW q \in e.todo  PROVE Open(q)'
  <2>1. q \in exec[w].todo /\ q # p
    BY <1>5
  <2>2. Open(q) /\ q[1] # p[1]
    BY <1>2, <2>1 DEF Once, PlacesAreOpen
  <2>. QED  BY <1>1, <1>3, <2>2 DEF Open
<1>11. PlacesAreOpen'
  BY <1>2, <1>5, <1>6, <1>7, <1>10 DEF Once, PlacesAreOpen
<1>. QED  BY <1>2, <1>4, <1>8, <1>9, <1>11 DEF Once, OutputIsLinked, OneToken

LEMMA InitOnce == InitExtraction => Once
BY DEF InitExtraction, NotExecuting, Once, CallsAreSteps, OutputIsLinked, NothingWrittenYet,
       PlacesAreOpen, OnePlace, OneToken

LEMMA NextKeepsOnce == TypeOK /\ Once /\ OneCallAtATime /\ [NextExtraction]_allVars => Once'
<1>. SUFFICES ASSUME TypeOK, Once, OneCallAtATime, [NextExtraction]_allVars  PROVE Once'
  OBVIOUS
<1>1. CASE UNCHANGED allVars
  BY <1>1, QueueKeepsOnce DEF allVars, vars, InPhase
<1>2. ASSUME NEW w \in Worker, Execute(w) \/ BeginStep(w) \/ Kill(w)  PROVE Once'
  BY <1>2, ReadingKeepsOnce, EndingKeepsOnce, WritingIsTheOnlyOutput, ReadingLeavesPlacesOpen,
     AssigningKeepsOnce DEF Execute
<1>3. ASSUME NEW w \in Worker, QueueStep(w)  PROVE Once'
  <2>1. UNCHANGED <<knowledge, exec>>
    BY <1>3 DEF QueueStep
  <2>. QED  BY <1>3, <2>1, StepsStay, QueueKeepsOnce
<1>4. CASE Environment
  <2>1. UNCHANGED <<knowledge, exec, worker>>
    BY <1>4 DEF Environment, Enqueue, EnqueueLookup, EnqueueInsert, Tick
  <2>. QED  BY <2>1, QueueKeepsOnce DEF InPhase
<1>. QED  BY <1>1, <1>2, <1>3, <1>4 DEF NextExtraction

LEMMA OnceIsEnough == Once => OutputIsWrittenOnce
<1>. SUFFICES ASSUME Once, NEW i \in items
              PROVE  Cardinality({a \in Area : <<i, a>> \in areaLinks}) <= 1
  BY DEF Once, OneToken, OutputIsWrittenOnce
<1>. DEFINE places == {a \in Area : <<i, a>> \in areaLinks}
<1>1. \A a, b \in places : a = b
  BY DEF Once, OnePlace
<1>. HIDE DEF places
<1>2. places = {} \/ \E a : places = {a}
  BY <1>1
<1>3. Cardinality(places) <= 1
  <2>1. CASE places = {}
    BY <2>1, FS_EmptySet
  <2>2. CASE \E a : places = {a}
    BY <2>2, FS_Singleton
  <2>. QED  BY <1>2, <2>1, <2>2
<1>. QED  BY <1>3 DEF places

\* As long as no two calls of the executor are in progress at once, a run that is
\* retried, reclaimed or replayed writes its statements in one of its attempts, and
\* no review gives a statement a second place: over any number of runs, reviews,
\* retries, kills and faults, at either isolation level.
THEOREM LoneCallsWriteOnce ==
  SpecExtraction /\ []OneCallAtATime => []OutputIsWrittenOnce
<1>1. InitExtraction => TypeOK /\ Once
  BY InitTypes, InitOnce DEF InitExtraction
<1>2. TypeOK /\ Once /\ OneCallAtATime /\ [NextExtraction]_allVars => (TypeOK /\ Once)'
  BY NextExtractionKeepsTypes, NextKeepsOnce
<1>. QED  BY <1>1, <1>2, OnceIsEnough, PTL DEF SpecExtraction

\* One worker process never overlaps with itself: whatever fails, it writes once.
THEOREM OneWorkerWritesOnce ==
  ASSUME \A v, w \in Worker : v = w
  PROVE  SpecExtraction => []OutputIsWrittenOnce
<1>1. OneCallAtATime
  BY DEF OneCallAtATime
<1>. QED  BY <1>1, LoneCallsWriteOnce, PTL
=============================================================================
