---------------------------- MODULE StoresProofs ----------------------------
(***************************************************************************)
(* Theorems about the services that are units of work.  Transactions       *)
(* leaves what is read, locked and decided to its constants; each section  *)
(* says what one service asks of them and of the rows it starts from, and  *)
(* which calls and rows it can then meet.  The last two show that Stores   *)
(* gives every service what it asks, and what the services promise.        *)
(***************************************************************************)
EXTENDS Stores, FiniteSetTheorems, SequenceTheorems, WellFoundedInduction,
  TLAPS

-----------------------------------------------------------------------------
(* Units of work                                                           *)

\* What a call goes on with.
Resumed(call) == IF call = Nothing THEN Idle ELSE Ready(call)

\* A caller is idle or has a call.
CallsShaped ==
  /\ DOMAIN calls = Caller
  /\ \A c \in Caller : /\ DOMAIN calls[c] = DOMAIN Idle
                       /\ calls[c].call = Nothing <=> calls[c].phase = "idle"

\* The step of one caller: it turns to another call or begins again, reads, locks
\* and reads once more, or commits.
Turns(c, call) == calls'[c] = Resumed(call) /\ tables' = tables
Loads(c) ==
  LET call == calls[c].call
      seen == Only(Reads(call, tables), tables)
  IN /\ calls[c].phase = "ready" /\ tables' = tables
     /\ calls'[c].call = call /\ calls'[c].seen = seen /\ calls'[c].locks = calls[c].locks
     /\ calls'[c].phase = IF Locks(call, seen) = {} THEN "deciding" ELSE "flushing"
Flushes(c) ==
  LET call == calls[c].call
  IN /\ calls[c].phase = "flushing" /\ Free(c, Locks(call, calls[c].seen)) /\ tables' = tables
     /\ calls'[c].call = call /\ calls'[c].locks = Locks(call, calls[c].seen)
     /\ calls'[c].seen = Over(calls[c].seen, Only(ReadsLater(call, tables), tables))
     /\ calls'[c].phase = "deciding"
GoesOn(c) == calls[c].phase # "idle" /\ calls'[c].call = calls[c].call /\ tables' = tables
Steps(c) ==
  /\ CallsShaped' /\ isolation' = isolation /\ service' = service
  /\ \A d \in Caller \ {c} : calls'[d] = calls[d]
  /\ \/ Turns(c, Nothing)
     \/ calls[c].phase # "idle" /\ Turns(c, calls[c].call)
     \/ \E call \in Requests(service, tables, made + 1) : Turns(c, call)
     \/ Loads(c)
     \/ Flushes(c)
     \/ Is(c, "deciding") /\ Decided(c).verdict = "done" /\ Turns(c, Decided(c).clash)
     \/ Commit(c) /\ calls'[c] = Resumed(Decided(c).then)

LEMMA Fields == /\ DOMAIN Idle = {"phase", "call", "seen", "locks"}
                /\ Idle.phase = "idle" /\ Idle.call = Nothing
                /\ \A call : /\ DOMAIN Ready(call) = DOMAIN Idle
                             /\ Ready(call).phase = "ready" /\ Ready(call).call = call
BY DEF Idle, Ready

LEMMA Continuing ==
  ASSUME CallsShaped, NEW c \in Caller, NEW call, Continue(c, call)
  PROVE  /\ CallsShaped' /\ calls'[c] = Resumed(call)
         /\ \A d \in Caller \ {c} : calls'[d] = calls[d]
<1>1. calls' = [calls EXCEPT ![c] = Resumed(call)]
  BY DEF Continue, Resumed
<1>2. DOMAIN Resumed(call) = DOMAIN Idle /\ (Resumed(call).call = Nothing <=> Resumed(call).phase = "idle")
  BY Fields DEF Resumed
<1>3. calls'[c] = Resumed(call) /\ DOMAIN calls' = Caller
      /\ \A d \in Caller \ {c} : calls'[d] = calls[d]
  BY <1>1 DEF CallsShaped
<1>. QED  BY <1>2, <1>3 DEF CallsShaped

LEMMA EveryStep ==
  ASSUME CallsShaped, [Next]_vars
  PROVE  (UNCHANGED vars) \/ \E c \in Caller : Steps(c)
<1>. SUFFICES ASSUME NEW c \in Caller,
                     \/ Begin(c) \/ Load(c) \/ Flush(c) \/ Retry(c)
                     \/ Commit(c) \/ Refuse(c) \/ Abandon(c)
              PROVE  Steps(c)
  BY DEF Next
<1>1. CASE Begin(c)
  BY <1>1, Continuing DEF Begin, Steps, Turns
<1>2. CASE Load(c)
  <2>. DEFINE call == calls[c].call
              seen == Only(Reads(call, tables), tables)
              phase == IF Locks(call, seen) = {} THEN "deciding" ELSE "flushing"
  <2>1. calls' = [calls EXCEPT ![c].seen = seen, ![c].phase = phase]
    BY <1>2 DEF Load
  <2>2. phase # "idle"
    OBVIOUS
  <2>. HIDE DEF seen, phase
  <2>3. /\ DOMAIN calls' = Caller /\ \A d \in Caller \ {c} : calls'[d] = calls[d]
        /\ calls'[c].call = calls[c].call /\ DOMAIN calls'[c] = DOMAIN Idle
        /\ calls'[c].phase = phase /\ calls[c].phase = "ready"
        /\ calls'[c].seen = seen /\ calls'[c].locks = calls[c].locks
    BY <1>2, <2>1, Fields DEF CallsShaped, Load, Is
  <2>4. Loads(c)
    BY <1>2, <2>3 DEF Loads, Load, Keep, seen, phase
  <2>. QED  BY <1>2, <2>2, <2>3, <2>4 DEF Load, Keep, Steps, CallsShaped
<1>3. CASE Flush(c)
  <2>. DEFINE call == calls[c].call
              seen == Over(calls[c].seen, Only(ReadsLater(call, tables), tables))
              rows == Locks(call, calls[c].seen)
  <2>1. calls' = [calls EXCEPT ![c].phase = "deciding", ![c].locks = rows, ![c].seen = seen]
    BY <1>3 DEF Flush
  <2>. HIDE DEF seen, rows
  <2>2. /\ DOMAIN calls' = Caller /\ \A d \in Caller \ {c} : calls'[d] = calls[d]
        /\ calls'[c].call = calls[c].call /\ DOMAIN calls'[c] = DOMAIN Idle
        /\ calls'[c].phase = "deciding" /\ calls[c].phase = "flushing"
        /\ calls'[c].seen = seen /\ calls'[c].locks = rows
    BY <1>3, <2>1, Fields DEF CallsShaped, Flush, Is
  <2>3. Flushes(c)
    BY <1>3, <2>2 DEF Flushes, Flush, Keep, seen, rows
  <2>. QED  BY <1>3, <2>2, <2>3 DEF Flush, Keep, Steps, CallsShaped
<1>4. CASE Retry(c)
  <2>1. calls[c].phase # "idle"
    BY <1>4 DEF Retry, Is
  <2>. QED  BY <1>4, <2>1, Continuing DEF Retry, Keep, Steps, Turns
<1>5. CASE Commit(c)
  BY <1>5, Continuing DEF Commit, Steps
<1>6. CASE Refuse(c)
  BY <1>6, Continuing DEF Refuse, Keep, Steps, Turns
<1>7. CASE Abandon(c)
  BY <1>7, Continuing DEF Abandon, Keep, Steps, Turns
<1>. QED  BY <1>1, <1>2, <1>3, <1>4, <1>5, <1>6, <1>7

LEMMA Merging ==
  ASSUME NEW new, NEW was, DOMAIN new = DOMAIN was
  PROVE  /\ DOMAIN Over(Changed(new, was), was) = DOMAIN was
         /\ \A b \in DOMAIN was : Over(Changed(new, was), was)[b] = new[b]
BY DEF Changed, Over

LEMMA Decisions ==
  /\ \A ins, ups, then : LET o == Writes(ins, ups, then)
                         IN /\ o.verdict = "done" /\ o.inserts = ins /\ o.updates = ups
                            /\ o.deletes = {} /\ o.then = then /\ o.clash = Nothing
  /\ Refused.verdict = "refused" /\ Refused.clash = Nothing
BY DEF Writes, Refused, Same

\* The rows e after inserts and updates of the rows d.
Leaves(d, ins, ups, e) ==
  /\ DOMAIN e = DOMAIN ins \cup DOMAIN d
  /\ \A r \in DOMAIN ins : e[r] = ins[r]
  /\ \A r \in DOMAIN d \ DOMAIN ups : e[r] = d[r]
  /\ \A r \in DOMAIN d \cap DOMAIN ups : e[r] = Over(ups[r], d[r])

LEMMA RowsAfter ==
  ASSUME NEW d, NEW ins, NEW ups, NEW then, DOMAIN ins \cap DOMAIN d = {}
  PROVE  Leaves(d, ins, ups, Written(d, Writes(ins, ups, then)))
<1>. PICK o : o = Writes(ins, ups, then)
  OBVIOUS
<1>1. o.inserts = ins /\ o.updates = ups /\ o.deletes = {}
  BY Decisions
<1>2. PICK old : old = [r \in DOMAIN d |-> IF r \in DOMAIN ups THEN Over(ups[r], d[r]) ELSE d[r]]
  OBVIOUS
<1>3. Written(d, o) = Over(ins, old)
  BY <1>1, <1>2 DEF Written
<1>4. Leaves(d, ins, ups, Over(ins, old))
  BY <1>2 DEF Over, Leaves
<1>. QED  BY <1>3, <1>4

LEMMA Singles ==
  /\ \A row, value : DOMAIN One(row, value) = {row} /\ One(row, value)[row] = value
  /\ DOMAIN NoRows = {}
BY DEF One, NoRows

\* Without stale reads a call commits on what the rows hold.
LEMMA CommitsOnWhatIsThere ==
  ASSUME NEW c \in Caller, Commit(c), Serializable, ~Outside(calls[c].call),
         \A d : ReadsLater(calls[c].call, d) = {}
  PROVE  /\ calls[c].seen = Only(Reads(calls[c].call, tables), tables)
         /\ DOMAIN Decided(c).inserts \cap DOMAIN tables = {}
         /\ Decided(c).verdict = "done" /\ tables' = Written(tables, Decided(c))
         /\ Unique(tables')
BY DEF Commit, Stale, Collides

LEMMA Reading ==
  ASSUME NEW c, Loads(c) \/ Flushes(c)
  PROVE  GoesOn(c)
BY DEF Loads, Flushes, GoesOn

-----------------------------------------------------------------------------
(* Runs without a lease (AgentRuns)                                        *)

\* The calls are those of the service, which starts with no rows.
RunsAreServed ==
  /\ DOMAIN Beginning(service) = {}
  /\ \A d, n : Requests(service, d, n) \subseteq DriveRequests(n) \cup RunRequests(d, n)
  /\ \A call : Running(call) =>
       /\ \A d : Reads(call, d) = RunReads(call, d) /\ ReadsLater(call, d) = {}
       /\ \A seen : Outcome(call, seen) = RunOutcome(call, seen)
       /\ ~Outside(call)

RunAnswers == {"write result", "fail run", "complete run"}
DriveFields == {"op", "key", "id", "role", "answer", "run"}
RunFields == {"key", "status", "attempt", "checkpoint"}

\* A call names a run that is there, and a stream that ended has shown its end.
RunCallFits(call, d) ==
  /\ Running(call)
  /\ call.op \in {"start run", "consume"} => DOMAIN call = DriveFields /\ call.answer \in RunAnswers
  /\ call.op = "follow" => DOMAIN call = {"op", "run", "shown"}
  /\ call.op # "start run" => call.run \in Kind("run", d)
  /\ call.op = "stream ended" => d[call.run] = call.shown /\ call.shown.status \in FinalStatus

\* One run per key, and results of runs that succeeded, one of each.
RunRowsFit(d) ==
  /\ \A r \in Kind("run", d) : DOMAIN d[r] = RunFields /\ d[r].attempt \in Nat
  /\ \A r, s \in Kind("run", d) : d[r].key = d[s].key => r = s
  /\ \A r \in Kind("result", d) : r[2] \in Kind("run", d) /\ d[r[2]].status = "succeeded"
  /\ \A r, s \in Kind("result", d) : r[2] = s[2] => r = s

\* Runs stay, and those that ended stay as they are.
EndsStay(d, e) ==
  /\ Kind("run", d) \subseteq Kind("run", e)
  /\ \A r \in Kind("run", d) : d[r].status \in FinalStatus => e[r] = d[r]

LEMMA RunCallsStay ==
  ASSUME NEW d, NEW e, EndsStay(d, e), NEW call, RunCallFits(call, d)
  PROVE  RunCallFits(call, e)
BY DEF EndsStay, RunCallFits, Running

\* Starting, consuming and following leave the runs there are as they are.
LEMMA RunsAdded ==
  ASSUME NEW d, RunRowsFit(d), NEW ins, NEW then, DOMAIN ins \cap DOMAIN d = {},
         \A r \in DOMAIN ins :
           \/ r[1] = "used"
           \/ /\ r[1] = "run" /\ DOMAIN ins[r] = RunFields /\ ins[r].attempt \in Nat
              /\ \A s \in Kind("run", d) : d[s].key # ins[r].key
              /\ \A s \in DOMAIN ins : s = r,
         NEW e, e = Written(d, Writes(ins, NoRows, then))
  PROVE  RunRowsFit(e) /\ EndsStay(d, e)
<1>1. /\ DOMAIN e = DOMAIN ins \cup DOMAIN d
      /\ \A r \in DOMAIN ins : e[r] = ins[r]
      /\ \A r \in DOMAIN d : e[r] = d[r]
  <2>1. DOMAIN NoRows = {}
    BY Singles
  <2>2. Leaves(d, ins, NoRows, e)
    BY RowsAfter
  <2>. QED  BY <2>1, <2>2 DEF Leaves
<1>. QED  BY <1>1 DEF RunRowsFit, EndsStay, Kind

\* Only a run that has not ended moves, and what it produced is recorded with its success.
LEMMA RunMovesOn ==
  ASSUME NEW d, RunRowsFit(d), NEW run \in Kind("run", d), NEW status, NEW new, NEW ins,
         DOMAIN new = RunFields, new.key = d[run].key, new.attempt \in Nat,
         status \in RunMoves[d[run].status], DOMAIN ins \cap DOMAIN d = {},
         \A r \in DOMAIN ins : /\ r[1] = "result" /\ r[2] = run /\ status = "succeeded"
                               /\ \A s \in DOMAIN ins : s = r,
         NEW e, e = Written(d, Writes(ins, One(run, Changed([new EXCEPT !.status = status], d[run])), Nothing))
  PROVE  RunRowsFit(e) /\ EndsStay(d, e)
<1>. DEFINE moved == [new EXCEPT !.status = status]
<1>1. /\ DOMAIN moved = RunFields /\ moved.key = d[run].key /\ moved.attempt \in Nat
      /\ moved.status = status
  BY DEF RunFields
<1>2. DOMAIN d[run] = RunFields
  BY DEF RunRowsFit
<1>. PICK ups : ups = One(run, Changed(moved, d[run]))
  OBVIOUS
<1>0. DOMAIN ups = {run} /\ ups[run] = Changed(moved, d[run]) /\ e = Written(d, Writes(ins, ups, Nothing))
  BY Singles
<1>. HIDE DEF moved
<1>3. /\ DOMAIN e = DOMAIN ins \cup DOMAIN d
      /\ \A r \in DOMAIN ins : e[r] = ins[r]
      /\ \A r \in DOMAIN d \ {run} : e[r] = d[r]
      /\ e[run] = Over(Changed(moved, d[run]), d[run])
  <2>1. Leaves(d, ins, ups, e)
    BY <1>0, RowsAfter
  <2>. QED  BY <1>0, <2>1 DEF Leaves, Kind
<1>4. DOMAIN e[run] = RunFields /\ \A b \in RunFields : e[run][b] = moved[b]
  BY <1>1, <1>2, <1>3, Merging
<1>5. d[run].status \notin FinalStatus
  BY DEF RunMoves, FinalStatus
<1>6. \A r \in Kind("result", d) : r[2] # run
  BY <1>5 DEF RunRowsFit, FinalStatus
<1>7. Kind("run", e) = Kind("run", d) /\ Kind("result", e) = DOMAIN ins \cup Kind("result", d)
  BY <1>3 DEF Kind
<1>8. EndsStay(d, e)
  BY <1>3, <1>5, <1>7 DEF EndsStay, Kind
<1>9. \A r \in Kind("run", e) : /\ DOMAIN e[r] = RunFields /\ e[r].attempt \in Nat
                                /\ e[r].key = d[r].key
  <2>1. \A r \in Kind("run", d) \ {run} : e[r] = d[r]
    BY <1>3 DEF Kind
  <2>2. DOMAIN e[run] = RunFields /\ e[run].attempt \in Nat /\ e[run].key = d[run].key
    BY <1>1, <1>4 DEF RunFields
  <2>. QED  BY <1>7, <2>1, <2>2 DEF RunRowsFit
<1>10. \A r \in Kind("result", e) : r[2] \in Kind("run", e) /\ e[r[2]].status = "succeeded"
  <2>1. \A r \in DOMAIN ins : e[run].status = "succeeded"
    BY <1>1, <1>4 DEF RunFields
  <2>. QED  BY <2>1, <1>3, <1>6, <1>7 DEF RunRowsFit, Kind
<1>11. \A r, s \in Kind("result", e) : r[2] = s[2] => r = s
  BY <1>6, <1>7 DEF RunRowsFit
<1>. QED  BY <1>7, <1>8, <1>9, <1>10, <1>11 DEF RunRowsFit

LEMMA ReadingOnly ==
  ASSUME NEW d, RunRowsFit(d), NEW then, NEW o, o = Writes(NoRows, NoRows, then),
         NEW e, e = Written(d, o)
  PROVE  RunRowsFit(e) /\ EndsStay(d, e) /\ o.then = then
         /\ \A r \in DOMAIN d : r \in DOMAIN e /\ e[r] = d[r]
<1>1. DOMAIN NoRows \cap DOMAIN d = {} /\ \A r : r \notin DOMAIN NoRows
  BY Singles
<1>2. RunRowsFit(e) /\ EndsStay(d, e)
  BY <1>1, RunsAdded
<1>3. Leaves(d, NoRows, NoRows, e)
  BY <1>1, RowsAfter
<1>. QED  BY <1>1, <1>2, <1>3, Decisions DEF Leaves

LEMMA RunDecision ==
  ASSUME NEW d, RunRowsFit(d), NEW call, RunCallFits(call, d),
         NEW seen, seen = Only(RunReads(call, d), d),
         NEW o, o = RunOutcome(call, seen), o.verdict = "done",
         DOMAIN o.inserts \cap DOMAIN d = {}, NEW e, e = Written(d, o)
  PROVE  /\ RunRowsFit(e) /\ EndsStay(d, e)
         /\ o.then # Nothing => RunCallFits(o.then, e)
<1>. DEFINE run == call.run
<1>0. /\ \A r \in RunReads(call, d) \cap DOMAIN d : r \in DOMAIN seen /\ seen[r] = d[r]
      /\ DOMAIN seen = RunReads(call, d) \cap DOMAIN d
  BY DEF Only
<1>1. CASE call.op = "start run"
  <2>1. RunsUnder(call.key, seen) = RunsUnder(call.key, d)
    <3>1. RunReads(call, d) = RunsUnder(call.key, d)
      BY <1>1 DEF RunReads
    <3>. QED  BY <1>0, <3>1 DEF RunsUnder, Kind
  <2>. DEFINE new == [key |-> call.key, status |-> "running", attempt |-> 1, checkpoint |-> Nothing]
  <2>4. o = StartRun(call, seen) /\ DOMAIN call = DriveFields /\ call.answer \in RunAnswers
    BY <1>1 DEF RunOutcome, RunCallFits
  <2>5. ASSUME NEW row  PROVE  /\ Drive(call, row).run = row
                               /\ Drive(call, row).op \in RunAnswers \cup {"consume"}
                               /\ DOMAIN Drive(call, row) = DriveFields
                               /\ Drive(call, row).answer \in RunAnswers
    BY <2>4 DEF Drive, DriveFields
  <2>6. ASSUME NEW row \in Kind("run", e)  PROVE  RunCallFits(Drive(call, row), e)
    <3>1. PICK k : k = Drive(call, row)
      OBVIOUS
    <3>2. k.run = row /\ DOMAIN k = DriveFields /\ k.answer \in RunAnswers
      BY <2>5, <3>1
    <3>3. k.op \in {"write result", "fail run", "complete run", "consume"}
      BY <2>5, <3>1 DEF RunAnswers
    <3>4. RunCallFits(k, e)
      BY <2>6, <3>2, <3>3 DEF RunCallFits, Running
    <3>. QED  BY <3>1, <3>4
  <2>2. CASE RunsUnder(call.key, seen) = {}
    <3>1. PICK ins : ins = One(RunRow(call.id), new)
      OBVIOUS
    <3>2. PICK then : then = Drive(call, RunRow(call.id))
      OBVIOUS
    <3>3. o = Writes(ins, NoRows, then)
      BY <2>2, <2>4, <3>1, <3>2 DEF StartRun
    <3>4. o.inserts = ins /\ o.then = then
      BY <3>3, Decisions
    <3>5. DOMAIN ins = {RunRow(call.id)} /\ ins[RunRow(call.id)] = new /\ RunRow(call.id)[1] = "run"
      BY <3>1, Singles DEF RunRow
    <3>6. \A s \in Kind("run", d) : d[s].key # call.key
      BY <2>1, <2>2 DEF RunsUnder
    <3>7. DOMAIN new = RunFields /\ new.attempt \in Nat /\ new.key = call.key
      BY DEF RunFields
    <3>. HIDE DEF new
    <3>8. RunRowsFit(e) /\ EndsStay(d, e)
      BY <3>3, <3>4, <3>5, <3>6, <3>7, RunsAdded
    <3>9. Leaves(d, ins, NoRows, e)
      BY <3>3, <3>4, RowsAfter
    <3>10. RunRow(call.id) \in Kind("run", e)
      BY <3>5, <3>9 DEF Leaves, Kind
    <3>. QED  BY <2>6, <3>2, <3>4, <3>8, <3>10
  <2>3. CASE RunsUnder(call.key, seen) # {}
    <3>1. PICK row \in RunsUnder(call.key, d) : TRUE
      BY <2>1, <2>3
    <3>2. row \in Kind("run", seen) /\ \A s \in RunsUnder(call.key, seen) : s = row
      BY <2>1, <3>1 DEF RunsUnder, RunRowsFit
    <3>3. seen[row].attempt \in Nat
      <4>1. seen[row] = d[row] /\ row \in Kind("run", d)
        BY <1>0, <2>1, <3>1, <3>2 DEF RunsUnder, Kind
      <4>. QED  BY <4>1 DEF RunRowsFit
    <3>4. \A s \in RunsUnder(call.key, seen) : seen[s].attempt <= seen[row].attempt
      BY <3>2, <3>3
    <3>5. Latest(call.key, seen) \in RunsUnder(call.key, seen)
      BY <2>1, <3>1, <3>4 DEF Latest
    <3>6. o = Same \/ o = Goto(Drive(call, row))
      BY <2>3, <2>4, <3>2, <3>5 DEF StartRun
    <3>7. PICK then : o = Writes(NoRows, NoRows, then) /\ then \in {Nothing, Drive(call, row)}
      BY <3>6 DEF Same, Goto
    <3>8. RunRowsFit(e) /\ EndsStay(d, e) /\ o.then = then
      BY <3>7, ReadingOnly
    <3>9. row \in Kind("run", e)
      BY <3>1, <3>8 DEF EndsStay, RunsUnder
    <3>. QED  BY <2>6, <3>7, <3>8, <3>9
  <2>. QED  BY <2>2, <2>3
<1>2. CASE call.op = "consume"
  <2>1. o = Consume(call)
    BY <1>2 DEF RunOutcome
  <2>2. PICK ins : ins = One(UsedRow(call.run, call.id), [by |-> call.id])
    OBVIOUS
  <2>3. PICK then : then = [call EXCEPT !.op = call.answer]
    OBVIOUS
  <2>4. o = Writes(ins, NoRows, then)
    BY <2>1, <2>2, <2>3 DEF Consume
  <2>5. \A r \in DOMAIN ins : r[1] = "used"
    <3>1. DOMAIN ins = {UsedRow(call.run, call.id)}
      BY <2>2, Singles
    <3>2. UsedRow(call.run, call.id)[1] = "used"
      BY DEF UsedRow
    <3>. QED  BY <3>1, <3>2
  <2>6. o.inserts = ins /\ o.then = then
    BY <2>4, Decisions
  <2>7. RunRowsFit(e) /\ EndsStay(d, e)
    BY <2>4, <2>5, <2>6, RunsAdded
  <2>8. RunCallFits(then, d)
    BY <1>2, <2>3 DEF RunCallFits, DriveFields, RunAnswers, Running
  <2>. QED  BY <2>6, <2>7, <2>8, RunCallsStay
<1>3. CASE call.op \in {"write result", "complete run", "fail run", "interrupt run", "resume run"}
  <2>1. run \in Kind("run", d) /\ RunReads(call, d) = {run}
    BY <1>3 DEF RunCallFits, RunReads
  <2>2. seen[run] = d[run] /\ run \in DOMAIN seen
    BY <1>0, <2>1 DEF Kind
  <2>3. PICK status, new, ins :
          /\ o = Moved(run, status, new, seen, ins)
          /\ DOMAIN new = RunFields /\ new.key = d[run].key /\ new.attempt \in Nat
          /\ \A r \in DOMAIN ins : /\ r[1] = "result" /\ r[2] = run /\ status = "succeeded"
                                   /\ \A s \in DOMAIN ins : s = r
    <3>1. PICK new : new = seen[run]
      OBVIOUS
    <3>2. DOMAIN new = RunFields /\ new.key = d[run].key /\ new.attempt \in Nat
      BY <2>1, <2>2, <3>1 DEF RunRowsFit
    <3>3. CASE call.op = "write result"
      <4>1. PICK ins : ins = One(ResultRow(run, call.id), [by |-> call.id])
        OBVIOUS
      <4>2. DOMAIN ins = {ResultRow(run, call.id)}
        BY <4>1, Singles
      <4>3. ResultRow(run, call.id)[1] = "result" /\ ResultRow(run, call.id)[2] = run
        BY DEF ResultRow
      <4>4. o = Moved(run, "succeeded", new, seen, ins)
        BY <3>1, <3>3, <4>1 DEF RunOutcome, WriteResult
      <4>. QED  BY <3>2, <4>2, <4>3, <4>4
    <3>4. ASSUME NEW next, NEW status, DOMAIN next = RunFields, next.key = d[run].key,
                 next.attempt \in Nat, o = Moved(run, status, next, seen, NoRows)
          PROVE  \E st, nx, ins :
                   /\ o = Moved(run, st, nx, seen, ins)
                   /\ DOMAIN nx = RunFields /\ nx.key = d[run].key /\ nx.attempt \in Nat
                   /\ \A r \in DOMAIN ins : /\ r[1] = "result" /\ r[2] = run /\ st = "succeeded"
                                            /\ \A s \in DOMAIN ins : s = r
      <4>1. \A r : r \notin DOMAIN NoRows
        BY Singles
      <4>. QED  BY <3>4, <4>1
    <3>5. CASE call.op \in {"complete run", "fail run"}
      BY <3>1, <3>2, <3>4, <3>5 DEF RunOutcome, CompleteRun, FailRun
    <3>6. CASE call.op = "interrupt run"
      <4>1. PICK next : next = [new EXCEPT !.checkpoint = call.id]
        OBVIOUS
      <4>2. DOMAIN next = RunFields /\ next.key = d[run].key /\ next.attempt \in Nat
        BY <3>2, <4>1 DEF RunFields
      <4>3. o = Moved(run, "interrupted", next, seen, NoRows)
        BY <3>1, <3>6, <4>1 DEF RunOutcome, InterruptRun
      <4>. QED  BY <3>4, <4>2, <4>3
    <3>7. CASE call.op = "resume run"
      <4>1. PICK next : next = [new EXCEPT !.attempt = IF IsResumable(new) THEN new.attempt + 1
                                                       ELSE new.attempt]
        OBVIOUS
      <4>2. DOMAIN next = RunFields /\ next.key = d[run].key /\ next.attempt \in Nat
        BY <3>2, <4>1 DEF RunFields
      <4>3. o = Moved(run, "running", next, seen, NoRows)
        BY <3>1, <3>7, <4>1 DEF RunOutcome, ResumeRun
      <4>. QED  BY <3>4, <4>2, <4>3
    <3>. QED  BY <1>3, <3>3, <3>5, <3>6, <3>7
  <2>4. o = Writes(ins, One(run, Changed([new EXCEPT !.status = status], d[run])), Nothing)
        /\ status \in RunMoves[d[run].status]
    BY <2>2, <2>3, Decisions DEF Moved
  <2>5. o.inserts = ins /\ o.then = Nothing
    BY <2>4, Decisions
  <2>6. /\ e = Written(d, Writes(ins, One(run, Changed([new EXCEPT !.status = status], d[run])), Nothing))
        /\ DOMAIN ins \cap DOMAIN d = {}
    BY <2>4, <2>5
  <2>7. RunRowsFit(e) /\ EndsStay(d, e)
    BY <2>1, <2>3, <2>4, <2>6, RunMovesOn
  <2>. QED  BY <2>5, <2>7
<1>4. CASE call.op = "follow"
  <2>1. run \in Kind("run", d) /\ RunReads(call, d) = {run} /\ DOMAIN call = {"op", "run", "shown"}
    BY <1>4 DEF RunCallFits, RunReads
  <2>2. seen[run] = d[run]
    BY <1>0, <2>1 DEF Kind
  <2>3. PICK then : then = [call EXCEPT !.shown = seen[run],
                      !.op = IF seen[run].status \in FinalStatus THEN "stream ended" ELSE "follow"]
    OBVIOUS
  <2>4. o = Writes(NoRows, NoRows, then)
    BY <1>4, <2>3 DEF RunOutcome, Follow, Goto
  <2>5. RunRowsFit(e) /\ EndsStay(d, e) /\ o.then = then
    BY <2>4, ReadingOnly
  <2>6. /\ then.run = run /\ then.shown = d[run] /\ DOMAIN then = {"op", "run", "shown"}
        /\ then.op = IF d[run].status \in FinalStatus THEN "stream ended" ELSE "follow"
    BY <2>1, <2>2, <2>3
  <2>7. RunCallFits(then, d)
    BY <2>1, <2>6 DEF RunCallFits, Running
  <2>. QED  BY <2>5, <2>7, RunCallsStay
<1>5. CASE call.op = "stream ended"
  <2>1. o = Writes(NoRows, NoRows, Nothing)
    BY <1>5 DEF RunOutcome, Same
  <2>. QED  BY <2>1, ReadingOnly
<1>. QED  BY <1>1, <1>2, <1>3, <1>4, <1>5 DEF RunCallFits, Running

LEMMA RunRequestsFit ==
  ASSUME NEW d, NEW n, NEW call \in DriveRequests(n) \cup RunRequests(d, n)
  PROVE  RunCallFits(call, d)
<1>1. CASE call \in DriveRequests(n)
  BY <1>1 DEF DriveRequests, RunCallFits, Running, DriveFields, RunAnswers
<1>2. CASE call \in RunRequests(d, n)
  BY <1>2 DEF RunRequests, RunCallFits, Running
<1>. QED  BY <1>1, <1>2

LEMMA NoRunClashes ==
  ASSUME NEW call, Running(call), NEW seen
  PROVE  RunOutcome(call, seen).clash = Nothing
<1>1. RunOutcome(call, seen) = Refused \/ \E ins, ups, then : RunOutcome(call, seen) = Writes(ins, ups, then)
  BY DEF RunOutcome, Running, StartRun, Consume, WriteResult, CompleteRun, FailRun, InterruptRun,
         ResumeRun, Moved, Follow, Same, Goto
<1>. QED  BY <1>1, Decisions

RunsFit ==
  /\ CallsShaped
  /\ Serializable => RunRowsFit(tables)
                     /\ \A c \in Caller : calls[c].call # Nothing => RunCallFits(calls[c].call, tables)

LEMMA RunsStayFit ==
  ASSUME RunsAreServed, RunsFit, [Next]_vars
  PROVE  RunsFit'
<1>1. CASE UNCHANGED vars
  BY <1>1 DEF RunsFit, vars, CallsShaped, Serializable
<1>2. ASSUME NEW c \in Caller, Steps(c)  PROVE RunsFit'
  <2>. SUFFICES ASSUME Serializable
                PROVE  RunRowsFit(tables')
                       /\ \A a \in Caller : calls'[a].call # Nothing => RunCallFits(calls'[a].call, tables')
    BY <1>2 DEF RunsFit, Steps, Serializable
  <2>1. ASSUME NEW call, Turns(c, call), call # Nothing => RunCallFits(call, tables)
        PROVE  RunRowsFit(tables')
               /\ \A a \in Caller : calls'[a].call # Nothing => RunCallFits(calls'[a].call, tables')
    BY <1>2, <2>1, Fields DEF RunsFit, Steps, Turns, Resumed
  <2>2. CASE \E call \in Requests(service, tables, made + 1) : Turns(c, call)
    BY <2>1, <2>2, RunRequestsFit DEF RunsFit, RunsAreServed
  <2>3. CASE GoesOn(c)
    BY <1>2, <2>3 DEF RunsFit, Steps, GoesOn
  <2>7. CASE calls[c].phase # "idle" /\ Turns(c, calls[c].call)
    BY <2>1, <2>7 DEF RunsFit
  <2>4. Is(c, "deciding") => RunCallFits(calls[c].call, tables) /\ Running(calls[c].call)
    BY DEF RunsFit, CallsShaped, Is, RunCallFits
  <2>5. CASE Is(c, "deciding") /\ Turns(c, Decided(c).clash)
    <3>1. Decided(c).clash = Nothing
      BY <2>4, <2>5, NoRunClashes DEF Decided, RunsAreServed
    <3>. QED  BY <2>1, <2>5, <3>1
  <2>6. CASE Commit(c) /\ calls'[c] = Resumed(Decided(c).then)
    <3>. DEFINE call == calls[c].call
                seen == calls[c].seen
                o == Decided(c)
    <3>1. RunCallFits(call, tables) /\ Running(call)
      BY <2>4, <2>6 DEF Commit
    <3>2. seen = Only(RunReads(call, tables), tables) /\ o = RunOutcome(call, seen)
      BY <2>6, <3>1, CommitsOnWhatIsThere DEF RunsAreServed, Decided
    <3>3. o.verdict = "done" /\ DOMAIN o.inserts \cap DOMAIN tables = {} /\ tables' = Written(tables, o)
      BY <2>6, <3>1, CommitsOnWhatIsThere DEF RunsAreServed
    <3>4. RunRowsFit(tables') /\ EndsStay(tables, tables')
          /\ (o.then # Nothing => RunCallFits(o.then, tables'))
      <4>. HIDE DEF o, seen, call
      <4>. QED  BY <3>1, <3>2, <3>3, RunDecision DEF RunsFit
    <3>5. ASSUME NEW a \in Caller, calls'[a].call # Nothing  PROVE RunCallFits(calls'[a].call, tables')
      <4>1. CASE a = c
        BY <2>6, <3>4, <3>5, <4>1, Fields DEF Resumed
      <4>2. CASE a # c
        BY <1>2, <3>4, <3>5, <4>2, RunCallsStay DEF RunsFit, Steps
      <4>. QED  BY <4>1, <4>2
    <3>. QED  BY <3>4, <3>5
  <2>. QED  BY <1>2, <2>1, <2>2, <2>3, <2>5, <2>6, <2>7, Reading DEF Steps
<1>. QED  BY <1>1, <1>2, EveryStep DEF RunsFit

LEMMA RunsFitAtFirst ==
  ASSUME RunsAreServed, Init
  PROVE  RunsFit
<1>1. CallsShaped /\ \A c \in Caller : calls[c].call = Nothing
  BY Fields DEF Init, CallsShaped
<1>2. DOMAIN tables = {}
  BY Singles DEF Init, RunsAreServed
<1>. QED  BY <1>1, <1>2 DEF Init, RunsFit, RunRowsFit, Kind

LEMMA ResultsOfRuns ==
  ASSUME RunsFit
  PROVE  OneResultPerKey
BY DEF RunsFit, OneResultPerKey, RunRowsFit

LEMMA StreamsOfRuns ==
  ASSUME RunsFit
  PROVE  StreamShowsTheEnd
BY DEF RunsFit, StreamShowsTheEnd, RunCallFits

-----------------------------------------------------------------------------
(* Configuration and targets (Setup)                                       *)

SetupCallFits(call, d) ==
  /\ SettingUp(call)
  /\ call.op = "authorize" => call.row \in Kind("connection", d)
  /\ call.op = "set default" => call.row \in Kind("target", d)
\* Targets stay, and what they are for.
TargetsStay(d, e) ==
  /\ DOMAIN d \subseteq DOMAIN e
  /\ \A r \in Kind("target", d) : e[r].purpose = d[r].purpose

\* The calls are those of the service, the rows at first are of its shape, and the
\* database holds a purpose's default to be one.
SetupIsServed ==
  /\ SetupRowsFit(Beginning(service))
  /\ \A d, n : Requests(service, d, n) \subseteq
       AskRequests \cup AnswerRequests(d) \cup ConfigureRequests
         \cup TargetRequests(d) \cup ConnectionRequests(d, n)
  /\ \A call : SettingUp(call) =>
       /\ \A d : Reads(call, d) = SetupReads(call, d) /\ ReadsLater(call, d) = SetupReadsLater(call)
       /\ \A seen : /\ Outcome(call, seen) = SetupOutcome(call, seen)
                    /\ Locks(call, seen) = SetupLocks(call, seen)
       /\ ~Outside(call)
  /\ \A d : Unique(d) => OneDefault(d)

\* What a call of the service inserts and updates.
GivenBy(v, call) == v.value = call.value /\ v.by = call.by
InsertsFit(ins, call) ==
  /\ IsFiniteSet(DOMAIN ins)
  /\ \A r \in DOMAIN ins :
       /\ r[1] \in {"question", "connection", "value", "target"}
       /\ r[1] = "target" => DOMAIN ins[r] = TargetFields
       /\ r[1] = "value" => DOMAIN ins[r] = ValueFields /\ GivenBy(ins[r], call)
Moving(ups, call, seen, r) ==
  /\ call.op = "set default" /\ call.row \in DOMAIN ups
  /\ DOMAIN ups[r] = {"default"} /\ (ups[r].default <=> r = call.row)
  /\ r \in DOMAIN seen /\ seen[r].purpose = call.purpose
UpdatesFit(ups, call, seen) ==
  \A r \in DOMAIN ups :
    /\ r[1] \in {"question", "connection", "value", "target"}
    /\ r[1] = "target" => Moving(ups, call, seen, r)
    /\ r[1] = "value" => /\ r \in DOMAIN seen
                         /\ \E new : /\ DOMAIN new = ValueFields /\ GivenBy(new, call)
                                     /\ ups[r] = Changed(new, seen[r])
SetupWrites(o, call, seen) ==
  \E ins, ups : /\ o = Writes(ins, ups, Nothing)
                /\ InsertsFit(ins, call) /\ UpdatesFit(ups, call, seen)

LEMMA WritingNothing ==
  ASSUME NEW call, NEW seen
  PROVE  InsertsFit(NoRows, call) /\ UpdatesFit(NoRows, call, seen)
<1>1. DOMAIN NoRows = {}
  BY Singles
<1>. QED  BY <1>1, FS_EmptySet DEF InsertsFit, UpdatesFit

LEMMA WritingOne ==
  ASSUME NEW call, NEW seen, NEW row, NEW value, row[1] \in {"question", "connection"}
  PROVE  InsertsFit(One(row, value), call) /\ UpdatesFit(One(row, value), call, seen)
<1>1. DOMAIN One(row, value) = {row}
  BY Singles
<1>2. IsFiniteSet({row})
  BY FS_Singleton
<1>. QED  BY <1>1, <1>2 DEF InsertsFit, UpdatesFit

LEMMA WritingValue ==
  ASSUME NEW call, NEW by, NEW state, NEW seen, by = call.by
  PROVE  LET w == WriteValue(call, by, state, seen)
         IN InsertsFit(w.inserts, call) /\ UpdatesFit(w.updates, call, seen)
<1>. DEFINE row == Configured(call.field)
            new == [value |-> call.value, state |-> state, by |-> by]
            w == WriteValue(call, by, state, seen)
<1>1. row[1] = "value" /\ DOMAIN new = ValueFields /\ GivenBy(new, call)
  BY DEF Configured, ValueFields, GivenBy
<1>2. CASE row \in DOMAIN seen
  <2>1. w.inserts = NoRows /\ w.updates = One(row, Changed(new, seen[row]))
    BY <1>2 DEF WriteValue, One
  <2>. HIDE DEF new, row, w
  <2>2. UpdatesFit(w.updates, call, seen)
    <3>1. DOMAIN w.updates = {row} /\ w.updates[row] = Changed(new, seen[row])
      BY <2>1, Singles
    <3>. QED  BY <1>1, <1>2, <3>1 DEF UpdatesFit
  <2>. QED  BY <2>1, <2>2, WritingNothing DEF w
<1>3. CASE row \notin DOMAIN seen
  <2>1. w.inserts = One(row, new) /\ w.updates = NoRows
    BY <1>3 DEF WriteValue, One
  <2>. HIDE DEF new, row, w
  <2>2. InsertsFit(w.inserts, call)
    <3>1. DOMAIN w.inserts = {row} /\ w.inserts[row] = new /\ IsFiniteSet({row})
      BY <2>1, Singles, FS_Singleton
    <3>. QED  BY <1>1, <3>1 DEF InsertsFit
  <2>. QED  BY <2>1, <2>2, WritingNothing DEF w
<1>. QED  BY <1>2, <1>3

LEMMA SetupDecision ==
  ASSUME NEW call, SettingUp(call), NEW d, SetupCallFits(call, d), NEW seen, NEW o,
         o = SetupOutcome(call, seen), o.verdict = "done"
  PROVE  SetupWrites(o, call, seen)
<1>0. Same = Writes(NoRows, NoRows, Nothing) /\ SetupWrites(Same, call, seen)
  BY WritingNothing DEF Same, SetupWrites
<1>8. ASSUME NEW row, NEW value, row[1] \in {"question", "connection"},
             o = Insert(row, value) \/ o = Update(row, value)
      PROVE  SetupWrites(o, call, seen)
  BY <1>8, WritingNothing, WritingOne DEF SetupWrites, Insert, Update
<1>9. \A x : Question(x)[1] = "question" /\ Connection(x)[1] = "connection" /\ Target(x)[1] = "target"
  BY DEF Question, Connection, Target
<1>1. CASE call.op = "ask"
  <2>1. o = Ask(call, seen)
    BY <1>1 DEF SetupOutcome
  <2>2. o = Same \/ \E value : o = Insert(Question(call.field), value)
    BY <2>1 DEF Ask
  <2>. QED  BY <1>0, <1>8, <1>9, <2>2
<1>2. CASE call.op = "answer"
  <2>. DEFINE row == Question(call.field)
              new == [seen[row] EXCEPT !.answer = call.value, !.by = call.by,
                                       !.disposition = call.disposition]
              w == WriteValue(call, call.by, "confirmed", seen)
  <2>1. PICK settled : settled = One(row, Changed(new, seen[row]))
    OBVIOUS
  <2>2. o = Answer(call, seen)
    BY <1>2 DEF SetupOutcome
  <2>3. \/ o = Refused
        \/ o = Writes(w.inserts, Over(w.updates, settled), Nothing)
        \/ o = Writes(NoRows, settled, Nothing)
    BY <2>1, <2>2 DEF Answer, One
  <2>6. InsertsFit(w.inserts, call) /\ UpdatesFit(w.updates, call, seen)
    BY WritingValue
  <2>7. row[1] = "question"
    BY <1>9
  <2>. HIDE DEF w, row, new
  <2>4. UpdatesFit(settled, call, seen) /\ DOMAIN settled = {row}
    <3>1. PICK value : value = Changed(new, seen[row])
      OBVIOUS
    <3>2. settled = One(row, value)
      BY <2>1, <3>1
    <3>3. UpdatesFit(One(row, value), call, seen)
      BY <2>7, WritingOne
    <3>. QED  BY <3>2, <3>3, Singles
  <2>5. UpdatesFit(Over(w.updates, settled), call, seen)
    <3>1. PICK u : u = w.updates
      OBVIOUS
    <3>2. PICK both : both = Over(u, settled)
      OBVIOUS
    <3>3. DOMAIN both = DOMAIN u \cup DOMAIN settled
          /\ \A x \in DOMAIN u : both[x] = u[x]
      BY <3>2 DEF Over
    <3>4. \A x \in DOMAIN u : Moving(u, call, seen, x) => call.op = "set default"
      BY DEF Moving
    <3>5. UpdatesFit(both, call, seen)
      BY <1>2, <2>4, <2>6, <2>7, <3>1, <3>3, <3>4 DEF UpdatesFit
    <3>. QED  BY <3>1, <3>2, <3>5
  <2>. QED  BY <2>3, <2>4, <2>5, <2>6, WritingNothing, Decisions DEF SetupWrites
<1>3. CASE call.op = "set value"
  <2>1. o = SetValue(call, seen)
    BY <1>3 DEF SetupOutcome
  <2>2. o = Refused \/ \E w : /\ w = WriteValue(call, call.by, call.state, seen)
                              /\ o = Writes(w.inserts, w.updates, Nothing)
    BY <2>1 DEF SetValue
  <2>. QED  BY <2>2, WritingValue, Decisions DEF SetupWrites
<1>4. CASE call.op = "connect"
  <2>1. o = RecordConnection(call, seen)
    BY <1>4 DEF SetupOutcome
  <2>2. o = Refused \/ \E value : o = Insert(Connection(call.id), value)
    BY <2>1 DEF RecordConnection
  <2>. QED  BY <1>8, <1>9, <2>2, Decisions
<1>5. CASE call.op = "authorize"
  <2>1. o = AuthorizeConnection(call, seen)
    BY <1>5 DEF SetupOutcome
  <2>2. o = Refused \/ \E value : o = Update(call.row, value)
    BY <2>1 DEF AuthorizeConnection
  <2>3. call.row[1] = "connection"
    BY <1>5 DEF SetupCallFits, Kind
  <2>. QED  BY <1>8, <2>2, <2>3, Decisions
<1>6. CASE call.op = "register"
  <2>1. o = RegisterTarget(call, seen)
    BY <1>6 DEF SetupOutcome
  <2>2. PICK row, value : /\ o = Insert(row, value) /\ row[1] = "target"
                          /\ DOMAIN value = TargetFields
    BY <1>9, <2>1 DEF RegisterTarget, TargetFields
  <2>3. InsertsFit(One(row, value), call)
    <3>1. DOMAIN One(row, value) = {row} /\ One(row, value)[row] = value /\ IsFiniteSet({row})
      BY Singles, FS_Singleton
    <3>. QED  BY <2>2, <3>1 DEF InsertsFit
  <2>. QED  BY <2>2, <2>3, WritingNothing DEF SetupWrites, Insert
<1>7. CASE call.op = "set default"
  <2>1. o = SetDefault(call, seen)
    BY <1>7 DEF SetupOutcome
  <2>2. PICK rows : rows = (Current(call.purpose, seen) \ {call.row}) \cup {call.row}
    OBVIOUS
  <2>3. PICK ups : ups = [r \in rows |-> [default |-> r = call.row]]
    OBVIOUS
  <2>4. /\ o = Writes(NoRows, ups, Nothing) /\ call.row \in DOMAIN seen
        /\ seen[call.row].purpose = call.purpose
    BY <2>1, <2>2, <2>3, Decisions DEF SetDefault
  <2>5. \A r \in rows : r[1] = "target" /\ r \in DOMAIN seen /\ seen[r].purpose = call.purpose
    BY <1>7, <2>2, <2>4 DEF Current, DefaultsOf, Kind, SetupCallFits
  <2>6. DOMAIN ups = rows /\ call.row \in rows
        /\ \A r \in rows : DOMAIN ups[r] = {"default"} /\ (ups[r].default <=> r = call.row)
    BY <2>2, <2>3
  <2>7. UpdatesFit(ups, call, seen)
    BY <1>7, <2>5, <2>6 DEF UpdatesFit, Moving
  <2>. QED  BY <2>4, <2>7, WritingNothing DEF SetupWrites
<1>. QED  BY <1>1, <1>2, <1>3, <1>4, <1>5, <1>6, <1>7 DEF SettingUp

\* What a call has read of the targets is what they are for.
SeenFits(seen, d) ==
  \A r \in Kind("target", seen) : r \in DOMAIN d /\ seen[r].purpose = d[r].purpose

SetupFits ==
  /\ CallsShaped /\ SetupRowsFit(tables)
  /\ \A c \in Caller : SeenFits(calls[c].seen, tables)
  /\ \A c \in Caller : calls[c].call # Nothing => SetupCallFits(calls[c].call, tables)

LEMMA SetupRequestsFit ==
  ASSUME NEW d, NEW n,
         NEW call \in AskRequests \cup AnswerRequests(d) \cup ConfigureRequests
                      \cup TargetRequests(d) \cup ConnectionRequests(d, n)
  PROVE  SetupCallFits(call, d)
<1>1. CASE call \in AskRequests \cup AnswerRequests(d) \cup ConfigureRequests
  BY <1>1 DEF AskRequests, AnswerRequests, ConfigureRequests, SetupCallFits, SettingUp
<1>2. CASE call \in TargetRequests(d) \cup ConnectionRequests(d, n)
  BY <1>2 DEF TargetRequests, ConnectionRequests, SetupCallFits, SettingUp
<1>. QED  BY <1>1, <1>2

LEMMA SetupCallsStay ==
  ASSUME NEW d, NEW e, TargetsStay(d, e), NEW call, SetupCallFits(call, d)
  PROVE  SetupCallFits(call, e)
BY DEF TargetsStay, SetupCallFits, Kind

LEMMA SeenStays ==
  ASSUME NEW d, NEW e, TargetsStay(d, e), NEW seen, SeenFits(seen, d)
  PROVE  SeenFits(seen, e)
BY DEF TargetsStay, SeenFits, Kind

\* A commit keeps the targets, and a default of every purpose that had one.
LEMMA SetupCommits ==
  ASSUME NEW d, SetupRowsFit(d), NEW call, SetupCallFits(call, d), NEW seen, SeenFits(seen, d),
         NEW ins, NEW ups, InsertsFit(ins, call), UpdatesFit(ups, call, seen),
         DOMAIN ins \cap DOMAIN d = {}, NEW e, Leaves(d, ins, ups, e), OneDefault(e)
  PROVE  /\ SetupRowsFit(e) /\ TargetsStay(d, e)
         /\ \A p \in Purpose : DefaultsOf(p, d) # {} => DefaultsOf(p, e) # {}
<1>1. /\ DOMAIN e = DOMAIN ins \cup DOMAIN d
      /\ \A r \in DOMAIN ins : e[r] = ins[r]
      /\ \A r \in DOMAIN d \ DOMAIN ups : e[r] = d[r]
      /\ \A r \in DOMAIN d \cap DOMAIN ups : e[r] = Over(ups[r], d[r])
  BY DEF Leaves
<1>2. ASSUME NEW r \in Kind("target", d) \cap DOMAIN ups
      PROVE  /\ Moving(ups, call, seen, r) /\ DOMAIN e[r] = TargetFields
             /\ e[r].purpose = d[r].purpose /\ (e[r].default <=> r = call.row)
  <2>1. Moving(ups, call, seen, r) /\ DOMAIN d[r] = TargetFields
    BY DEF UpdatesFit, Kind, SetupRowsFit
  <2>2. PICK up : up = ups[r]
    OBVIOUS
  <2>3. e[r] = Over(up, d[r]) /\ DOMAIN up = {"default"} /\ (up.default <=> r = call.row)
    BY <1>1, <2>1, <2>2 DEF Kind, Moving
  <2>4. /\ DOMAIN e[r] = TargetFields /\ e[r].purpose = d[r].purpose
        /\ e[r].default = up.default
    BY <2>1, <2>3 DEF Over, TargetFields
  <2>. QED  BY <2>1, <2>3, <2>4
<1>3. ASSUME NEW r \in Kind("target", e), r \notin Kind("target", d) \cap DOMAIN ups
      PROVE  /\ DOMAIN e[r] = TargetFields
             /\ r \in DOMAIN d => e[r] = d[r]
  BY <1>1, <1>3 DEF Kind, InsertsFit, SetupRowsFit
<1>4. ASSUME NEW r \in Kind("value", e)  PROVE DOMAIN e[r] = ValueFields
  <2>1. CASE r \in DOMAIN d \cap DOMAIN ups
    <3>1. PICK new : DOMAIN new = ValueFields /\ ups[r] = Changed(new, seen[r])
      BY <2>1 DEF Kind, UpdatesFit
    <3>2. PICK up : up = ups[r]
      OBVIOUS
    <3>3. e[r] = Over(up, d[r]) /\ DOMAIN up \subseteq ValueFields /\ DOMAIN d[r] = ValueFields
      BY <1>1, <2>1, <3>1, <3>2 DEF Changed, SetupRowsFit, Kind
    <3>. QED  BY <3>3 DEF Over
  <2>2. CASE r \notin DOMAIN d \cap DOMAIN ups
    BY <1>1, <2>2 DEF Kind, InsertsFit, SetupRowsFit
  <2>. QED  BY <2>1, <2>2
<1>5. IsFiniteSet(DOMAIN e)
  <2>1. IsFiniteSet(DOMAIN ins) /\ IsFiniteSet(DOMAIN d)
    BY DEF InsertsFit, SetupRowsFit
  <2>2. IsFiniteSet(DOMAIN ins \cup DOMAIN d)
    BY <2>1, FS_Union
  <2>. QED  BY <1>1, <2>2
<1>6. SetupRowsFit(e)
  BY <1>2, <1>3, <1>4, <1>5 DEF SetupRowsFit
<1>7. TargetsStay(d, e)
  BY <1>1, <1>2, <1>3 DEF TargetsStay, Kind
<1>8. ASSUME NEW p \in Purpose, NEW r \in DefaultsOf(p, d)  PROVE DefaultsOf(p, e) # {}
  <2>1. r \in Kind("target", d) /\ d[r].default /\ d[r].purpose = p /\ r \in Kind("target", e)
    BY <1>1 DEF DefaultsOf, Kind
  <2>2. CASE r \notin DOMAIN ups
    BY <1>1, <2>1, <2>2 DEF DefaultsOf, Kind
  <2>3. CASE r \in DOMAIN ups
    <3>1. Moving(ups, call, seen, r) /\ call.row \in Kind("target", d) /\ call.row \in DOMAIN ups
      BY <1>2, <2>1, <2>3 DEF Moving, SetupCallFits
    <3>2. Moving(ups, call, seen, call.row) /\ e[call.row].default
          /\ e[call.row].purpose = d[call.row].purpose
      BY <1>2, <3>1
    <3>3. \A t \in {r, call.row} : seen[t].purpose = call.purpose /\ d[t].purpose = seen[t].purpose
      BY <2>1, <3>1, <3>2 DEF Moving, SeenFits, Kind
    <3>4. e[call.row].purpose = p /\ call.row \in Kind("target", e)
      BY <1>1, <2>1, <3>1, <3>2, <3>3 DEF Kind
    <3>. QED  BY <3>2, <3>4 DEF DefaultsOf
  <2>. QED  BY <2>2, <2>3
<1>. QED  BY <1>6, <1>7, <1>8

\* What is set as a default is a target by itself.
LEMMA OneIsThere ==
  ASSUME NEW d, SetupRowsFit(d), NEW p \in Purpose, DefaultsOf(p, d) # {}
  PROVE  Cardinality(DefaultsOf(p, d)) = 1
<1>1. IsFiniteSet(DefaultsOf(p, d))
  BY FS_Subset DEF SetupRowsFit, DefaultsOf, Kind
<1>2. Cardinality(DefaultsOf(p, d)) \in Nat /\ Cardinality(DefaultsOf(p, d)) # 0
  BY <1>1, FS_CardinalityType, FS_EmptySet
<1>3. Cardinality(DefaultsOf(p, d)) <= 1
  BY DEF SetupRowsFit, OneDefault
<1>. QED  BY <1>2, <1>3

\* What a commit writes.
SetupCommit(c) ==
  \E ins, ups :
    /\ InsertsFit(ins, calls[c].call) /\ UpdatesFit(ups, calls[c].call, calls[c].seen)
    /\ DOMAIN ins \cap DOMAIN tables = {} /\ Leaves(tables, ins, ups, tables')
    /\ OneDefault(tables') /\ Decided(c).then = Nothing

LEMMA SetupCommitting ==
  ASSUME SetupIsServed, SetupFits, NEW c \in Caller, Commit(c)
  PROVE  SetupCommit(c)
<1>. DEFINE call == calls[c].call
            seen == calls[c].seen
<1>1. SetupCallFits(call, tables) /\ SettingUp(call)
  BY DEF Commit, Is, SetupFits, CallsShaped, SetupCallFits
<1>2. PICK o : o = Decided(c)
  OBVIOUS
<1>3. o = SetupOutcome(call, seen) /\ o.verdict = "done" /\ tables' = Written(tables, o)
      /\ DOMAIN o.inserts \cap DOMAIN tables = {} /\ Unique(tables')
  BY <1>1, <1>2 DEF Commit, Collides, Decided, SetupIsServed
<1>. HIDE DEF call, seen
<1>4. SetupWrites(o, call, seen)
  BY <1>1, <1>3, SetupDecision
<1>5. PICK ins, ups : /\ o = Writes(ins, ups, Nothing)
                      /\ InsertsFit(ins, call) /\ UpdatesFit(ups, call, seen)
  BY <1>4 DEF SetupWrites
<1>6. o.inserts = ins /\ o.then = Nothing
  BY <1>5, Decisions
<1>7. Leaves(tables, ins, ups, Written(tables, Writes(ins, ups, Nothing)))
  BY <1>3, <1>6, RowsAfter
<1>8. Leaves(tables, ins, ups, tables')
  BY <1>3, <1>5, <1>7
<1>. QED  BY <1>2, <1>3, <1>5, <1>6, <1>8 DEF SetupCommit, SetupIsServed, call, seen

LEMMA SetupStaysFit ==
  ASSUME SetupIsServed, SetupFits, [Next]_vars
  PROVE  /\ SetupFits' /\ OneDefault(tables)
         /\ \A p \in Purpose : DefaultsOf(p, tables) # {} => DefaultsOf(p, tables') # {}
<1>0. OneDefault(tables)
  BY DEF SetupFits, SetupRowsFit
<1>. DEFINE Good == /\ SetupFits'
                    /\ \A p \in Purpose : DefaultsOf(p, tables) # {} => DefaultsOf(p, tables') # {}
<1>1. CASE UNCHANGED vars
  BY <1>0, <1>1 DEF SetupFits, vars, CallsShaped
<1>2. ASSUME NEW c \in Caller, Steps(c)  PROVE Good
  <2>1. ASSUME tables' = tables, SeenFits(calls'[c].seen, tables),
               calls'[c].call # Nothing => SetupCallFits(calls'[c].call, tables)
        PROVE  Good
    BY <1>2, <2>1 DEF SetupFits, Steps
  <2>2. ASSUME NEW call, Turns(c, call), call # Nothing => SetupCallFits(call, tables)
        PROVE  Good
    <3>1. SeenFits(calls'[c].seen, tables)
      BY <2>2 DEF Turns, Resumed, Idle, Ready, SeenFits, Kind
    <3>2. calls'[c].call # Nothing => SetupCallFits(calls'[c].call, tables)
      BY <2>2, Fields DEF Turns, Resumed
    <3>. QED  BY <2>1, <2>2, <3>1, <3>2 DEF Turns
  <2>3. CASE \E call \in Requests(service, tables, made + 1) : Turns(c, call)
    BY <2>2, <2>3, SetupRequestsFit DEF SetupFits, SetupIsServed
  <2>4. CASE calls[c].phase # "idle" /\ Turns(c, calls[c].call)
    BY <2>2, <2>4 DEF SetupFits
  <2>5. CASE Loads(c)
    <3>1. SeenFits(Only(Reads(calls[c].call, tables), tables), tables)
      BY DEF SeenFits, Only, Kind
    <3>. QED  BY <2>1, <2>5, <3>1 DEF Loads, SetupFits
  <2>6. CASE Flushes(c)
    <3>1. PICK seen : seen = calls[c].seen
      OBVIOUS
    <3>2. PICK later : later = Only(ReadsLater(calls[c].call, tables), tables)
      OBVIOUS
    <3>3. SeenFits(seen, tables) /\ SeenFits(later, tables)
      BY <3>1, <3>2 DEF SetupFits, SeenFits, Only, Kind
    <3>4. SeenFits(Over(later, seen), tables) /\ SeenFits(Over(seen, later), tables)
      BY <3>3 DEF SeenFits, Over, Kind
    <3>. QED  BY <2>1, <2>6, <3>1, <3>2, <3>4 DEF Flushes, SetupFits
  <2>7. CASE Is(c, "deciding") /\ Decided(c).verdict = "done" /\ Turns(c, Decided(c).clash)
    <3>1. PICK o : o = Decided(c)
      OBVIOUS
    <3>2. SetupCallFits(calls[c].call, tables) /\ SettingUp(calls[c].call)
      BY <2>7 DEF Is, SetupFits, CallsShaped, SetupCallFits
    <3>3. o = SetupOutcome(calls[c].call, calls[c].seen) /\ o.verdict = "done"
      BY <2>7, <3>1, <3>2 DEF Decided, SetupIsServed
    <3>4. SetupWrites(o, calls[c].call, calls[c].seen)
      BY <3>2, <3>3, SetupDecision
    <3>5. o.clash = Nothing
      BY <3>4, Decisions DEF SetupWrites
    <3>. QED  BY <2>2, <2>7, <3>1, <3>5
  <2>8. CASE Commit(c) /\ calls'[c] = Resumed(Decided(c).then)
    <3>1. SetupCommit(c)
      BY <2>8, SetupCommitting
    <3>2. /\ SetupRowsFit(tables') /\ TargetsStay(tables, tables')
          /\ \A p \in Purpose : DefaultsOf(p, tables) # {} => DefaultsOf(p, tables') # {}
      <4>1. SetupCallFits(calls[c].call, tables) /\ SeenFits(calls[c].seen, tables)
        BY <2>8 DEF Commit, Is, SetupFits, CallsShaped
      <4>. QED  BY <3>1, <4>1, SetupCommits DEF SetupCommit, SetupFits
    <3>3. calls'[c].call = Nothing /\ SeenFits(calls'[c].seen, tables')
      BY <2>8, <3>1 DEF SetupCommit, Resumed, Idle, SeenFits, Kind
    <3>4. \A a \in Caller \ {c} : /\ SeenFits(calls'[a].seen, tables')
                                  /\ calls'[a].call # Nothing => SetupCallFits(calls'[a].call, tables')
      BY <1>2, <3>2, SeenStays, SetupCallsStay DEF SetupFits, Steps
    <3>5. \A a \in Caller : /\ SeenFits(calls'[a].seen, tables')
                            /\ calls'[a].call # Nothing => SetupCallFits(calls'[a].call, tables')
      BY <3>3, <3>4
    <3>6. CallsShaped'
      BY <1>2 DEF SetupFits, Steps
    <3>7. SetupRowsFit(tables')
      BY <3>2
    <3>8. SetupFits'
      BY <3>5, <3>6, <3>7 DEF SetupFits
    <3>. QED  BY <3>2, <3>8
  <2>9. Turns(c, Nothing) => Good
    BY <2>2
  <2>. QED  BY <1>2, <2>3, <2>4, <2>5, <2>6, <2>7, <2>8, <2>9 DEF Steps
<1>. QED  BY <1>0, <1>1, <1>2, EveryStep DEF SetupFits

LEMMA SetupFitsAtFirst ==
  ASSUME SetupIsServed, Init
  PROVE  SetupFits
<1>1. CallsShaped /\ \A c \in Caller : calls[c].call = Nothing /\ DOMAIN calls[c].seen = {}
  BY Fields DEF Init, CallsShaped, Idle
<1>. QED  BY <1>1 DEF Init, SetupFits, SetupIsServed, SeenFits, Kind

\* What the properties of configuration say of a step.
DefaultsStay ==
  \A p \in Purpose : DefaultsOf(p, tables) # {} => Cardinality(DefaultsOf(p, tables')) = 1
WrittenWhole ==
  Serializable =>
    \A r \in Kind("value", tables') :
      r \notin DOMAIN tables \/ tables'[r] # tables[r]
        => \E c \in Caller : /\ Commits(c)
                             /\ calls[c].call.value = tables'[r].value
                             /\ calls[c].call.by = tables'[r].by

LEMMA DefaultsOfSetup ==
  ASSUME SetupIsServed, SetupFits, [Next]_vars
  PROVE  [DefaultsStay]_vars
<1>1. SetupRowsFit(tables')
  BY SetupStaysFit DEF SetupFits
<1>. QED  BY <1>1, SetupStaysFit, OneIsThere DEF DefaultsStay

LEMMA ValuesOfSetup ==
  ASSUME SetupIsServed, SetupFits, [Next]_vars
  PROVE  [WrittenWhole]_vars
<1>1. ASSUME NEW c \in Caller, Steps(c), Commit(c), Serializable,
             NEW r \in Kind("value", tables'), r \notin DOMAIN tables \/ tables'[r] # tables[r]
      PROVE  /\ Commits(c)
             /\ calls[c].call.value = tables'[r].value /\ calls[c].call.by = tables'[r].by
  <2>. DEFINE call == calls[c].call
              seen == calls[c].seen
  <2>1. PICK ins, ups :
          /\ InsertsFit(ins, call) /\ UpdatesFit(ups, call, seen)
          /\ DOMAIN ins \cap DOMAIN tables = {} /\ Leaves(tables, ins, ups, tables')
          /\ Decided(c).then = Nothing
    BY <1>1, SetupCommitting DEF SetupCommit
  <2>2. Commits(c)
    <3>1. calls'[c] = Resumed(Nothing)
      BY <1>1, <2>1, Continuing DEF Commit, SetupFits
    <3>2. calls[c].phase = "deciding" /\ calls'[c].phase = "idle"
      BY <1>1, <3>1, Fields DEF Commit, Is, Resumed
    <3>3. tables' # tables
      BY <1>1 DEF Kind
    <3>. QED  BY <3>2, <3>3 DEF Commits, Is
  <2>3. \A q \in DOMAIN seen : q \in DOMAIN tables => seen[q] = tables[q]
    <3>1. ~Outside(call) 
      BY <1>1 DEF SetupIsServed, SetupFits, SetupCallFits, Commit, Is, CallsShaped
    <3>2. \E rows : seen = Only(rows, tables)
      BY <1>1, <3>1 DEF Commit, Stale
    <3>. QED  BY <3>2 DEF Only
  <2>. HIDE DEF call, seen
  <2>4. CASE r \in DOMAIN ins
    BY <2>1, <2>2, <2>4 DEF Leaves, InsertsFit, GivenBy, Kind, call
  <2>5. CASE r \notin DOMAIN ins
    <3>1. r \in DOMAIN tables \cap DOMAIN ups /\ tables'[r] = Over(ups[r], tables[r])
      BY <1>1, <2>1, <2>5 DEF Leaves, Kind
    <3>2. PICK new : /\ r \in DOMAIN seen
                     /\ DOMAIN new = ValueFields /\ GivenBy(new, call) /\ ups[r] = Changed(new, seen[r])
      BY <2>1, <3>1 DEF UpdatesFit, Kind
    <3>3. PICK was : was = tables[r]
      OBVIOUS
    <3>4. DOMAIN was = ValueFields /\ tables'[r] = Over(Changed(new, was), was)
      BY <2>3, <3>1, <3>2, <3>3 DEF SetupFits, SetupRowsFit, Kind
    <3>5. \A b \in ValueFields : tables'[r][b] = new[b]
      BY <3>2, <3>4, Merging
    <3>. QED  BY <2>2, <3>2, <3>5 DEF ValueFields, GivenBy, call
  <2>. QED  BY <2>2, <2>4, <2>5 DEF call
<1>2. CASE UNCHANGED vars
  BY <1>2
<1>3. ASSUME NEW c \in Caller, Steps(c)  PROVE WrittenWhole
  <2>1. CASE Commit(c)
    BY <1>1, <1>3, <2>1 DEF WrittenWhole
  <2>2. CASE tables' = tables
    BY <2>2 DEF Kind, WrittenWhole
  <2>. QED  BY <1>3, <2>1, <2>2 DEF Steps, Turns, Loads, Flushes
<1>. QED  BY <1>2, <1>3, EveryStep DEF SetupFits

-----------------------------------------------------------------------------
(* What is handed over (Deliverables)                                      *)

\* The project as it is or was: each of its states has a revision of its own.
Past(p, project) ==
  /\ ProjectFits(p) /\ p.revision <= project.revision
  /\ p.revision = project.revision => p = project
\* The project stays as it is or has a new revision.
Advances(p, q) == ProjectFits(q) /\ (q = p \/ q.revision > p.revision)

\* What has been read for a package, and what a package says.
PackageFits(call, project) ==
  LET content == call.content
  IN /\ ProjectFits(content) /\ content.revision <= project.revision
     /\ content.revision = project.revision =>
          /\ content.proposed \in {{}, project.proposed}
          /\ call.op # "read confirmed" => content.confirmed = project.confirmed

Packaging == {"read confirmed", "read proposed", "read pins", "record deliverable"}
DeliverableCallFits(call, d) ==
  /\ Delivering(call)
  /\ call.op = "change" => call.change \in {"propose", "confirm", "reject"}
  /\ call.op \in {"replace", "withdraw"} => call.row[1] = "deliverable"
  /\ call.op \in Packaging => PackageFits(call, d[ProjectRow])
\* What a call has read when it decides: the project as it is while it is locked,
\* and otherwise as it was since the revision was read.
DeliverableSeenFits(call, seen, d) ==
  /\ call.op \in {"change", "read revision", "read confirmed", "read proposed"} =>
       ProjectRow \in DOMAIN seen /\ Past(seen[ProjectRow], d[ProjectRow])
  /\ call.op = "change" => seen[ProjectRow] = d[ProjectRow]
  /\ call.op \in {"read confirmed", "read proposed"} =>
       call.content.revision <= seen[ProjectRow].revision

\* The calls are those of the service, and the rows at first are of its shape.
DeliverablesAreServed ==
  /\ DeliverableRowsFit(Beginning(service))
  /\ \A d, n : Requests(service, d, n) \subseteq ChangeRequests \cup AssembleRequests \cup EndRequests(d)
  /\ \A call : Delivering(call) =>
       /\ \A d : /\ Reads(call, d) = DeliverableReads(call, d)
                 /\ ReadsLater(call, d) = DeliverableReadsLater(call)
       /\ \A seen : /\ Outcome(call, seen) = DeliverableOutcome(call, seen)
                    /\ Locks(call, seen) = DeliverableLocks(call)
       /\ ~Outside(call)

LEMMA PackagesStay ==
  ASSUME NEW p, NEW q, ProjectFits(p), Advances(p, q)
  PROVE  /\ \A call : PackageFits(call, p) => PackageFits(call, q)
         /\ \A content : Says(content, p) => Says(content, q)
         /\ \A was : Past(was, p) => Past(was, q)
<1>1. CASE q = p
  BY <1>1
<1>2. CASE q.revision > p.revision
  <2>1. p.revision \in Nat /\ q.revision \in Nat /\ p.revision < q.revision
    BY <1>2 DEF ProjectFits, Advances
  <2>2. \A n \in Nat : n <= p.revision => n <= q.revision /\ n # q.revision
    BY <2>1
  <2>3. \A call : PackageFits(call, p) => PackageFits(call, q)
    BY <2>2 DEF PackageFits, ProjectFits
  <2>4. \A content : Says(content, p) => Says(content, q)
    BY <2>2 DEF Says
  <2>5. \A was : Past(was, p) => Past(was, q)
    BY <2>2 DEF Past, ProjectFits
  <2>. QED  BY <2>3, <2>4, <2>5
<1>. QED  BY <1>1, <1>2 DEF Advances

\* What a change writes is the project with the next revision.
LEMMA Changing ==
  ASSUME NEW d, DeliverableRowsFit(d), NEW call, DeliverableCallFits(call, d), call.op = "change",
         NEW seen, DeliverableSeenFits(call, seen, d),
         NEW o, o = Change(call, seen), o.verdict = "done", NEW e, e = Written(d, o)
  PROVE  /\ DOMAIN e = DOMAIN d /\ Advances(d[ProjectRow], e[ProjectRow])
         /\ o.then = Nothing
<1>1. PICK was : was = d[ProjectRow]
  OBVIOUS
<1>2. seen[ProjectRow] = was /\ ProjectFits(was)
  BY <1>1 DEF DeliverableSeenFits, DeliverableRowsFit
<1>3. PICK new : new = CASE call.change = "propose" -> [was EXCEPT !.proposed = @ \cup {call.item}]
               [] call.change = "confirm" -> [was EXCEPT !.proposed = @ \ {call.item},
                                                         !.confirmed = @ \cup {call.item}]
               [] call.change = "reject"  -> [was EXCEPT !.proposed = @ \ {call.item},
                                                         !.confirmed = @ \ {call.item}]
  OBVIOUS
<1>4. DOMAIN new = ProjectFields /\ new.revision = was.revision
  BY <1>2, <1>3 DEF DeliverableCallFits, ProjectFits, ProjectFields
<1>5. PICK next : next = [new EXCEPT !.revision = @ + 1]
  OBVIOUS
<1>6. DOMAIN next = ProjectFields /\ next.revision = was.revision + 1
  BY <1>4, <1>5 DEF ProjectFields
<1>7. o = Refused \/ o = Update(ProjectRow, Changed(next, was))
  BY <1>2, <1>3, <1>5 DEF Change
<1>8. PICK ups : ups = One(ProjectRow, Changed(next, was))
  OBVIOUS
<1>9. o = Writes(NoRows, ups, Nothing) /\ DOMAIN ups = {ProjectRow}
      /\ ups[ProjectRow] = Changed(next, was)
  <2>1. o = Writes(NoRows, ups, Nothing)
    BY <1>7, <1>8, Decisions DEF Update
  <2>2. \A row, value : DOMAIN One(row, value) = {row} /\ One(row, value)[row] = value
    BY Singles
  <2>. QED  BY <1>8, <2>1, <2>2
<1>10. Leaves(d, NoRows, ups, e)
  BY <1>9, RowsAfter, Singles
<1>11. DOMAIN e = DOMAIN d /\ e[ProjectRow] = Over(Changed(next, was), was)
  BY <1>1, <1>9, <1>10, Singles DEF Leaves, DeliverableRowsFit
<1>12. DOMAIN e[ProjectRow] = ProjectFields /\ e[ProjectRow].revision = was.revision + 1
  BY <1>2, <1>6, <1>11, Merging DEF ProjectFits, ProjectFields
<1>. QED  BY <1>1, <1>2, <1>9, <1>11, <1>12, Decisions DEF Advances, ProjectFits

\* What any other call writes leaves the project alone.
LEMMA Packing ==
  ASSUME NEW d, DeliverableRowsFit(d), NEW call, DeliverableCallFits(call, d), call.op # "change",
         NEW seen, DeliverableSeenFits(call, seen, d),
         NEW o, o = DeliverableOutcome(call, seen), o.verdict = "done",
         DOMAIN o.inserts \cap DOMAIN d = {}, NEW e, e = Written(d, o)
  PROVE  /\ ProjectRow \in DOMAIN e /\ e[ProjectRow] = d[ProjectRow]
         /\ \A r \in Kind("deliverable", e) : r \in DOMAIN d \/ Says(r[2], d[ProjectRow])
         /\ o.then # Nothing => DeliverableCallFits(o.then, d)
<1>. DEFINE project == d[ProjectRow]
            p == seen[ProjectRow]
<1>0. ProjectRow \in DOMAIN d /\ ProjectFits(project) /\ ProjectRow[1] = "project"
  BY DEF DeliverableRowsFit, ProjectRow
<1>1. ASSUME NEW then, o = Goto(then), then = Nothing \/ DeliverableCallFits(then, d)
      PROVE  /\ ProjectRow \in DOMAIN e /\ e[ProjectRow] = d[ProjectRow]
             /\ \A r \in Kind("deliverable", e) : r \in DOMAIN d \/ Says(r[2], d[ProjectRow])
             /\ o.then # Nothing => DeliverableCallFits(o.then, d)
  <2>1. o = Writes(NoRows, NoRows, then)
    BY <1>1 DEF Goto
  <2>2. Leaves(d, NoRows, NoRows, e)
    BY <2>1, RowsAfter, Singles
  <2>3. o.then = then
    BY <2>1, Decisions
  <2>4. DOMAIN e = DOMAIN d /\ \A r \in DOMAIN d : e[r] = d[r]
    BY <2>2, Singles DEF Leaves
  <2>. QED  BY <1>0, <1>1, <2>3, <2>4 DEF Kind
<1>2. ASSUME NEW value, call.row[1] = "deliverable", o = Update(call.row, value)
      PROVE  /\ ProjectRow \in DOMAIN e /\ e[ProjectRow] = d[ProjectRow]
             /\ \A r \in Kind("deliverable", e) : r \in DOMAIN d \/ Says(r[2], d[ProjectRow])
             /\ o.then # Nothing => DeliverableCallFits(o.then, d)
  <2>1. PICK ups : ups = One(call.row, value)
    OBVIOUS
  <2>2. o = Writes(NoRows, ups, Nothing) /\ DOMAIN ups = {call.row}
    BY <1>2, <2>1, Singles DEF Update
  <2>3. Leaves(d, NoRows, ups, e)
    BY <2>2, RowsAfter, Singles
  <2>4. DOMAIN e = DOMAIN d /\ \A r \in DOMAIN d \ {call.row} : e[r] = d[r]
    BY <2>2, <2>3, Singles DEF Leaves
  <2>5. ProjectRow # call.row
    BY <1>0, <1>2
  <2>. QED  BY <1>0, <2>2, <2>4, <2>5, Decisions DEF Kind
<1>3. CASE call.op = "read revision"
  <2>1. PICK content : content = [EmptyProject EXCEPT !.revision = p.revision]
    OBVIOUS
  <2>2. PICK then : then = Step("read confirmed", call, content)
    OBVIOUS
  <2>3. o = Goto(then)
    BY <1>3, <2>1, <2>2 DEF DeliverableOutcome, ReadRevision
  <2>4. Past(p, project)
    BY <1>3 DEF DeliverableSeenFits
  <2>5. ProjectFits(content) /\ content.revision = p.revision /\ content.proposed = {}
    BY <2>1, <2>4 DEF EmptyProject, ProjectFits, ProjectFields, Past
  <2>6. then.op = "read confirmed" /\ then.content = content
    BY <2>2 DEF Step
  <2>7. DeliverableCallFits(then, d)
    BY <2>4, <2>5, <2>6 DEF DeliverableCallFits, Delivering, PackageFits, Past
  <2>. QED  BY <1>1, <2>3, <2>7
<1>4. ASSUME call.op \in {"read confirmed", "read proposed"}
      PROVE  /\ PackageFits(call, project) /\ ProjectFits(p) /\ ProjectFits(project)
             /\ call.content.revision = project.revision => p = project
  <2>1. Past(p, project) /\ PackageFits(call, project) /\ call.content.revision <= p.revision
    BY <1>4 DEF DeliverableSeenFits, DeliverableCallFits, Packaging
  <2>2. /\ call.content.revision \in Nat /\ p.revision \in Nat /\ project.revision \in Nat
        /\ p.revision <= project.revision
    BY <1>0, <2>1 DEF Past, PackageFits, ProjectFits
  <2>3. call.content.revision = project.revision => p.revision = project.revision
    BY <2>1, <2>2
  <2>. QED  BY <1>0, <2>1, <2>3 DEF Past
<1>5. CASE call.op = "read confirmed"
  <2>1. PICK content : content = [call.content EXCEPT !.confirmed = p.confirmed]
    OBVIOUS
  <2>2. PICK then : then = Step(IF call.include THEN "read proposed" ELSE "read pins", call, content)
    OBVIOUS
  <2>3. o = Goto(then)
    BY <1>5, <2>1, <2>2 DEF DeliverableOutcome, ReadConfirmed
  <2>4. /\ ProjectFits(content) /\ content.revision = call.content.revision
        /\ content.proposed = call.content.proposed /\ content.confirmed = p.confirmed
    BY <1>4, <1>5, <2>1 DEF PackageFits, ProjectFits, ProjectFields
  <2>5. then.op \in {"read proposed", "read pins"} /\ then.content = content
    BY <2>2 DEF Step
  <2>6. PackageFits(then, project)
    BY <1>4, <1>5, <2>4, <2>5 DEF PackageFits
  <2>7. DeliverableCallFits(then, d)
    BY <2>5, <2>6 DEF DeliverableCallFits, Delivering
  <2>. QED  BY <1>1, <2>3, <2>7
<1>6. CASE call.op = "read proposed"
  <2>1. PICK content : content = [call.content EXCEPT !.proposed = p.proposed]
    OBVIOUS
  <2>2. PICK then : then = Step("read pins", call, content)
    OBVIOUS
  <2>3. o = Goto(then)
    BY <1>6, <2>1, <2>2 DEF DeliverableOutcome, ReadProposed
  <2>4. /\ ProjectFits(content) /\ content.revision = call.content.revision
        /\ content.confirmed = call.content.confirmed /\ content.proposed = p.proposed
    BY <1>4, <1>6, <2>1 DEF PackageFits, ProjectFits, ProjectFields
  <2>5. then.op = "read pins" /\ then.content = content
    BY <2>2 DEF Step
  <2>6. PackageFits(then, project)
    BY <1>4, <1>6, <2>4, <2>5 DEF PackageFits
  <2>7. DeliverableCallFits(then, d)
    BY <2>5, <2>6 DEF DeliverableCallFits, Delivering
  <2>. QED  BY <1>1, <2>3, <2>7
<1>7. CASE call.op = "read pins"
  <2>1. PICK then : then = [op |-> "record deliverable", content |-> call.content, pins |-> Provisional(seen)]
    OBVIOUS
  <2>2. o = Goto(then)
    BY <1>7, <2>1 DEF DeliverableOutcome, ReadPins
  <2>3. then.op = "record deliverable" /\ then.content = call.content
    BY <2>1
  <2>4. DeliverableCallFits(then, d)
    BY <1>7, <2>3 DEF DeliverableCallFits, Delivering, Packaging, PackageFits
  <2>. QED  BY <1>1, <2>2, <2>4
<1>8. CASE call.op = "record deliverable"
  <2>1. PICK row : row = DeliverableRow(call.content)
    OBVIOUS
  <2>2. PICK ins : ins = One(row, DeliverableAt(call))
    OBVIOUS
  <2>3. o = Writes(ins, NoRows, Nothing) /\ DOMAIN ins = {row} /\ row[1] = "deliverable"
        /\ row[2] = call.content
    BY <1>8, <2>1, <2>2, Singles DEF DeliverableOutcome, RecordDeliverable, Insert, DeliverableRow
  <2>4. o.inserts = ins /\ o.then = Nothing
    BY <2>3, Decisions
  <2>5. Leaves(d, ins, NoRows, e)
    BY <2>3, <2>4, RowsAfter
  <2>6. DOMAIN e = {row} \cup DOMAIN d /\ \A r \in DOMAIN d : e[r] = d[r]
    BY <2>3, <2>5, Singles DEF Leaves
  <2>7. Says(call.content, project)
    BY <1>8 DEF DeliverableCallFits, Packaging, PackageFits, Says, ProjectFits
  <2>. QED  BY <1>0, <2>3, <2>4, <2>6, <2>7 DEF Kind
<1>9. CASE call.op \in {"replace", "withdraw"}
  <2>1. o = Refused \/ \E value : o = Update(call.row, value)
    BY <1>9 DEF DeliverableOutcome, ReplaceDeliverable, WithdrawDeliverable
  <2>. QED  BY <1>2, <1>9, <2>1, Decisions DEF DeliverableCallFits
<1>. QED  BY <1>3, <1>5, <1>6, <1>7, <1>8, <1>9 DEF DeliverableCallFits, Delivering

\* A call has read nothing before it holds the project, and holds it alone.
Changes(c) == Is(c, "deciding") /\ calls[c].call.op = "change"
CallerFits(c) ==
  /\ calls[c].call # Nothing => DeliverableCallFits(calls[c].call, tables)
  /\ Is(c, "flushing") => calls[c].call.op = "change" /\ DOMAIN calls[c].seen = {}
  /\ Is(c, "deciding") => DeliverableSeenFits(calls[c].call, calls[c].seen, tables)
  /\ Changes(c) => calls[c].locks = {ProjectRow}
DeliverablesFit ==
  /\ CallsShaped /\ DeliverableRowsFit(tables)
  /\ \A c \in Caller : CallerFits(c)
  /\ \A b, c \in Caller : Changes(b) /\ Changes(c) => b = c

LEMMA DeliverableRequestsFit ==
  ASSUME NEW d, NEW call \in ChangeRequests \cup AssembleRequests \cup EndRequests(d)
  PROVE  DeliverableCallFits(call, d)
BY DEF ChangeRequests, AssembleRequests, EndRequests, Kind, DeliverableCallFits, Delivering, Packaging

LEMMA NoDeliverableClashes ==
  ASSUME NEW call, Delivering(call), NEW seen
  PROVE  DeliverableOutcome(call, seen).clash = Nothing
<1>1. \/ DeliverableOutcome(call, seen) = Refused
      \/ \E ins, ups, then : DeliverableOutcome(call, seen) = Writes(ins, ups, then)
  BY DEF DeliverableOutcome, Delivering, Change, ReadRevision, ReadConfirmed, ReadProposed, ReadPins,
         RecordDeliverable, ReplaceDeliverable, WithdrawDeliverable, Insert, Update, Goto
<1>. QED  BY <1>1, Decisions

\* A call that writes nothing.
LEMMA DeliverableReading ==
  ASSUME DeliverablesAreServed, DeliverablesFit, NEW c \in Caller, Steps(c), tables' = tables,
         CallerFits(c)', Changes(c)' => \A b \in Caller \ {c} : ~Changes(b)
  PROVE  DeliverablesFit'
<1>1. \A b \in Caller \ {c} : calls'[b] = calls[b]
  BY DEF Steps
<1>2. \A b \in Caller : CallerFits(b)'
  BY <1>1 DEF DeliverablesFit, CallerFits, Changes, Is
<1>3. \A b \in Caller \ {c} : Changes(b)' <=> Changes(b)
  BY <1>1 DEF Changes, Is
<1>4. \A a, b \in Caller : Changes(a)' /\ Changes(b)' => a = b
  BY <1>3 DEF DeliverablesFit
<1>. QED  BY <1>2, <1>4 DEF DeliverablesFit, Steps

LEMMA DeliverableCommits ==
  ASSUME DeliverablesAreServed, DeliverablesFit, NEW c \in Caller, Steps(c),
         Commit(c), calls'[c] = Resumed(Decided(c).then)
  PROVE  DeliverablesFit'
<1>. DEFINE call == calls[c].call
            seen == calls[c].seen
<1>1. /\ DeliverableCallFits(call, tables) /\ Delivering(call) /\ Is(c, "deciding")
      /\ DeliverableSeenFits(call, seen, tables)
  BY DEF Commit, Is, DeliverablesFit, CallsShaped, CallerFits, DeliverableCallFits
<1>2. PICK o : o = Decided(c)
  OBVIOUS
<1>3. o = DeliverableOutcome(call, seen) /\ o.verdict = "done" /\ tables' = Written(tables, o)
      /\ DOMAIN o.inserts \cap DOMAIN tables = {}
  BY <1>1, <1>2 DEF Commit, Collides, Decided, DeliverablesAreServed
<1>. HIDE DEF call, seen
<1>4. /\ ProjectRow \in DOMAIN tables' /\ Advances(tables[ProjectRow], tables'[ProjectRow])
      /\ \A r \in Kind("deliverable", tables') : r \in DOMAIN tables \/ Says(r[2], tables'[ProjectRow])
      /\ o.then # Nothing => DeliverableCallFits(o.then, tables')
      /\ tables'[ProjectRow] = tables[ProjectRow] \/ Changes(c)
  <2>1. CASE call.op = "change"
    <3>1. o = Change(call, seen)
      BY <1>3, <2>1 DEF DeliverableOutcome
    <3>2. /\ DOMAIN tables' = DOMAIN tables /\ Advances(tables[ProjectRow], tables'[ProjectRow])
          /\ o.then = Nothing
      BY <1>1, <1>3, <2>1, <3>1, Changing DEF DeliverablesFit
    <3>. QED  BY <1>1, <2>1, <3>2 DEF Kind, DeliverablesFit, DeliverableRowsFit, Changes, call
  <2>2. CASE call.op # "change"
    <3>1. /\ ProjectRow \in DOMAIN tables' /\ tables'[ProjectRow] = tables[ProjectRow]
          /\ \A r \in Kind("deliverable", tables') : r \in DOMAIN tables \/ Says(r[2], tables[ProjectRow])
          /\ o.then # Nothing => DeliverableCallFits(o.then, tables)
      BY <1>1, <1>3, <2>2, Packing DEF DeliverablesFit
    <3>2. o.then # Nothing => DeliverableCallFits(o.then, tables')
      BY <3>1 DEF DeliverableCallFits
    <3>3. Advances(tables[ProjectRow], tables'[ProjectRow])
      BY <3>1 DEF Advances, DeliverablesFit, DeliverableRowsFit
    <3>. QED  BY <3>1, <3>2, <3>3
  <2>. QED  BY <2>1, <2>2
<1>5. /\ \A k : PackageFits(k, tables[ProjectRow]) => PackageFits(k, tables'[ProjectRow])
      /\ \A content : Says(content, tables[ProjectRow]) => Says(content, tables'[ProjectRow])
      /\ \A was : Past(was, tables[ProjectRow]) => Past(was, tables'[ProjectRow])
  BY <1>4, PackagesStay DEF DeliverablesFit, DeliverableRowsFit
<1>6. DeliverableRowsFit(tables')
  BY <1>4, <1>5 DEF DeliverablesFit, DeliverableRowsFit, Kind, Advances
<1>7. \A b \in Caller \ {c} : calls'[b] = calls[b]
  BY DEF Steps
<1>8. ~Is(c, "deciding")' /\ ~Is(c, "flushing")' /\ calls'[c].call = o.then
  BY <1>2, Fields DEF Resumed, Is
<1>9. ASSUME NEW b \in Caller  PROVE CallerFits(b)'
  <2>1. CASE b = c
    BY <1>4, <1>8, <2>1, Fields DEF CallerFits, Changes, Is
  <2>2. CASE b # c
    <3>1. CallerFits(b) /\ calls'[b] = calls[b]
      BY <1>7, <2>2 DEF DeliverablesFit
    <3>2. calls[b].call # Nothing => DeliverableCallFits(calls[b].call, tables')
      BY <1>5, <3>1 DEF CallerFits, DeliverableCallFits
    <3>3. Is(b, "deciding") => DeliverableSeenFits(calls[b].call, calls[b].seen, tables')
      <4>1. Changes(b) => tables'[ProjectRow] = tables[ProjectRow]
        BY <1>4, <2>2 DEF DeliverablesFit
      <4>. QED  BY <1>5, <3>1, <4>1 DEF CallerFits, DeliverableSeenFits, Changes
    <3>. QED  BY <3>1, <3>2, <3>3 DEF CallerFits, Changes, Is
  <2>. QED  BY <2>1, <2>2
<1>10. \A a, b \in Caller : Changes(a)' /\ Changes(b)' => a = b
  BY <1>7, <1>8 DEF DeliverablesFit, Changes, Is
<1>. QED  BY <1>6, <1>9, <1>10 DEF DeliverablesFit, Steps

LEMMA DeliverablesStayFit ==
  ASSUME DeliverablesAreServed, DeliverablesFit, [Next]_vars
  PROVE  DeliverablesFit'
<1>1. CASE UNCHANGED vars
  BY <1>1 DEF DeliverablesFit, vars, CallsShaped, CallerFits, Changes, Is
<1>2. ASSUME NEW c \in Caller, Steps(c)  PROVE DeliverablesFit'
  <2>1. ASSUME NEW call, Turns(c, call), call # Nothing => DeliverableCallFits(call, tables)
        PROVE  DeliverablesFit'
    <3>1. ~Is(c, "deciding")' /\ ~Is(c, "flushing")' /\ calls'[c].call = call /\ tables' = tables
      BY <2>1, Fields DEF Turns, Resumed, Is
    <3>2. CallerFits(c)' /\ ~Changes(c)'
      BY <2>1, <3>1 DEF CallerFits, Changes
    <3>. QED  BY <1>2, <3>1, <3>2, DeliverableReading
  <2>2. CASE \E call \in Requests(service, tables, made + 1) : Turns(c, call)
    BY <2>1, <2>2, DeliverableRequestsFit DEF DeliverablesFit, DeliverablesAreServed
  <2>3. CASE calls[c].phase # "idle" /\ Turns(c, calls[c].call)
    BY <2>1, <2>3 DEF DeliverablesFit, CallerFits
  <2>4. CASE Turns(c, Nothing)
    BY <2>1, <2>4
  <2>5. calls[c].phase # "idle" => DeliverableCallFits(calls[c].call, tables) /\ Delivering(calls[c].call)
    BY DEF DeliverablesFit, CallsShaped, CallerFits, DeliverableCallFits
  <2>6. CASE Loads(c)
    <3>. DEFINE call == calls[c].call
    <3>1. PICK seen : seen = Only(DeliverableReads(call, tables), tables)
      OBVIOUS
    <3>2. /\ calls'[c].call = call /\ calls'[c].seen = seen /\ tables' = tables
          /\ calls'[c].phase = IF DeliverableLocks(call) = {} THEN "deciding" ELSE "flushing"
          /\ DeliverableCallFits(call, tables)
      BY <2>5, <2>6, <3>1 DEF Loads, DeliverablesAreServed
    <3>. HIDE DEF call
    <3>3. call.op = "change" => DOMAIN seen = {} /\ ~Is(c, "deciding")'
      BY <3>1, <3>2 DEF DeliverableReads, Only, DeliverableLocks, Is
    <3>4. call.op # "change" => Is(c, "deciding")'
      BY <3>2 DEF DeliverableLocks, Is
    <3>5. call.op # "change" => DeliverableSeenFits(call, seen, tables)
      <4>1. ASSUME call.op \in {"read revision", "read confirmed", "read proposed"}
            PROVE  ProjectRow \in DOMAIN seen /\ seen[ProjectRow] = tables[ProjectRow]
        BY <3>1, <4>1 DEF DeliverableReads, Only, DeliverablesFit, DeliverableRowsFit
      <4>2. Past(tables[ProjectRow], tables[ProjectRow])
        BY DEF Past, ProjectFits, DeliverablesFit, DeliverableRowsFit
      <4>3. call.op \in {"read confirmed", "read proposed"} =>
              call.content.revision <= tables[ProjectRow].revision
        BY <3>2 DEF DeliverableCallFits, Packaging, PackageFits
      <4>. QED  BY <4>1, <4>2, <4>3 DEF DeliverableSeenFits
    <3>6. CallerFits(c)' /\ ~Changes(c)'
      BY <3>2, <3>3, <3>4, <3>5 DEF CallerFits, Changes, Is
    <3>. QED  BY <1>2, <3>2, <3>6, DeliverableReading
  <2>7. CASE Flushes(c)
    <3>. DEFINE call == calls[c].call
    <3>1. /\ call.op = "change" /\ DOMAIN calls[c].seen = {} /\ calls[c].phase # "idle"
          /\ DeliverableCallFits(call, tables)
      BY <2>5, <2>7 DEF Flushes, DeliverablesFit, CallerFits, Is
    <3>2. /\ Locks(call, calls[c].seen) = {ProjectRow} /\ ReadsLater(call, tables) = {ProjectRow}
      BY <2>5, <3>1 DEF DeliverablesAreServed, DeliverableLocks, DeliverableReadsLater
    <3>3. PICK seen : seen = Over(calls[c].seen, Only({ProjectRow}, tables))
      OBVIOUS
    <3>4. ProjectRow \in DOMAIN seen /\ seen[ProjectRow] = tables[ProjectRow]
      BY <3>1, <3>3 DEF Over, Only, DeliverablesFit, DeliverableRowsFit
    <3>5. /\ calls'[c].call = call /\ calls'[c].seen = seen /\ tables' = tables
          /\ calls'[c].phase = "deciding" /\ calls'[c].locks = {ProjectRow}
      BY <2>7, <3>2, <3>3 DEF Flushes
    <3>6. DeliverableSeenFits(call, seen, tables)
      BY <3>1, <3>4 DEF DeliverableSeenFits, Past, ProjectFits, DeliverablesFit, DeliverableRowsFit
    <3>7. CallerFits(c)'
      BY <3>1, <3>5, <3>6 DEF CallerFits, Is
    <3>8. \A b \in Caller \ {c} : ~Changes(b)
      BY <2>7, <3>2 DEF Flushes, Free, DeliverablesFit, CallerFits
    <3>. QED  BY <1>2, <3>5, <3>7, <3>8, DeliverableReading
  <2>8. CASE Is(c, "deciding") /\ Decided(c).verdict = "done" /\ Turns(c, Decided(c).clash)
    <3>1. Decided(c).clash = Nothing
      BY <2>5, <2>8, NoDeliverableClashes DEF Is, Decided, DeliverablesAreServed
    <3>. QED  BY <2>1, <2>8, <3>1
  <2>9. CASE Commit(c) /\ calls'[c] = Resumed(Decided(c).then)
    BY <1>2, <2>9, DeliverableCommits
  <2>. QED  BY <1>2, <2>2, <2>3, <2>4, <2>6, <2>7, <2>8, <2>9 DEF Steps
<1>. QED  BY <1>1, <1>2, EveryStep DEF DeliverablesFit

LEMMA DeliverablesFitAtFirst ==
  ASSUME DeliverablesAreServed, Init
  PROVE  DeliverablesFit
<1>1. CallsShaped /\ \A c \in Caller : calls[c].call = Nothing /\ calls[c].phase = "idle"
  BY Fields DEF Init, CallsShaped
<1>. QED  BY <1>1 DEF Init, DeliverablesFit, DeliverablesAreServed, CallerFits, Changes, Is

LEMMA StaleOnesTell ==
  ASSUME DeliverableRowsFit(tables)
  PROVE  StalenessIsNoticed
<1>. SUFFICES ASSUME NEW r \in Kind("deliverable", tables),
                     ~IsStaleAgainst(tables[ProjectRow].revision, r)
              PROVE  /\ r[2].confirmed = tables[ProjectRow].confirmed
                     /\ r[2].proposed \in {{}, tables[ProjectRow].proposed}
  BY DEF StalenessIsNoticed
<1>1. Says(r[2], tables[ProjectRow]) /\ tables[ProjectRow].revision \in Nat
  BY DEF DeliverableRowsFit, ProjectFits
<1>2. r[2].revision = tables[ProjectRow].revision
  BY <1>1 DEF Says, IsStaleAgainst
<1>. QED  BY <1>1, <1>2 DEF Says

-----------------------------------------------------------------------------
(* Decisions made for good (Assumptions, Deliverables, Sources)            *)

\* Without stale reads a call commits on rows that are as it read them.
LEMMA CommitsOnTrueReads ==
  ASSUME NEW c \in Caller, Commit(c), Serializable, ~Outside(calls[c].call)
  PROVE  /\ \A q \in DOMAIN calls[c].seen : q \in DOMAIN tables /\ calls[c].seen[q] = tables[q]
         /\ DOMAIN Decided(c).inserts \cap DOMAIN tables = {}
         /\ Decided(c).verdict = "done" /\ tables' = Written(tables, Decided(c))
<1>1. \E rows : calls[c].seen = Only(rows, tables)
  BY DEF Commit, Stale
<1>2. \A q \in DOMAIN calls[c].seen : q \in DOMAIN tables /\ calls[c].seen[q] = tables[q]
  BY <1>1 DEF Only
<1>. QED  BY <1>2 DEF Commit, Collides

\* A call that moves a record names one of its kind, and where to.
EndingFits(call) ==
  /\ Assuming(call) \/ Delivering(call)
  /\ call.op = "move assumption" => /\ call.row[1] = "assumption"
                                    /\ call.target \in DOMAIN AssumptionMoves
  /\ call.op \in {"replace", "withdraw"} => call.row[1] = "deliverable"
MayGive(up, states) == "state" \in DOMAIN up => up.state \in states
Ended(r, d) ==
  \/ r[1] = "assumption" /\ AssumptionMoves[d[r].state] = {}
  \/ r[1] = "deliverable" /\ DeliverableMoves[d[r].state] = {}
EndedStay(d, e) == \A r \in DOMAIN d : Ended(r, d) => e[r] = d[r]

\* The calls are those of the two services, and the rows at first are of their shape.
AssumptionsAreServed ==
  /\ StatesFit(Beginning(service))
  /\ \A d, n : Requests(service, d, n) \subseteq
       AssumptionRequests(d, n) \cup ChangeRequests \cup AssembleRequests \cup EndRequests(d)
  /\ \A call : Assuming(call) \/ Delivering(call) => ~Outside(call)
  /\ \A call, seen : Assuming(call) => Outcome(call, seen) = AssumptionOutcome(call, seen)
  /\ \A call, seen : Delivering(call) => Outcome(call, seen) = DeliverableOutcome(call, seen)

\* What a call writes: new records, the project, or one record that may still move.
MovesOne(o, call, d) ==
  \/ \E then : o = Writes(NoRows, NoRows, then)
  \/ \E r, new : /\ o = Writes(One(r, new), NoRows, Nothing)
                 /\ r[1] = "assumption" => HasState(new, DOMAIN AssumptionMoves)
                 /\ r[1] = "deliverable" => HasState(new, DOMAIN DeliverableMoves)
  \/ \E r, new : /\ o = Writes(NoRows, One(r, new), Nothing)
                 /\ ~Ended(r, d)
                 /\ r[1] = "assumption" => MayGive(new, DOMAIN AssumptionMoves)
                 /\ r[1] = "deliverable" => MayGive(new, DOMAIN DeliverableMoves)

LEMMA EndingDecision ==
  ASSUME NEW d, StatesFit(d), NEW call, EndingFits(call), NEW seen,
         \A q \in DOMAIN seen : q \in DOMAIN d /\ seen[q] = d[q],
         NEW o, o.verdict = "done",
         Assuming(call) => o = AssumptionOutcome(call, seen),
         Delivering(call) => o = DeliverableOutcome(call, seen)
  PROVE  /\ MovesOne(o, call, d)
         /\ o.then = Nothing \/ EndingFits(o.then)
<1>0. "state" \in {"state", "by"} /\ Refused.verdict # "done"
  BY Decisions
<1>1. CASE call.op = "assume"
  <2>1. PICK new : new = [state |-> "proposed", by |-> Nothing, origin |-> call.origin,
                          material |-> Material(call)]
    OBVIOUS
  <2>2. o = Writes(One(AssumptionRow(call.id), new), NoRows, Nothing)
    BY <1>0, <1>1, <2>1 DEF Assuming, AssumptionOutcome, RecordAssumption, Insert
  <2>3. AssumptionRow(call.id)[1] = "assumption" /\ HasState(new, DOMAIN AssumptionMoves)
    BY <2>1 DEF AssumptionRow, HasState, AssumptionMoves
  <2>4. MovesOne(o, call, d)
    BY <2>2, <2>3 DEF MovesOne
  <2>. QED  BY <2>2, <2>4, Decisions
<1>2. CASE call.op = "move assumption"
  <2>. DEFINE row == call.row
  <2>1. PICK new : \E by : new = [state |-> call.target, by |-> by] /\ o = MoveAssumption(call, seen)
                           /\ by = IF call.by = Nothing THEN seen[row].by ELSE call.by
    BY <1>2 DEF Assuming, AssumptionOutcome
  <2>2. PICK up : up = Changed(new, seen[row])
    OBVIOUS
  <2>3. /\ o = Writes(NoRows, One(row, up), Nothing)
        /\ row \in DOMAIN seen /\ call.target \in AssumptionMoves[seen[row].state]
    BY <1>0, <2>1, <2>2 DEF MoveAssumption, Update
  <2>4. row[1] = "assumption" /\ ~Ended(row, d)
    BY <1>2, <2>3 DEF EndingFits, Ended
  <2>5. "state" \in DOMAIN up => up.state = call.target
    BY <2>1, <2>2 DEF Changed
  <2>6. MovesOne(o, call, d)
    BY <1>2, <2>3, <2>4, <2>5 DEF MovesOne, EndingFits, MayGive
  <2>. QED  BY <2>3, <2>6, Decisions
<1>3. CASE call.op = "change"
  <2>1. \E new : o = Writes(NoRows, One(ProjectRow, new), Nothing)
    BY <1>0, <1>3 DEF Delivering, DeliverableOutcome, Change, Update
  <2>2. ProjectRow[1] = "project" /\ ~Ended(ProjectRow, d)
    BY DEF ProjectRow, Ended
  <2>3. MovesOne(o, call, d)
    BY <2>1, <2>2 DEF MovesOne
  <2>. QED  BY <2>1, <2>3, Decisions
<1>4. ASSUME NEW then, o = Goto(then),
             then.op \in {"read confirmed", "read proposed", "read pins", "record deliverable"}
      PROVE  /\ MovesOne(o, call, d)
             /\ o.then = Nothing \/ EndingFits(o.then)
  <2>1. o = Writes(NoRows, NoRows, then)
    BY <1>4 DEF Goto
  <2>2. o.then = then
    BY <2>1, Decisions
  <2>3. EndingFits(then)
    BY <1>4 DEF EndingFits, Delivering
  <2>. QED  BY <2>1, <2>2, <2>3 DEF MovesOne
<1>7. CASE call.op = "read revision"
  <2>1. PICK then : then = Step("read confirmed", call, [EmptyProject EXCEPT !.revision = seen[ProjectRow].revision])
    OBVIOUS
  <2>2. o = Goto(then)
    BY <1>7, <2>1 DEF Delivering, DeliverableOutcome, ReadRevision
  <2>. QED  BY <1>4, <2>1, <2>2 DEF Step
<1>8. CASE call.op = "read confirmed"
  <2>1. PICK then : then = Step(IF call.include THEN "read proposed" ELSE "read pins", call,
                           [call.content EXCEPT !.confirmed = seen[ProjectRow].confirmed])
    OBVIOUS
  <2>2. o = Goto(then)
    BY <1>8, <2>1 DEF Delivering, DeliverableOutcome, ReadConfirmed
  <2>. QED  BY <1>4, <2>1, <2>2 DEF Step
<1>9. CASE call.op = "read proposed"
  <2>1. PICK then : then = Step("read pins", call, [call.content EXCEPT !.proposed = seen[ProjectRow].proposed])
    OBVIOUS
  <2>2. o = Goto(then)
    BY <1>9, <2>1 DEF Delivering, DeliverableOutcome, ReadProposed
  <2>. QED  BY <1>4, <2>1, <2>2 DEF Step
<1>10. CASE call.op = "read pins"
  <2>1. PICK then : then = [op |-> "record deliverable", content |-> call.content,
                      pins |-> Provisional(seen)]
    OBVIOUS
  <2>2. o = Goto(then)
    BY <1>10, <2>1 DEF Delivering, DeliverableOutcome, ReadPins
  <2>. QED  BY <1>4, <2>1, <2>2 DEF Step
<1>5. CASE call.op = "record deliverable"
  <2>1. o = Writes(One(DeliverableRow(call.content), DeliverableAt(call)), NoRows, Nothing)
    BY <1>5 DEF Delivering, DeliverableOutcome, RecordDeliverable, Insert
  <2>2. /\ DeliverableRow(call.content)[1] = "deliverable"
        /\ HasState(DeliverableAt(call), DOMAIN DeliverableMoves)
    BY DEF DeliverableRow, DeliverableAt, HasState, DeliverableMoves
  <2>3. MovesOne(o, call, d)
    BY <2>1, <2>2 DEF MovesOne
  <2>. QED  BY <2>1, <2>3, Decisions
<1>6. CASE call.op \in {"replace", "withdraw"}
  <2>1. PICK new : /\ o = Update(call.row, new) /\ new.state \in DOMAIN DeliverableMoves
                   /\ MayMove(call.row, new.state, seen)
    <3>1. CASE call.op = "replace"
      <4>1. PICK new : new = [state |-> "superseded", by |-> call.replacement]
        OBVIOUS
      <4>2. o = Update(call.row, new) /\ MayMove(call.row, "superseded", seen)
        BY <1>0, <3>1, <4>1 DEF Delivering, DeliverableOutcome, ReplaceDeliverable
      <4>. QED  BY <4>1, <4>2 DEF DeliverableMoves
    <3>2. CASE call.op = "withdraw"
      <4>1. PICK new : new = [state |-> "withdrawn"]
        OBVIOUS
      <4>2. o = Update(call.row, new) /\ MayMove(call.row, "withdrawn", seen)
        BY <1>0, <3>2, <4>1 DEF Delivering, DeliverableOutcome, WithdrawDeliverable
      <4>. QED  BY <4>1, <4>2 DEF DeliverableMoves
    <3>. QED  BY <1>6, <3>1, <3>2
  <2>2. call.row[1] = "deliverable" /\ ~Ended(call.row, d)
    BY <1>6, <2>1 DEF EndingFits, Ended, MayMove
  <2>3. o = Writes(NoRows, One(call.row, new), Nothing)
    BY <2>1 DEF Update
  <2>4. MovesOne(o, call, d)
    BY <2>1, <2>2, <2>3 DEF MovesOne, MayGive
  <2>. QED  BY <2>3, <2>4, Decisions
<1>. QED  BY <1>1, <1>2, <1>3, <1>5, <1>6, <1>7, <1>8, <1>9, <1>10 DEF EndingFits, Assuming, Delivering

LEMMA MovedKeeps ==
  ASSUME NEW d, StatesFit(d), NEW call, NEW o, MovesOne(o, call, d),
         DOMAIN o.inserts \cap DOMAIN d = {}, NEW e, e = Written(d, o)
  PROVE  StatesFit(e) /\ EndedStay(d, e)
<1>1. ASSUME NEW then, o = Writes(NoRows, NoRows, then)
      PROVE  StatesFit(e) /\ EndedStay(d, e)
  <2>1. Leaves(d, NoRows, NoRows, e)
    BY <1>1, RowsAfter, Singles
  <2>2. DOMAIN e = DOMAIN d /\ \A r \in DOMAIN d : e[r] = d[r]
    BY <2>1, Singles DEF Leaves
  <2>. QED  BY <2>2 DEF StatesFit, EndedStay, Kind
<1>2. ASSUME NEW r, NEW new, o = Writes(One(r, new), NoRows, Nothing),
             r[1] = "assumption" => HasState(new, DOMAIN AssumptionMoves),
             r[1] = "deliverable" => HasState(new, DOMAIN DeliverableMoves)
      PROVE  StatesFit(e) /\ EndedStay(d, e)
  <2>1. PICK ins : ins = One(r, new)
    OBVIOUS
  <2>2. DOMAIN ins = {r} /\ ins[r] = new
    BY <2>1, Singles
  <2>3. o = Writes(ins, NoRows, Nothing) /\ o.inserts = ins
    BY <1>2, <2>1, Decisions
  <2>4. Leaves(d, ins, NoRows, e)
    BY <2>3, RowsAfter
  <2>5. /\ DOMAIN e = {r} \cup DOMAIN d /\ e[r] = new
        /\ \A q \in DOMAIN d : e[q] = d[q]
    BY <2>2, <2>4, Singles DEF Leaves
  <2>. QED  BY <1>2, <2>5 DEF StatesFit, EndedStay, Kind
<1>3. ASSUME NEW r, NEW new, o = Writes(NoRows, One(r, new), Nothing), ~Ended(r, d),
             r[1] = "assumption" => MayGive(new, DOMAIN AssumptionMoves),
             r[1] = "deliverable" => MayGive(new, DOMAIN DeliverableMoves)
      PROVE  StatesFit(e) /\ EndedStay(d, e)
  <2>1. PICK ups : ups = One(r, new)
    OBVIOUS
  <2>2. DOMAIN ups = {r} /\ ups[r] = new
    BY <2>1, Singles
  <2>3. Leaves(d, NoRows, ups, e)
    BY <1>3, <2>1, RowsAfter, Singles
  <2>4. DOMAIN e = DOMAIN d /\ \A q \in DOMAIN d \ {r} : e[q] = d[q]
    BY <2>2, <2>3, Singles DEF Leaves
  <2>5. r \in DOMAIN d => e[r] = Over(new, d[r])
    BY <2>2, <2>3 DEF Leaves
  <2>6. r \in DOMAIN d => \A states : HasState(d[r], states) /\ MayGive(new, states)
                                        => HasState(e[r], states)
    BY <2>5 DEF Over, HasState, MayGive
  <2>. QED  BY <1>3, <2>4, <2>6 DEF StatesFit, EndedStay, Kind
<1>. QED  BY <1>1, <1>2, <1>3 DEF MovesOne

LEMMA EndingRequestsFit ==
  ASSUME NEW d, NEW n,
         NEW call \in AssumptionRequests(d, n) \cup ChangeRequests \cup AssembleRequests \cup EndRequests(d)
  PROVE  EndingFits(call)
<1>1. CASE call \in RecordRequests(n) \cup ToolRecordRequests(n)
  <2>1. PICK risk, origin : risk \in Risks /\ call = From(risk, origin, n)
    BY <1>1 DEF RecordRequests, ToolRecordRequests
  <2>2. risk.op = "assume" /\ "op" \in DOMAIN risk
    BY <2>1 DEF Risks
  <2>3. call.op = "assume"
    BY <2>1, <2>2 DEF From, Over
  <2>. QED  BY <2>3 DEF EndingFits, Assuming
<1>2. CASE call \in AcceptRequests(d) \cup EndAssumptionRequests(d)
  BY <1>2 DEF AcceptRequests, EndAssumptionRequests, Kind, EndingFits, Assuming, AssumptionMoves
<1>3. CASE call \in ChangeRequests \cup AssembleRequests \cup EndRequests(d)
  BY <1>3 DEF ChangeRequests, AssembleRequests, EndRequests, Kind, EndingFits, Delivering
<1>. QED  BY <1>1, <1>2, <1>3 DEF AssumptionRequests

LEMMA NoEndingClashes ==
  ASSUME NEW call, Assuming(call), NEW seen
  PROVE  AssumptionOutcome(call, seen).clash = Nothing
<1>1. \/ AssumptionOutcome(call, seen) = Refused
      \/ \E ins, ups, then : AssumptionOutcome(call, seen) = Writes(ins, ups, then)
  BY DEF AssumptionOutcome, Assuming, RecordAssumption, MoveAssumption, Insert, Update
<1>. QED  BY <1>1, Decisions

EndingsFit ==
  /\ CallsShaped
  /\ Serializable => StatesFit(tables)
                     /\ \A c \in Caller : calls[c].call # Nothing => EndingFits(calls[c].call)

LEMMA EndingsStayFit ==
  ASSUME AssumptionsAreServed, EndingsFit, [Next]_vars
  PROVE  EndingsFit' /\ (Serializable => EndedStay(tables, tables'))
<1>1. CASE UNCHANGED vars
  BY <1>1 DEF EndingsFit, vars, CallsShaped, Serializable, EndedStay
<1>2. ASSUME NEW c \in Caller, Steps(c)
      PROVE  EndingsFit' /\ (Serializable => EndedStay(tables, tables'))
  <2>. SUFFICES ASSUME Serializable
                PROVE  /\ StatesFit(tables') /\ EndedStay(tables, tables')
                       /\ calls'[c].call # Nothing => EndingFits(calls'[c].call)
    BY <1>2 DEF EndingsFit, Steps, Serializable
  <2>1. ASSUME NEW call, Turns(c, call), call # Nothing => EndingFits(call)
        PROVE  /\ StatesFit(tables') /\ EndedStay(tables, tables')
               /\ calls'[c].call # Nothing => EndingFits(calls'[c].call)
    BY <2>1, Fields DEF EndingsFit, Turns, Resumed, EndedStay
  <2>2. CASE \E call \in Requests(service, tables, made + 1) : Turns(c, call)
    BY <2>1, <2>2, EndingRequestsFit DEF EndingsFit, AssumptionsAreServed
  <2>3. CASE GoesOn(c)
    BY <2>3 DEF EndingsFit, GoesOn, EndedStay
  <2>4. CASE calls[c].phase # "idle" /\ Turns(c, calls[c].call)
    BY <2>1, <2>4 DEF EndingsFit
  <2>5. ASSUME Is(c, "deciding"), Decided(c).verdict = "done",
               \A q \in DOMAIN calls[c].seen : q \in DOMAIN tables /\ calls[c].seen[q] = tables[q]
        PROVE  /\ MovesOne(Decided(c), calls[c].call, tables)
               /\ Decided(c).then = Nothing \/ EndingFits(Decided(c).then)
    <3>1. PICK o : o = Decided(c)
      OBVIOUS
    <3>2. EndingFits(calls[c].call)
      BY <2>5 DEF EndingsFit, CallsShaped, Is
    <3>3. /\ Assuming(calls[c].call) => o = AssumptionOutcome(calls[c].call, calls[c].seen)
          /\ Delivering(calls[c].call) => o = DeliverableOutcome(calls[c].call, calls[c].seen)
      BY <3>1 DEF Decided, AssumptionsAreServed
    <3>. QED  BY <2>5, <3>1, <3>2, <3>3, EndingDecision DEF EndingsFit
  <2>6. CASE Is(c, "deciding") /\ Turns(c, Decided(c).clash)
    <3>1. EndingFits(calls[c].call)
      BY <2>6 DEF EndingsFit, CallsShaped, Is
    <3>2. Decided(c).clash = Nothing
      <4>1. CASE Assuming(calls[c].call)
        <5>1. Decided(c) = AssumptionOutcome(calls[c].call, calls[c].seen)
          BY <4>1 DEF Decided, AssumptionsAreServed
        <5>. QED  BY <4>1, <5>1, NoEndingClashes
      <4>2. CASE Delivering(calls[c].call)
        <5>1. Decided(c) = DeliverableOutcome(calls[c].call, calls[c].seen)
          BY <4>2 DEF Decided, AssumptionsAreServed
        <5>. QED  BY <4>2, <5>1, NoDeliverableClashes
      <4>. QED  BY <3>1, <4>1, <4>2 DEF EndingFits
    <3>. QED  BY <2>1, <2>6, <3>2
  <2>7. CASE Commit(c) /\ calls'[c] = Resumed(Decided(c).then)
    <3>1. ~Outside(calls[c].call)
      BY <2>7 DEF Commit, Is, EndingsFit, CallsShaped, EndingFits, AssumptionsAreServed
    <3>2. /\ \A q \in DOMAIN calls[c].seen : q \in DOMAIN tables /\ calls[c].seen[q] = tables[q]
          /\ DOMAIN Decided(c).inserts \cap DOMAIN tables = {}
          /\ Decided(c).verdict = "done" /\ tables' = Written(tables, Decided(c))
      BY <2>7, <3>1, CommitsOnTrueReads
    <3>3. /\ MovesOne(Decided(c), calls[c].call, tables)
          /\ Decided(c).then = Nothing \/ EndingFits(Decided(c).then)
      BY <2>5, <2>7, <3>2 DEF Commit
    <3>4. StatesFit(tables') /\ EndedStay(tables, tables')
      BY <3>2, <3>3, MovedKeeps DEF EndingsFit
    <3>. QED  BY <2>7, <3>3, <3>4, Fields DEF Resumed
  <2>. QED  BY <1>2, <2>1, <2>2, <2>3, <2>4, <2>6, <2>7, Reading DEF Steps
<1>. QED  BY <1>1, <1>2, EveryStep DEF EndingsFit

LEMMA EndingsFitAtFirst ==
  ASSUME AssumptionsAreServed, Init
  PROVE  EndingsFit
<1>1. CallsShaped /\ \A c \in Caller : calls[c].call = Nothing
  BY Fields DEF Init, CallsShaped
<1>. QED  BY <1>1 DEF Init, EndingsFit, AssumptionsAreServed

LEMMA EndsOfDecisions ==
  ASSUME AssumptionsAreServed, EndingsFit, [Next]_vars, Serializable
  PROVE  EndsStand
<1>. SUFFICES ASSUME NEW r \in Kind("assumption", tables) \cup Kind("deliverable", tables),
                     tables[r].state \notin ActiveAssumption \cup {"recorded"}
              PROVE  tables'[r] = tables[r]
  BY DEF EndsStand
<1>1. EndedStay(tables, tables') /\ StatesFit(tables)
  BY EndingsStayFit DEF EndingsFit
<1>2. Ended(r, tables)
  BY <1>1 DEF StatesFit, HasState, Kind, Ended, AssumptionMoves, DeliverableMoves, ActiveAssumption
<1>. QED  BY <1>1, <1>2 DEF EndedStay, Kind

-----------------------------------------------------------------------------
(* When a source was retired (Sources)                                     *)

RetirementStays(d, e) ==
  \A r \in Kind("source", d) : d[r].retired # Nothing => e[r].retired \in {d[r].retired, Nothing}

\* The calls are those of the service, and the rows at first are of its shape.
SourcesAreServed ==
  /\ SourceRowsFit(Beginning(service))
  /\ \A d, n : Requests(service, d, n) \subseteq RegisterRequests \cup SourceRequests(d, n)
  /\ \A call : Sourcing(call) => /\ ~Outside(call)
                                 /\ \A seen : Outcome(call, seen) = SourceOutcome(call, seen)

\* A time is written where there was none, or taken back.
TakesBack(up, row, seen) ==
  row \in DOMAIN seen /\ ("retired" \in DOMAIN up => up.retired = Nothing \/ seen[row].retired = Nothing)
SourceWrites(o, seen) ==
  \/ o = Refused \/ o = Same
  \/ \E row, new : o = Insert(row, new) /\ "retired" \in DOMAIN new
  \/ \E row, up : o = Update(row, up) /\ TakesBack(up, row, seen)

LEMMA SourceDecision ==
  ASSUME NEW call, Sourcing(call), NEW seen
  PROVE  SourceWrites(SourceOutcome(call, seen), seen)
<1>1. CASE call.op = "register source"
  <2>. DEFINE row == SourceRow(call.location)
  <2>1. PICK new : new = [state |-> call.state, pinned |-> Nothing, disposition |-> call.disposition,
                          retired |-> Nothing]
    OBVIOUS
  <2>2. PICK now : now = [new EXCEPT !.pinned = seen[row].pinned,
                            !.disposition = IF @ = Nothing THEN seen[row].disposition ELSE @]
    OBVIOUS
  <2>3. PICK up : up = Changed(now, seen[row])
    OBVIOUS
  <2>4. "retired" \in DOMAIN new /\ now.retired = Nothing
    BY <2>1, <2>2
  <2>5. "retired" \in DOMAIN up => up.retired = Nothing
    BY <2>3, <2>4 DEF Changed
  <2>6. IF row \notin DOMAIN seen THEN SourceOutcome(call, seen) = Insert(row, new)
                                  ELSE SourceOutcome(call, seen) = Update(row, up)
    BY <1>1, <2>1, <2>2, <2>3 DEF SourceOutcome, Register
  <2>. QED  BY <2>4, <2>5, <2>6 DEF SourceWrites, TakesBack
<1>2. CASE call.op = "stop reading"
  <2>1. PICK up : up = [retired |-> call.at]
    OBVIOUS
  <2>2. SourceOutcome(call, seen) = StopReading(call, seen)
    BY <1>2 DEF SourceOutcome
  <2>3. \/ StopReading(call, seen) \in {Refused, Same}
        \/ StopReading(call, seen) = Update(call.row, up) /\ TakesBack(up, call.row, seen)
    BY <2>1 DEF StopReading, TakesBack
  <2>. QED  BY <2>2, <2>3 DEF SourceWrites
<1>3. CASE call.op = "resume reading"
  <2>1. PICK up : up = [retired |-> Nothing]
    OBVIOUS
  <2>2. SourceOutcome(call, seen) = ResumeReading(call, seen)
    BY <1>3 DEF SourceOutcome
  <2>3. \/ ResumeReading(call, seen) \in {Refused, Same}
        \/ ResumeReading(call, seen) = Update(call.row, up) /\ TakesBack(up, call.row, seen)
    BY <2>1 DEF ResumeReading, TakesBack
  <2>. QED  BY <2>2, <2>3 DEF SourceWrites
<1>4. CASE call.op = "record state"
  <2>1. PICK new : new = [state |-> call.state]
    OBVIOUS
  <2>2. SourceOutcome(call, seen) = Describe(call, seen)
    BY <1>4 DEF SourceOutcome
  <2>3. PICK up : up = Changed(new, seen[call.row])
    OBVIOUS
  <2>4. Describe(call, seen) = Refused \/ (call.row \in DOMAIN seen /\ Describe(call, seen) = Update(call.row, up))
    BY <1>4, <2>1, <2>3 DEF Describe
  <2>5. "retired" \notin DOMAIN up
    BY <2>1, <2>3 DEF Changed
  <2>. QED  BY <2>2, <2>4, <2>5 DEF SourceWrites, TakesBack
<1>5. CASE call.op = "pin"
  <2>1. PICK new : new = [pinned |-> call.revision, state |-> call.state]
    OBVIOUS
  <2>2. SourceOutcome(call, seen) = Describe(call, seen)
    BY <1>5 DEF SourceOutcome
  <2>3. PICK up : up = Changed(new, seen[call.row])
    OBVIOUS
  <2>4. Describe(call, seen) = Refused \/ (call.row \in DOMAIN seen /\ Describe(call, seen) = Update(call.row, up))
    BY <1>5, <2>1, <2>3 DEF Describe
  <2>5. "retired" \notin DOMAIN up
    BY <2>1, <2>3 DEF Changed
  <2>. QED  BY <2>2, <2>4, <2>5 DEF SourceWrites, TakesBack
<1>6. CASE call.op = "classify source"
  <2>1. PICK new : new = [disposition |-> call.disposition]
    OBVIOUS
  <2>2. SourceOutcome(call, seen) = Describe(call, seen)
    BY <1>6 DEF SourceOutcome
  <2>3. PICK up : up = Changed(new, seen[call.row])
    OBVIOUS
  <2>4. Describe(call, seen) = Refused \/ (call.row \in DOMAIN seen /\ Describe(call, seen) = Update(call.row, up))
    BY <1>6, <2>1, <2>3 DEF Describe
  <2>5. "retired" \notin DOMAIN up
    BY <2>1, <2>3 DEF Changed
  <2>. QED  BY <2>2, <2>4, <2>5 DEF SourceWrites, TakesBack
<1>. QED  BY <1>1, <1>2, <1>3, <1>4, <1>5, <1>6 DEF Sourcing

LEMMA SourceKeeps ==
  ASSUME NEW d, SourceRowsFit(d), NEW seen,
         \A q \in DOMAIN seen : q \in DOMAIN d /\ seen[q] = d[q],
         NEW o, SourceWrites(o, seen), o.verdict = "done",
         DOMAIN o.inserts \cap DOMAIN d = {}, NEW e, e = Written(d, o)
  PROVE  SourceRowsFit(e) /\ RetirementStays(d, e)
<1>1. CASE o = Same
  <2>1. Leaves(d, NoRows, NoRows, e)
    BY <1>1, RowsAfter, Singles DEF Same
  <2>2. DOMAIN e = DOMAIN d /\ \A r \in DOMAIN d : e[r] = d[r]
    BY <2>1, Singles DEF Leaves
  <2>. QED  BY <2>2 DEF SourceRowsFit, RetirementStays, Kind
<1>2. ASSUME NEW row, NEW new, o = Insert(row, new), "retired" \in DOMAIN new
      PROVE  SourceRowsFit(e) /\ RetirementStays(d, e)
  <2>1. PICK ins : ins = One(row, new)
    OBVIOUS
  <2>2. DOMAIN ins = {row} /\ ins[row] = new
    BY <2>1, Singles
  <2>3. o = Writes(ins, NoRows, Nothing)
    BY <1>2, <2>1 DEF Insert
  <2>4. o.inserts = ins
    BY <2>3, Decisions
  <2>5. Leaves(d, ins, NoRows, e)
    BY <2>3, <2>4, RowsAfter
  <2>6. /\ DOMAIN e = {row} \cup DOMAIN d /\ e[row] = new
        /\ \A q \in DOMAIN d : e[q] = d[q]
    BY <2>2, <2>5, Singles DEF Leaves
  <2>. QED  BY <1>2, <2>6 DEF SourceRowsFit, RetirementStays, Kind
<1>3. ASSUME NEW row, NEW up, o = Update(row, up), TakesBack(up, row, seen)
      PROVE  SourceRowsFit(e) /\ RetirementStays(d, e)
  <2>1. PICK ups : ups = One(row, up)
    OBVIOUS
  <2>2. DOMAIN ups = {row} /\ ups[row] = up
    BY <2>1, Singles
  <2>3. Leaves(d, NoRows, ups, e)
    BY <1>3, <2>1, RowsAfter, Singles DEF Update
  <2>4. DOMAIN e = DOMAIN d /\ \A q \in DOMAIN d \ {row} : e[q] = d[q]
    BY <2>2, <2>3, Singles DEF Leaves
  <2>5. row \in DOMAIN d /\ seen[row] = d[row] /\ e[row] = Over(up, d[row])
    BY <1>3, <2>2, <2>3 DEF TakesBack, Leaves
  <2>6. "retired" \in DOMAIN d[row] =>
          /\ "retired" \in DOMAIN e[row]
          /\ d[row].retired # Nothing => e[row].retired \in {d[row].retired, Nothing}
    BY <1>3, <2>5 DEF TakesBack, Over
  <2>. QED  BY <2>4, <2>6 DEF SourceRowsFit, RetirementStays, Kind
<1>. QED  BY <1>1, <1>2, <1>3, Decisions DEF SourceWrites

SourcesFit ==
  /\ CallsShaped
  /\ \A c \in Caller : calls[c].call # Nothing => Sourcing(calls[c].call)
  /\ Serializable => SourceRowsFit(tables)

LEMMA SourcesStayFit ==
  ASSUME SourcesAreServed, SourcesFit, [Next]_vars
  PROVE  SourcesFit' /\ (Serializable => RetirementStays(tables, tables'))
<1>1. CASE UNCHANGED vars
  BY <1>1 DEF SourcesFit, vars, CallsShaped, Serializable, RetirementStays
<1>2. ASSUME NEW c \in Caller, Steps(c)
      PROVE  SourcesFit' /\ (Serializable => RetirementStays(tables, tables'))
  <2>. SUFFICES /\ calls'[c].call # Nothing => Sourcing(calls'[c].call)
                /\ Serializable => SourceRowsFit(tables') /\ RetirementStays(tables, tables')
    BY <1>2 DEF SourcesFit, Steps, Serializable
  <2>1. tables' = tables => (Serializable => SourceRowsFit(tables') /\ RetirementStays(tables, tables'))
    BY DEF SourcesFit, RetirementStays
  <2>2. ASSUME NEW call, Turns(c, call), call # Nothing => Sourcing(call)
        PROVE  calls'[c].call # Nothing => Sourcing(calls'[c].call)
    BY <2>2, Fields DEF Turns, Resumed
  <2>3. CASE \E call \in Requests(service, tables, made + 1) : Turns(c, call)
    <3>1. PICK call \in Requests(service, tables, made + 1) : Turns(c, call)
      BY <2>3
    <3>2. Sourcing(call)
      <4>1. call \in RegisterRequests \cup SourceRequests(tables, made + 1)
        BY <3>1 DEF SourcesFit, SourcesAreServed
      <4>. QED  BY <4>1 DEF RegisterRequests, SourceRequests, Sourcing
    <3>. QED  BY <2>1, <2>2, <3>1, <3>2 DEF Turns
  <2>4. CASE GoesOn(c)
    BY <2>1, <2>4 DEF SourcesFit, GoesOn
  <2>5. CASE Turns(c, Nothing) \/ (calls[c].phase # "idle" /\ Turns(c, calls[c].call))
    BY <2>1, <2>2, <2>5 DEF SourcesFit, Turns
  <2>6. ASSUME Is(c, "deciding")
        PROVE  /\ ~Outside(calls[c].call) /\ SourceWrites(Decided(c), calls[c].seen)
               /\ Decided(c).verdict = "done" => Decided(c).then = Nothing /\ Decided(c).clash = Nothing
    <3>1. Sourcing(calls[c].call)
      BY <2>6 DEF SourcesFit, CallsShaped, Is
    <3>2. ~Outside(calls[c].call) /\ SourceWrites(Decided(c), calls[c].seen)
      BY <3>1, SourceDecision DEF SourcesAreServed, Decided
    <3>3. \A o : SourceWrites(o, calls[c].seen) /\ o.verdict = "done" => o.then = Nothing /\ o.clash = Nothing
      BY Decisions DEF SourceWrites, Same, Insert, Update
    <3>. QED  BY <3>2, <3>3
  <2>7. CASE Is(c, "deciding") /\ Decided(c).verdict = "done" /\ Turns(c, Decided(c).clash)
    BY <2>1, <2>2, <2>6, <2>7 DEF Turns
  <2>8. CASE Commit(c) /\ calls'[c] = Resumed(Decided(c).then)
    <3>1. calls'[c].call = Nothing
      BY <2>6, <2>8, Fields DEF Commit, Resumed
    <3>2. ASSUME Serializable  PROVE SourceRowsFit(tables') /\ RetirementStays(tables, tables')
      <4>1. /\ \A q \in DOMAIN calls[c].seen : q \in DOMAIN tables /\ calls[c].seen[q] = tables[q]
            /\ DOMAIN Decided(c).inserts \cap DOMAIN tables = {}
            /\ Decided(c).verdict = "done" /\ tables' = Written(tables, Decided(c))
        BY <2>6, <2>8, <3>2, CommitsOnTrueReads DEF Commit
      <4>2. SourceWrites(Decided(c), calls[c].seen)
        BY <2>6, <2>8 DEF Commit
      <4>. QED  BY <3>2, <4>1, <4>2, SourceKeeps DEF SourcesFit
    <3>. QED  BY <3>1, <3>2
  <2>. QED  BY <1>2, <2>3, <2>4, <2>5, <2>7, <2>8, Reading DEF Steps
<1>. QED  BY <1>1, <1>2, EveryStep DEF SourcesFit

LEMMA SourcesFitAtFirst ==
  ASSUME SourcesAreServed, Init
  PROVE  SourcesFit
<1>1. CallsShaped /\ \A c \in Caller : calls[c].call = Nothing
  BY Fields DEF Init, CallsShaped
<1>. QED  BY <1>1 DEF Init, SourcesFit, SourcesAreServed

LEMMA RetirementsOfSources ==
  ASSUME SourcesAreServed, SourcesFit, [Next]_vars, Serializable
  PROVE  FirstRetirementStands
BY SourcesStayFit DEF RetirementStays, FirstRetirementStands

-----------------------------------------------------------------------------
(* What was accepted (Submissions)                                         *)

\* The calls are those of the service, and no run waits at first.
SubmissionsAreServed ==
  /\ Kind("reading", Beginning(service)) = {}
  /\ \A d, n : Requests(service, d, n) \subseteq
       DocumentRequests(n) \cup ObservationRequests(n) \cup TurnRequests(d, n)
         \cup CloseRequests(d, n) \cup ReviewRequests(n)
  /\ \A call : Submitting(call) =>
       ~Outside(call) /\ \A seen : Outcome(call, seen) = SubmissionOutcome(call, seen)

SubmissionFields ==
  {"op", "id", "keys", "all", "by", "source", "session", "interpreted", "missing"}
Piecewise == {"check source", "find session", "open session", "record message",
              "resolve replay", "enqueue", "accepted"}

\* The pieces after the first k; a piece is queued when its message is recorded
\* and the run that reads it exists.
Rest(s, k) == SubSeq(s, k + 1, Len(s))
Queued(key, d) == MessageRow(key) \in DOMAIN d /\ ReadingRow(key) \in DOMAIN d
Pieces(call, S, k, d) ==
  /\ call.all \in Seq(S) /\ k \in 0..Len(call.all)
  /\ call.keys = Rest(call.all, k)
  /\ \A i \in 1..k : Queued(call.all[i], d)
  /\ k = Len(call.all) <=> call.op = "accepted"

\* What is left of a submission are its last pieces, and those before them are
\* queued; a run is asked for when the message is there.
SubmissionCallFits(call, d) ==
  /\ Submitting(call) /\ DOMAIN call = SubmissionFields
  /\ call.op \in Piecewise => \E S, k : Pieces(call, S, k, d)
  /\ call.op = "enqueue" => MessageRow(Key(call)) \in DOMAIN d
SubmissionRowsFit(d) ==
  \A r \in Kind("reading", d) : "message" \in DOMAIN d[r] /\ d[r].message = MessageRow(r[2])

LEMMA SubmissionCallsStay ==
  ASSUME NEW d, NEW e, DOMAIN d \subseteq DOMAIN e, NEW call, SubmissionCallFits(call, d)
  PROVE  SubmissionCallFits(call, e)
<1>1. \A S, k : Pieces(call, S, k, d) => Pieces(call, S, k, e)
  BY DEF Pieces, Queued
<1>. QED  BY <1>1 DEF SubmissionCallFits

LEMMA Resting ==
  ASSUME NEW S, NEW s \in Seq(S), NEW k \in 0..Len(s), k # Len(s)
  PROVE  /\ k \in Nat /\ k < Len(s)
         /\ Head(Rest(s, k)) = s[k + 1] /\ Tail(Rest(s, k)) = Rest(s, k + 1)
         /\ Len(Rest(s, k)) = Len(s) - k
<1>1. Len(s) \in Nat
  BY LenProperties
<1>2. k \in Nat /\ k < Len(s) /\ k + 1 \in 1..Len(s) /\ Len(s) \in k + 1 .. Len(s)
  BY <1>1
<1>3. Head(Rest(s, k)) = s[k + 1] /\ Tail(Rest(s, k)) = Rest(s, k + 1)
  BY <1>2, HeadTailOfSubSeq DEF Rest
<1>4. \A i \in k + 1 .. Len(s) : s[i] \in S
  BY <1>2, ElementOfSeq
<1>5. Len(Rest(s, k)) = IF k + 1 <= Len(s) THEN Len(s) - (k + 1) + 1 ELSE 0
  BY <1>1, <1>2, <1>4, SubSeqProperties DEF Rest
<1>. QED  BY <1>1, <1>2, <1>3, <1>5

\* The call goes on with the piece it is at.
LEMMA SameKeys ==
  ASSUME NEW d, NEW call, SubmissionCallFits(call, d), call.op \in Piecewise \ {"accepted"},
         NEW next, DOMAIN next = DOMAIN call, next.keys = call.keys, next.all = call.all,
         next.op \in Piecewise \ {"accepted"},
         next.op = "enqueue" => MessageRow(Key(call)) \in DOMAIN d
  PROVE  SubmissionCallFits(next, d)
<1>1. PICK S, k : Pieces(call, S, k, d)
  BY DEF SubmissionCallFits
<1>2. Pieces(next, S, k, d)
  BY <1>1 DEF Pieces
<1>3. Key(next) = Key(call) /\ Submitting(next)
  BY DEF Key, Submitting, Piecewise
<1>. QED  BY <1>2, <1>3 DEF SubmissionCallFits

LEMMA OneMore ==
  ASSUME NEW n \in Nat, NEW k \in Nat, k < n
  PROVE  /\ k + 1 \in 0..n /\ (n - k = 1 <=> k + 1 = n)
         /\ \A i \in 1..(k + 1) : i \in 1..k \/ i = k + 1
OBVIOUS

\* The call goes on with the next piece once this one is queued.
LEMMA NextKey ==
  ASSUME NEW d, NEW call, SubmissionCallFits(call, d), call.op = "enqueue", Queued(Key(call), d),
         NEW next, DOMAIN next = DOMAIN call, next.keys = Tail(call.keys), next.all = call.all,
         next.op = IF Len(call.keys) = 1 THEN "accepted" ELSE "record message"
  PROVE  SubmissionCallFits(next, d)
<1>1. PICK S, k : Pieces(call, S, k, d)
  BY DEF SubmissionCallFits, Piecewise
<1>2. call.all \in Seq(S) /\ k \in 0..Len(call.all) /\ k # Len(call.all)
      /\ call.keys = Rest(call.all, k)
  BY <1>1 DEF Pieces
<1>3. /\ k \in Nat /\ k < Len(call.all)
      /\ Key(call) = call.all[k + 1] /\ Tail(call.keys) = Rest(call.all, k + 1)
      /\ Len(call.keys) = Len(call.all) - k
  BY <1>2, Resting DEF Key
<1>. PICK n : n = Len(call.all)
  OBVIOUS
<1>4. n \in Nat
  BY <1>2, LenProperties
<1>5. k \in Nat
  BY <1>3
<1>6. k < n
  BY <1>3
<1>7. k + 1 \in 0..n /\ (n - k = 1 <=> k + 1 = n)
  BY <1>4, <1>5, <1>6, OneMore
<1>8. \A i \in 1..(k + 1) : i \in 1..k \/ i = k + 1
  BY <1>4, <1>5, <1>6, OneMore
<1>9. Pieces(next, S, k + 1, d)
  <2>1. \A i \in 1..k : Queued(call.all[i], d)
    BY <1>1 DEF Pieces
  <2>2. \A i \in 1..(k + 1) : Queued(next.all[i], d)
    BY <1>3, <1>8, <2>1
  <2>3. k + 1 = n <=> next.op = "accepted"
    BY <1>3, <1>7
  <2>. QED  BY <1>2, <1>3, <1>7, <2>2, <2>3 DEF Pieces
<1>10. next.op # "enqueue" /\ Submitting(next)
  BY DEF Submitting
<1>. QED  BY <1>9, <1>10 DEF SubmissionCallFits

\* No more is to be done piece by piece.
LEMMA LastCall ==
  ASSUME NEW d, NEW call, SubmissionCallFits(call, d), NEW op \in {"kept", "enqueue review"},
         NEW next, DOMAIN next = DOMAIN call, next.op = op
  PROVE  SubmissionCallFits(next, d)
BY DEF SubmissionCallFits, Piecewise, Submitting

\* Once its message is there the piece is to be read, or the call is at its end.
LEMMA Interpreting ==
  ASSUME NEW d, NEW call, SubmissionCallFits(call, d), call.op \in {"record message", "resolve replay"},
         NEW e, DOMAIN d \subseteq DOMAIN e, MessageRow(Key(call)) \in DOMAIN e
  PROVE  SubmissionCallFits(ThenRead(call), e)
<1>1. SubmissionCallFits(call, e)
  BY SubmissionCallsStay
<1>2. PICK next : next = ThenRead(call)
  OBVIOUS
<1>3. /\ DOMAIN next = DOMAIN call /\ next.keys = call.keys /\ next.all = call.all
      /\ next.op \in {"enqueue", "kept"}
  BY <1>1, <1>2 DEF ThenRead, SubmissionCallFits, SubmissionFields
<1>. QED  BY <1>1, <1>2, <1>3, SameKeys, LastCall DEF Piecewise

LEMMA ReadingRows ==
  /\ \A key : ReadingRow(key)[1] = "reading" /\ ReadingRow(key)[2] = key
  /\ \A key : MessageRow(key)[1] # "reading" /\ ReviewRow(key)[1] # "reading"
  /\ \A n : SessionRow(n)[1] # "reading"
BY DEF ReadingRow, MessageRow, ReviewRow, SessionRow

\* What is inserted, if it is no reading of another message, leaves the rows fit.
LEMMA SubmissionKeeps ==
  ASSUME NEW d, SubmissionRowsFit(d), NEW row, NEW new, row \notin DOMAIN d,
         row[1] = "reading" => "message" \in DOMAIN new /\ new.message = MessageRow(row[2]),
         NEW then, NEW e, e = Written(d, Writes(One(row, new), NoRows, then))
  PROVE  SubmissionRowsFit(e) /\ DOMAIN e = DOMAIN d \cup {row}
<1>1. PICK ins : ins = One(row, new)
  OBVIOUS
<1>2. DOMAIN ins = {row} /\ ins[row] = new
  BY <1>1, Singles
<1>3. Leaves(d, ins, NoRows, e)
  BY <1>1, <1>2, RowsAfter
<1>4. DOMAIN e = DOMAIN d \cup {row} /\ e[row] = new /\ \A r \in DOMAIN d : e[r] = d[r]
  BY <1>2, <1>3, Singles DEF Leaves
<1>. QED  BY <1>4 DEF SubmissionRowsFit, Kind

\* A session that is closed, and a call that writes nothing, leave them fit too.
LEMMA SubmissionUpdates ==
  ASSUME NEW d, SubmissionRowsFit(d), NEW ups, NEW then,
         \A r \in DOMAIN ups : DOMAIN ups[r] = {"status"},
         NEW e, e = Written(d, Writes(NoRows, ups, then))
  PROVE  SubmissionRowsFit(e) /\ DOMAIN e = DOMAIN d
<1>1. Leaves(d, NoRows, ups, e)
  BY RowsAfter, Singles
<1>2. DOMAIN e = DOMAIN d
  BY <1>1, Singles DEF Leaves
<1>3. ASSUME NEW r \in Kind("reading", d)
      PROVE  "message" \in DOMAIN e[r] /\ e[r].message = d[r].message
  <2>1. e[r] = d[r] \/ (r \in DOMAIN ups /\ e[r] = Over(ups[r], d[r]))
    BY <1>1 DEF Leaves, Kind
  <2>. QED  BY <2>1 DEF Over, SubmissionRowsFit
<1>. QED  BY <1>2, <1>3 DEF SubmissionRowsFit, Kind

\* What a call leads to: rows as they should be, none gone, and a call that fits.
LeadsOn(o, d) ==
  /\ o.clash # Nothing => SubmissionCallFits(o.clash, d)
  /\ DOMAIN o.inserts \cap DOMAIN d = {} =>
       LET e == Written(d, o)
       IN /\ SubmissionRowsFit(e) /\ DOMAIN d \subseteq DOMAIN e
          /\ o.then # Nothing => SubmissionCallFits(o.then, e)

LEMMA GoingOn ==
  ASSUME NEW d, SubmissionRowsFit(d), NEW next, next # Nothing => SubmissionCallFits(next, d)
  PROVE  LeadsOn(Goto(next), d)
<1>1. PICK o : o = Writes(NoRows, NoRows, next)
  OBVIOUS
<1>2. SubmissionRowsFit(Written(d, o)) /\ DOMAIN Written(d, o) = DOMAIN d
  BY <1>1, SubmissionUpdates, Singles
<1>3. o.then = next /\ o.clash = Nothing /\ o = Goto(next)
  BY <1>1, Decisions DEF Goto
<1>. QED  BY <1>2, <1>3, SubmissionCallsStay DEF LeadsOn

LEMMA Inserting ==
  ASSUME NEW d, SubmissionRowsFit(d), NEW o, NEW row, NEW new,
         o.inserts = One(row, new), o.updates = NoRows, o.deletes = {},
         row[1] = "reading" => "message" \in DOMAIN new /\ new.message = MessageRow(row[2]),
         o.clash # Nothing => SubmissionCallFits(o.clash, d),
         \A e : DOMAIN e = DOMAIN d \cup {row} => SubmissionCallFits(o.then, e)
  PROVE  LeadsOn(o, d)
<1>1. PICK w : w = Writes(One(row, new), NoRows, o.then)
  OBVIOUS
<1>2. Written(d, o) = Written(d, w)
  BY <1>1, Decisions DEF Written
<1>3. DOMAIN o.inserts = {row}
  BY Singles
<1>4. row \notin DOMAIN d => SubmissionRowsFit(Written(d, w)) /\ DOMAIN Written(d, w) = DOMAIN d \cup {row}
  BY <1>1, SubmissionKeeps
<1>. QED  BY <1>2, <1>3, <1>4 DEF LeadsOn

LEMMA SubmissionDecision ==
  ASSUME NEW d, SubmissionRowsFit(d), NEW call, SubmissionCallFits(call, d),
         NEW seen, DOMAIN seen \subseteq DOMAIN d,
         SubmissionOutcome(call, seen).verdict = "done"
  PROVE  LeadsOn(SubmissionOutcome(call, seen), d)
<1>. PICK o : o = SubmissionOutcome(call, seen)
  OBVIOUS
<1>. SUFFICES LeadsOn(o, d)
  OBVIOUS
<1>0. o # Refused
  BY Decisions
<1>1. DOMAIN call = SubmissionFields /\ Submitting(call)
  BY DEF SubmissionCallFits
<1>2. ASSUME NEW next, o = Goto(next), next = Nothing \/ SubmissionCallFits(next, d)
      PROVE  LeadsOn(o, d)
  BY <1>2, GoingOn
<1>3. CASE call.op = "check source"
  <2>1. PICK next : next = [call EXCEPT !.op = "open session"]
    OBVIOUS
  <2>2. o = Goto(next)
    BY <1>0, <1>3, <2>1 DEF SubmissionOutcome, CheckSource
  <2>3. SubmissionCallFits(next, d)
    BY <1>1, <1>3, <2>1, SameKeys DEF Piecewise, SubmissionFields
  <2>. QED  BY <1>2, <2>2, <2>3
<1>4. CASE call.op = "find session"
  <2>1. PICK session : session = CHOOSE r \in OpenSessions(seen) :
                                   \A s \in OpenSessions(seen) : r[2] >= s[2]
    OBVIOUS
  <2>2. PICK opening : opening = [call EXCEPT !.op = "open session"]
    OBVIOUS
  <2>3. PICK found : found = [call EXCEPT !.op = "record message", !.session = session]
    OBVIOUS
  <2>4. o = Goto(opening) \/ o = Goto(found)
    BY <1>4, <2>1, <2>2, <2>3 DEF SubmissionOutcome, FindSession
  <2>5. SubmissionCallFits(opening, d)
    BY <1>1, <1>4, <2>2, SameKeys DEF Piecewise, SubmissionFields
  <2>6. SubmissionCallFits(found, d)
    BY <1>1, <1>4, <2>3, SameKeys DEF Piecewise, SubmissionFields
  <2>. QED  BY <1>2, <2>4, <2>5, <2>6
<1>5. CASE call.op = "open session"
  <2>1. PICK next : next = [call EXCEPT !.op = "record message", !.session = SessionRow(call.id)]
    OBVIOUS
  <2>2. PICK new : new = [status |-> "open"]
    OBVIOUS
  <2>3. o = Writes(One(SessionRow(call.id), new), NoRows, next)
    BY <1>5, <2>1, <2>2 DEF SubmissionOutcome, OpenSession
  <2>4. SubmissionCallFits(next, d)
    BY <1>1, <1>5, <2>1, SameKeys DEF Piecewise, SubmissionFields
  <2>5. PICK row : row = SessionRow(call.id)
    OBVIOUS
  <2>6. row[1] # "reading"
    BY <2>5, ReadingRows
  <2>7. /\ o.inserts = One(row, new) /\ o.updates = NoRows /\ o.deletes = {}
        /\ o.then = next /\ o.clash = Nothing
    BY <2>3, <2>5, Decisions
  <2>. QED  BY <2>4, <2>6, <2>7, Inserting, SubmissionCallsStay
<1>6. CASE call.op = "close session"
  <2>1. PICK up : up = [status |-> "closed"]
    OBVIOUS
  <2>2. PICK ups : ups = One(call.session, up)
    OBVIOUS
  <2>3. o = Writes(NoRows, ups, Nothing)
    BY <1>6, <2>1, <2>2 DEF SubmissionOutcome, CloseSession, Update
  <2>4. \A r \in DOMAIN ups : DOMAIN ups[r] = {"status"}
    <3>1. DOMAIN up = {"status"}
      BY <2>1
    <3>2. DOMAIN ups = {call.session} /\ ups[call.session] = up
      BY <2>2, Singles
    <3>. QED  BY <3>1, <3>2
  <2>5. SubmissionRowsFit(Written(d, o)) /\ DOMAIN Written(d, o) = DOMAIN d
    BY <2>3, <2>4, SubmissionUpdates
  <2>6. o.then = Nothing /\ o.clash = Nothing
    BY <2>3, Decisions
  <2>. QED  BY <2>5, <2>6 DEF LeadsOn
<1>7. CASE call.op = "record message"
  <2>1. PICK next : next = ThenRead(call)
    OBVIOUS
  <2>2. PICK replay : replay = [call EXCEPT !.op = "resolve replay"]
    OBVIOUS
  <2>3. PICK new : new = [session |-> call.session, sequence |-> NextSequence(seen), by |-> call.by]
    OBVIOUS
  <2>4. PICK row : row = MessageRow(Key(call))
    OBVIOUS
  <2>5. PICK w : w = Writes(One(row, new), NoRows, next)
    OBVIOUS
  <2>6. o = [w EXCEPT !.clash = replay]
    BY <1>7, <2>1, <2>2, <2>3, <2>4, <2>5 DEF SubmissionOutcome, RecordMessage
  <2>7. /\ o.inserts = One(row, new) /\ o.updates = NoRows /\ o.deletes = {}
        /\ o.then = next /\ o.clash = replay
    BY <2>5, <2>6 DEF Writes
  <2>8. SubmissionCallFits(replay, d)
    BY <1>1, <1>7, <2>2, SameKeys DEF Piecewise, SubmissionFields
  <2>9. ASSUME NEW e, DOMAIN e = DOMAIN d \cup {row}  PROVE SubmissionCallFits(next, e)
    BY <1>7, <2>1, <2>4, <2>9, Interpreting
  <2>10. row[1] # "reading"
    BY <2>4, ReadingRows
  <2>. QED  BY <2>7, <2>8, <2>9, <2>10, Inserting
<1>8. CASE call.op = "resolve replay"
  <2>1. o = Goto(IF IsTurn(call) THEN [call EXCEPT !.op = "kept"] ELSE ThenRead(call))
        /\ MessageRow(Key(call)) \in DOMAIN d
    BY <1>0, <1>8 DEF SubmissionOutcome, ResolveReplay
  <2>2. CASE IsTurn(call)
    <3>1. PICK next : next = [call EXCEPT !.op = "kept"]
      OBVIOUS
    <3>2. SubmissionCallFits(next, d)
      BY <1>1, <3>1, LastCall DEF SubmissionFields
    <3>. QED  BY <1>2, <2>1, <2>2, <3>1, <3>2
  <2>3. CASE ~IsTurn(call)
    <3>1. SubmissionCallFits(ThenRead(call), d)
      BY <1>8, <2>1, Interpreting
    <3>. QED  BY <1>2, <2>1, <2>3, <3>1
  <2>. QED  BY <2>2, <2>3
<1>9. CASE call.op = "enqueue"
  <2>1. PICK next : next = [call EXCEPT !.keys = Tail(@),
                              !.op = IF Len(call.keys) = 1 THEN "accepted" ELSE "record message"]
    OBVIOUS
  <2>2. PICK row : row = ReadingRow(Key(call))
    OBVIOUS
  <2>3. PICK new : new = [message |-> MessageRow(Key(call)), source |-> call.source,
                          missing |-> Missing(call)]
    OBVIOUS
  <2>4. \/ o = Goto(next) /\ row \in DOMAIN seen
        \/ o = Writes(One(row, new), NoRows, next)
    BY <1>9, <2>1, <2>2, <2>3 DEF SubmissionOutcome, Enqueue
  <2>5. /\ DOMAIN next = DOMAIN call /\ next.keys = Tail(call.keys) /\ next.all = call.all
        /\ next.op = IF Len(call.keys) = 1 THEN "accepted" ELSE "record message"
    BY <1>1, <2>1 DEF SubmissionFields
  <2>6. ASSUME NEW e, DOMAIN d \cup {row} \subseteq DOMAIN e  PROVE SubmissionCallFits(next, e)
    <3>1. SubmissionCallFits(call, e)
      BY <2>6, SubmissionCallsStay
    <3>2. Queued(Key(call), e)
      BY <1>9, <2>2, <2>6, <3>1 DEF Queued, SubmissionCallFits
    <3>. QED  BY <1>9, <2>5, <3>1, <3>2, NextKey
  <2>7. CASE o = Goto(next) /\ row \in DOMAIN seen
    BY <1>2, <2>6, <2>7
  <2>8. CASE o = Writes(One(row, new), NoRows, next)
    <3>1. /\ o.inserts = One(row, new) /\ o.updates = NoRows /\ o.deletes = {}
          /\ o.then = next /\ o.clash = Nothing
      BY <2>8, Decisions
    <3>2. row[2] = Key(call)
      BY <2>2, ReadingRows
    <3>3. "message" \in DOMAIN new /\ new.message = MessageRow(row[2])
      BY <2>3, <3>2
    <3>. QED  BY <2>6, <3>1, <3>3, Inserting
  <2>. QED  BY <2>4, <2>7, <2>8
<1>10. CASE call.op = "count outstanding"
  <2>1. PICK next : next = [call EXCEPT !.op = "enqueue review", !.missing = Cardinality(DOMAIN seen)]
    OBVIOUS
  <2>2. o = Goto(next)
    BY <1>10, <2>1 DEF SubmissionOutcome, CountOutstanding
  <2>3. SubmissionCallFits(next, d)
    BY <1>1, <2>1, LastCall DEF SubmissionFields
  <2>. QED  BY <1>2, <2>2, <2>3
<1>11. CASE call.op = "enqueue review"
  <2>1. PICK next : next = [call EXCEPT !.op = "kept"]
    OBVIOUS
  <2>2. PICK row : row = ReviewRow(call.keys)
    OBVIOUS
  <2>3. PICK new : new = [warned |-> call.missing > 0]
    OBVIOUS
  <2>4. o = Goto(next) \/ o = Writes(One(row, new), NoRows, next)
    BY <1>11, <2>1, <2>2, <2>3 DEF SubmissionOutcome, EnqueueReview
  <2>5. SubmissionCallFits(next, d)
    BY <1>1, <2>1, LastCall DEF SubmissionFields
  <2>6. CASE o = Writes(One(row, new), NoRows, next)
    <3>1. /\ o.inserts = One(row, new) /\ o.updates = NoRows /\ o.deletes = {}
          /\ o.then = next /\ o.clash = Nothing
      BY <2>6, Decisions
    <3>2. row[1] # "reading"
      BY <2>2, ReadingRows
    <3>. QED  BY <2>5, <3>1, <3>2, Inserting, SubmissionCallsStay
  <2>. QED  BY <1>2, <2>4, <2>5, <2>6
<1>12. CASE call.op \in {"accepted", "kept"}
  <2>1. o = Goto(Nothing)
    BY <1>12 DEF SubmissionOutcome, Same, Goto
  <2>. QED  BY <1>2, <2>1
<1>. QED  BY <1>1, <1>3, <1>4, <1>5, <1>6, <1>7, <1>8, <1>9, <1>10, <1>11, <1>12 DEF Submitting

-----------------------------------------------------------------------------
(* What is accepted is queued                                              *)

LEMMA FirstOnes ==
  ASSUME NEW S, NEW s, NEW m \in Int, 1 <= m, \A i \in 1..m : s[i] \in S
  PROVE  SubSeq(s, 1, m) \in Seq(S) /\ Len(SubSeq(s, 1, m)) # 0
<1>1. SubSeq(s, 1, m) \in Seq(S) /\ Len(SubSeq(s, 1, m)) = IF 1 <= m THEN m - 1 + 1 ELSE 0
  BY SubSeqProperties
<1>. QED  BY <1>1

LEMMA KeptIsSome ==
  ASSUME NEW document \in DOMAIN Bodies, NEW limit \in MaxChunks
  PROVE  \E S : Kept(document, limit) \in Seq(S) /\ Len(Kept(document, limit)) # 0
<1>. PICK n : n = Len(Bodies[document])
  OBVIOUS
<1>1. n \in Nat \ {0} /\ limit \in Nat \ {0} /\ DOMAIN Bodies[document] = 1..n
  BY SubmissionsAssumption
<1>. PICK m : m = Min({limit, n})
  OBVIOUS
<1>2. m \in {limit, n} /\ m <= limit /\ m <= n
  <2>1. \E x \in {limit, n} : \A y \in {limit, n} : x <= y
    BY <1>1
  <2>2. m = CHOOSE x \in {limit, n} : \A y \in {limit, n} : x <= y
    BY DEF Min
  <2>. QED  BY <2>1, <2>2
<1>3. PICK keys : keys = ChunkKeys(document)
  OBVIOUS
<1>4. PICK S : S = {keys[i] : i \in 1..n}
  OBVIOUS
<1>5. \A i \in 1..m : keys[i] \in S
  BY <1>1, <1>2, <1>4
<1>6. m \in Int /\ 1 <= m
  BY <1>1, <1>2
<1>7. SubSeq(keys, 1, m) \in Seq(S) /\ Len(SubSeq(keys, 1, m)) # 0
  BY <1>5, <1>6, FirstOnes
<1>. QED  BY <1>3, <1>7 DEF Kept

LEMMA FromTheFirst ==
  ASSUME NEW call, Submitting(call), DOMAIN call = SubmissionFields,
         call.op \notin {"enqueue", "accepted"}, call.keys = call.all,
         NEW S, call.all \in Seq(S), Len(call.all) # 0, NEW d
  PROVE  SubmissionCallFits(call, d)
<1>1. Rest(call.all, 0) = call.all
  BY SubSeqFull DEF Rest
<1>2. 0 \in 0..Len(call.all) /\ \A i \in 1..0 : FALSE
  BY LenProperties
<1>3. Pieces(call, S, 0, d)
  BY <1>1, <1>2 DEF Pieces
<1>. QED  BY <1>3 DEF SubmissionCallFits

LEMMA OneAsked ==
  ASSUME NEW x
  PROVE  <<x>> \in Seq({x}) /\ Len(<<x>>) # 0
OBVIOUS

LEMMA SubmissionRequestsFit ==
  ASSUME NEW d, NEW n,
         NEW call \in DocumentRequests(n) \cup ObservationRequests(n) \cup TurnRequests(d, n)
                        \cup CloseRequests(d, n) \cup ReviewRequests(n)
  PROVE  SubmissionCallFits(call, d)
<1>1. CASE call \in DocumentRequests(n)
  <2>1. PICK document \in DOMAIN Bodies, m \in MaxChunks, p \in Submitter,
             l \in Location \cup {Nothing} : call = Handed(n, document, m, p, l)
    BY <1>1 DEF DocumentRequests
  <2>2. PICK keys : keys = Kept(document, m)
    OBVIOUS
  <2>3. /\ DOMAIN call = SubmissionFields /\ call.keys = keys /\ call.all = keys
        /\ call.op \in {"open session", "check source"}
    BY <2>1, <2>2 DEF Handed, Submission, SubmissionFields
  <2>4. PICK S : keys \in Seq(S) /\ Len(keys) # 0
    BY <2>2, KeptIsSome
  <2>5. Submitting(call)
    BY <2>3 DEF Submitting
  <2>. QED  BY <2>3, <2>4, <2>5, FromTheFirst
<1>2. CASE call \in ObservationRequests(n)
  <2>1. PICK k \in 1..2, p \in Submitter, i \in BOOLEAN : call = Observed(n, k, p, i)
    BY <1>2 DEF ObservationRequests
  <2>2. PICK x : x = <<"observation", k>>
    OBVIOUS
  <2>3. DOMAIN call = SubmissionFields /\ call.keys = <<x>> /\ call.all = <<x>> /\ call.op = "find session"
    BY <2>1, <2>2 DEF Observed, Submission, SubmissionFields
  <2>4. PICK keys : keys = <<x>>
    OBVIOUS
  <2>5. keys \in Seq({x}) /\ Len(keys) # 0 /\ Submitting(call)
    BY <2>3, <2>4, OneAsked DEF Submitting
  <2>. QED  BY <2>3, <2>4, <2>5, FromTheFirst
<1>3. CASE call \in TurnRequests(d, n)
  <2>1. PICK k \in 1..2, p \in Submitter, r \in Kind("session", d), i \in BOOLEAN :
          call = Spoken(n, k, p, r, i)
    BY <1>3 DEF TurnRequests
  <2>2. PICK x : x = <<"turn", k>>
    OBVIOUS
  <2>3. DOMAIN call = SubmissionFields /\ call.keys = <<x>> /\ call.all = <<x>> /\ call.op = "record message"
    BY <2>1, <2>2 DEF Spoken, Submission, SubmissionFields
  <2>4. PICK keys : keys = <<x>>
    OBVIOUS
  <2>5. keys \in Seq({x}) /\ Len(keys) # 0 /\ Submitting(call)
    BY <2>3, <2>4, OneAsked DEF Submitting
  <2>. QED  BY <2>3, <2>4, <2>5, FromTheFirst
<1>4. CASE call \in CloseRequests(d, n)
  <2>1. PICK r : call = [Submission("close session", n, <<>>, Nothing, Nothing) EXCEPT !.session = r]
    BY <1>4 DEF CloseRequests
  <2>2. DOMAIN call = SubmissionFields /\ call.op = "close session"
    BY <2>1 DEF Submission, SubmissionFields
  <2>. QED  BY <2>2 DEF SubmissionCallFits, Submitting, Piecewise
<1>5. CASE call \in ReviewRequests(n)
  <2>1. PICK k : call = Submission("count outstanding", n, k, Nothing, Nothing)
    BY <1>5 DEF ReviewRequests
  <2>2. DOMAIN call = SubmissionFields /\ call.op = "count outstanding"
    BY <2>1 DEF Submission, SubmissionFields
  <2>. QED  BY <2>2 DEF SubmissionCallFits, Submitting, Piecewise
<1>. QED  BY <1>1, <1>2, <1>3, <1>4, <1>5

SubmissionsFit ==
  /\ CallsShaped /\ SubmissionRowsFit(tables)
  /\ \A c \in Caller :
       /\ calls[c].call # Nothing => SubmissionCallFits(calls[c].call, tables)
       /\ calls[c].phase \in {"deciding", "flushing"} => DOMAIN calls[c].seen \subseteq DOMAIN tables

LEMMA SubmissionsStayFit ==
  ASSUME SubmissionsAreServed, SubmissionsFit, [Next]_vars
  PROVE  SubmissionsFit'
<1>1. CASE UNCHANGED vars
  BY <1>1 DEF SubmissionsFit, vars, CallsShaped
<1>2. ASSUME NEW c \in Caller, Steps(c)
      PROVE  SubmissionsFit'
  <2>. SUFFICES /\ SubmissionRowsFit(tables') /\ DOMAIN tables \subseteq DOMAIN tables'
                /\ calls'[c].call # Nothing => SubmissionCallFits(calls'[c].call, tables')
                /\ calls'[c].phase \in {"deciding", "flushing"} =>
                     DOMAIN calls'[c].seen \subseteq DOMAIN tables'
    BY <1>2, SubmissionCallsStay DEF SubmissionsFit, Steps
  <2>0. SubmissionRowsFit(tables)
    BY DEF SubmissionsFit
  <2>1. ASSUME NEW call, Turns(c, call), call # Nothing => SubmissionCallFits(call, tables)
        PROVE  /\ calls'[c].call # Nothing => SubmissionCallFits(calls'[c].call, tables')
               /\ calls'[c].phase \notin {"deciding", "flushing"}
    BY <2>1, Fields DEF Turns, Resumed
  <2>2. CASE \E call \in Requests(service, tables, made + 1) : Turns(c, call)
    <3>1. PICK call \in Requests(service, tables, made + 1) : Turns(c, call)
      BY <2>2
    <3>2. SubmissionCallFits(call, tables)
      BY <3>1, SubmissionRequestsFit DEF SubmissionsFit, SubmissionsAreServed
    <3>. QED  BY <2>0, <2>1, <3>1, <3>2 DEF Turns
  <2>3. CASE Turns(c, Nothing) \/ (calls[c].phase # "idle" /\ Turns(c, calls[c].call))
    BY <2>0, <2>1, <2>3 DEF SubmissionsFit, Turns
  <2>4. CASE Loads(c) \/ Flushes(c)
    <3>1. DOMAIN calls'[c].seen \subseteq DOMAIN tables
      BY <2>4 DEF Loads, Flushes, Only, Over, SubmissionsFit
    <3>. QED  BY <2>0, <2>4, <3>1, Reading DEF SubmissionsFit, GoesOn
  <2>5. ASSUME Is(c, "deciding"), Decided(c).verdict = "done"
        PROVE  ~Outside(calls[c].call) /\ LeadsOn(Decided(c), tables)
    <3>1. SubmissionCallFits(calls[c].call, tables) /\ DOMAIN calls[c].seen \subseteq DOMAIN tables
      BY <2>5 DEF SubmissionsFit, CallsShaped, Is
    <3>2. Submitting(calls[c].call)
      BY <3>1 DEF SubmissionCallFits
    <3>3. Decided(c) = SubmissionOutcome(calls[c].call, calls[c].seen) /\ ~Outside(calls[c].call)
      BY <3>2 DEF SubmissionsAreServed, Decided
    <3>. QED  BY <2>0, <2>5, <3>1, <3>3, SubmissionDecision
  <2>6. CASE Is(c, "deciding") /\ Decided(c).verdict = "done" /\ Turns(c, Decided(c).clash)
    <3>1. Decided(c).clash # Nothing => SubmissionCallFits(Decided(c).clash, tables)
      BY <2>5, <2>6 DEF LeadsOn
    <3>. QED  BY <2>0, <2>1, <2>6, <3>1 DEF Turns
  <2>7. CASE Commit(c) /\ calls'[c] = Resumed(Decided(c).then)
    <3>1. LeadsOn(Decided(c), tables) /\ DOMAIN Decided(c).inserts \cap DOMAIN tables = {}
          /\ tables' = Written(tables, Decided(c))
      BY <2>5, <2>7 DEF Commit, Collides
    <3>2. /\ SubmissionRowsFit(tables') /\ DOMAIN tables \subseteq DOMAIN tables'
          /\ Decided(c).then # Nothing => SubmissionCallFits(Decided(c).then, tables')
      BY <3>1 DEF LeadsOn
    <3>. QED  BY <2>7, <3>2, Fields DEF Resumed
  <2>. QED  BY <1>2, <2>2, <2>3, <2>4, <2>6, <2>7 DEF Steps
<1>. QED  BY <1>1, <1>2, EveryStep DEF SubmissionsFit

LEMMA SubmissionsFitAtFirst ==
  ASSUME SubmissionsAreServed, Init
  PROVE  SubmissionsFit
<1>1. CallsShaped /\ \A c \in Caller : calls[c].call = Nothing /\ calls[c].phase = "idle"
  BY Fields DEF Init, CallsShaped
<1>2. Kind("reading", tables) = {}
  BY DEF Init, SubmissionsAreServed
<1>. QED  BY <1>1, <1>2 DEF SubmissionsFit, SubmissionRowsFit

LEMMA AcceptedOnes ==
  ASSUME SubmissionsFit
  PROVE  AcceptedIsQueued
<1>. SUFFICES ASSUME SubmissionsFit, NEW c \in Caller, calls[c].call # Nothing,
                     calls[c].call.op = "accepted", NEW i \in DOMAIN calls[c].call.all
              PROVE  LET key == calls[c].call.all[i]
                     IN /\ MessageRow(key) \in DOMAIN tables /\ ReadingRow(key) \in DOMAIN tables
                        /\ tables[ReadingRow(key)].message = MessageRow(key)
  BY DEF AcceptedIsQueued
<1>1. PICK S, k : Pieces(calls[c].call, S, k, tables)
  BY DEF SubmissionsFit, SubmissionCallFits, Piecewise
<1>2. i \in 1..k
  BY <1>1, LenProperties DEF Pieces
<1>3. Queued(calls[c].call.all[i], tables)
  BY <1>1, <1>2 DEF Pieces
<1>. QED  BY <1>3, ReadingRows DEF Queued, SubmissionsFit, SubmissionRowsFit, Kind

-----------------------------------------------------------------------------
(* What a deletion leaves (Projects)                                       *)

ContentOps == {"open session in", "record message in", "propose in", "define in"}

HostingFits(call) ==
  Hosting(call) /\ "op" \in DOMAIN call /\ (call.op = "require project" => call.then \in ContentOps)

\* The calls are those of the service, and the rows at first refer only to tables
\* their foreign keys name.
ProjectsAreServed ==
  /\ ProjectRowsFit(Beginning(service))
  /\ \A d, n : Requests(service, d, n) \subseteq
       CreateRequests(n) \cup ContentRequests(d, n) \cup DeletionRequests(d)
  /\ \A call : Hosting(call) =>
       /\ \A d : Reads(call, d) = ProjectReads(call, d) /\ ReadsLater(call, d) = {}
       /\ \A seen : Outcome(call, seen) = ProjectOutcome(call, seen)
       /\ ~Outside(call)

LEMMA TablesAre ==
  /\ Tables = {"sessions", "messages", "items", "versions", "chunks", "modules"}
  /\ RefersTo["sessions"] = {"project"} /\ RefersTo["messages"] = {"project", "sessions"}
  /\ RefersTo["items"] = {} /\ RefersTo["versions"] = {"items"}
  /\ RefersTo["chunks"] = {"project", "items"} /\ RefersTo["modules"] = {}
BY DEF Tables, RefersTo

LEMMA FiveAreScoped ==
  Scoped = {"sessions", "messages", "items", "chunks", "modules"} /\ Cardinality(Scoped) = 5
<1>1. Scoped = {"sessions", "messages", "items", "chunks", "modules"}
  BY TablesAre DEF Scoped, Tables
<1>. DEFINE A == {"sessions"}
            B == A \cup {"messages"}
            C == B \cup {"items"}
            D == C \cup {"chunks"}
            E == D \cup {"modules"}
<1>2. IsFiniteSet(A) /\ Cardinality(A) = 1
  BY FS_Singleton
<1>3. IsFiniteSet(B) /\ Cardinality(B) = 2
  BY <1>2, FS_AddElement
<1>4. IsFiniteSet(C) /\ Cardinality(C) = 3
  BY <1>3, FS_AddElement
<1>5. IsFiniteSet(D) /\ Cardinality(D) = 4
  BY <1>4, FS_AddElement
<1>6. Cardinality(E) = 5
  BY <1>5, FS_AddElement
<1>7. E = Scoped
  BY <1>1
<1>. QED  BY <1>1, <1>6, <1>7

\* There is an order in which a table comes before those it refers to.
LEMMA AnOrder ==
  /\ ScopedTables \in Orders
  /\ \A i, j \in DOMAIN ScopedTables : i < j => ScopedTables[i] \notin RefersTo[ScopedTables[j]]
<1>. PICK s : s = [i \in 1..5 |-> IF i = 1 THEN "messages" ELSE IF i = 2 THEN "sessions"
                                 ELSE IF i = 3 THEN "chunks" ELSE IF i = 4 THEN "items" ELSE "modules"]
  OBVIOUS
<1>1. /\ DOMAIN s = 1..5 /\ s[1] = "messages" /\ s[2] = "sessions" /\ s[3] = "chunks"
      /\ s[4] = "items" /\ s[5] = "modules"
  OBVIOUS
<1>2. \A i \in 1..5 : i \in {1, 2, 3, 4, 5}
  OBVIOUS
<1>3. s \in [1..5 -> Scoped]
  <2>1. \A i \in 1..5 : s[i] \in Scoped
    BY <1>1, <1>2, FiveAreScoped
  <2>. QED  BY <2>1
<1>4. \A i, j \in 1..5 : s[i] = s[j] => i = j
  BY <1>1, <1>2
<1>5. s \in Orders
  BY <1>1, <1>3, <1>4, FiveAreScoped DEF Orders
<1>6. \A i, j \in DOMAIN s : i < j => s[i] \notin RefersTo[s[j]]
  <2>1. RefersTo[s[1]] = {"project", "sessions"} /\ RefersTo[s[2]] = {"project"}
        /\ RefersTo[s[3]] = {"project", "items"} /\ RefersTo[s[4]] = {} /\ RefersTo[s[5]] = {}
    BY <1>1, TablesAre
  <2>. QED  BY <1>1, <1>2, <2>1
<1>. QED  BY <1>5, <1>6 DEF ScopedTables

IsJoin(a, S, s, m, t, n) ==
  /\ a \in Seq(S) /\ Len(a) = m + n
  /\ \A i \in 1..(m + n) : a[i] = IF i <= m THEN s[i] ELSE t[i - m]
LEMMA Joining ==
  ASSUME NEW S, NEW s \in Seq(S), NEW t \in Seq(S)
  PROVE  IsJoin(s \o t, S, s, Len(s), t, Len(t))
BY ConcatProperties DEF IsJoin

\* Versions go first and the project last.
LEMMA TheOrder ==
  \A i, j \in DOMAIN DeletionOrder :
    i < j => DeletionOrder[i] \notin Targets(DeletionOrder[j])
<1>. PICK s : s = ScopedTables
  OBVIOUS
<1>1. s \in [1..5 -> Scoped] /\ \A i, j \in 1..5 : i < j => s[i] \notin RefersTo[s[j]]
  BY AnOrder, FiveAreScoped DEF Orders
<1>. PICK S : S = Tables \cup {"project"}
  OBVIOUS
<1>2. Scoped \subseteq S /\ "versions" \in S /\ "project" \in S
  BY TablesAre, FiveAreScoped
<1>3. s \in Seq(S) /\ Len(s) = 5
  <2>1. s \in [1..5 -> S]
    BY <1>1, <1>2
  <2>2. s \in Seq(S)
    BY <2>1, SeqDef
  <2>3. 1..Len(s) = 1..5 /\ Len(s) \in Nat
    BY <2>1, <2>2, LenProperties
  <2>4. \A n \in Nat : 1..n = 1..5 => n = 5
    <3>1. ASSUME NEW n \in Nat, 1..n = 1..5  PROVE n = 5
      <4>1. 5 \in 1..n /\ 6 \notin 1..n
        BY <3>1
      <4>. QED  BY <4>1
    <3>. QED  BY <3>1
  <2>. QED  BY <2>2, <2>3, <2>4
<1>. PICK v, p : v = <<"versions">> /\ p = <<"project">>
  OBVIOUS
<1>4. v \in Seq(S) /\ p \in Seq(S) /\ Len(v) = 1 /\ Len(p) = 1 /\ v[1] = "versions" /\ p[1] = "project"
  BY <1>2
<1>5. PICK a : a = v \o s
  OBVIOUS
<1>6. IsJoin(a, S, v, 1, s, 5)
  BY <1>3, <1>4, <1>5, Joining
<1>7. PICK o : o = a \o p
  OBVIOUS
<1>8. IsJoin(o, S, a, 6, p, 1)
  <2>1. a \in Seq(S) /\ Len(a) = 6
    BY <1>6 DEF IsJoin
  <2>. QED  BY <1>4, <1>7, <2>1, Joining
<1>9. o = DeletionOrder
  BY <1>5, <1>7 DEF DeletionOrder
<1>10. DOMAIN o = 1..7
  BY <1>8, LenProperties DEF IsJoin
<1>11. o[1] = "versions" /\ o[7] = "project" /\ \A i \in 2..6 : o[i] = s[i - 1]
  BY <1>4, <1>6, <1>8 DEF IsJoin
<1>12. \A i \in 1..5 : s[i] # "versions" /\ s[i] # "project" /\ RefersTo[s[i]] \subseteq {"project", "sessions", "items"}
  <2>1. \A i \in 1..5 : s[i] \in Scoped
    BY <1>1
  <2>. QED  BY <2>1, FiveAreScoped, TablesAre
<1>13. ASSUME NEW i \in 1..7, NEW j \in 1..7, i < j
       PROVE  o[i] \notin Targets(o[j])
  <2>1. CASE j = 7
    BY <1>11, <2>1 DEF Targets
  <2>2. CASE i = 1 /\ j # 7
    <3>1. j - 1 \in 1..5 /\ o[j] = s[j - 1]
      BY <1>11, <1>13, <2>2
    <3>. QED  BY <1>11, <1>12, <2>2, <3>1 DEF Targets
  <2>3. CASE i # 1 /\ j # 7
    <3>1. i - 1 \in 1..5 /\ j - 1 \in 1..5 /\ i - 1 < j - 1 /\ o[i] = s[i - 1] /\ o[j] = s[j - 1]
      BY <1>11, <1>13, <2>3
    <3>. QED  BY <1>1, <1>12, <3>1 DEF Targets
  <2>. QED  BY <2>1, <2>2, <2>3
<1>. QED  BY <1>9, <1>10, <1>13

\* What stays refers to what its table may, and what is added too.
LEMMA ProjectRowsKept ==
  ASSUME NEW d, ProjectRowsFit(d), NEW o, o.updates = NoRows,
         \A r \in DOMAIN o.inserts : RowRefers(r, o.inserts[r])
  PROVE  ProjectRowsFit(Written(d, o))
<1>. PICK old : old = [r \in DOMAIN d \ o.deletes |->
                         IF r \in DOMAIN o.updates THEN Over(o.updates[r], d[r]) ELSE d[r]]
  OBVIOUS
<1>1. DOMAIN old \subseteq DOMAIN d /\ \A r \in DOMAIN old : old[r] = d[r]
  BY Singles
<1>2. Written(d, o) = Over(o.inserts, old)
  BY DEF Written
<1>. QED  BY <1>1, <1>2 DEF Over, ProjectRowsFit

\* Each row a call adds.
LEMMA OneRow ==
  ASSUME NEW t, NEW p, NEW n, NEW refers, t \in Tables, \A q \in refers : q[1] \in Targets(t)
  PROVE  \A r \in DOMAIN Row(t, p, n, refers) : RowRefers(r, Row(t, p, n, refers)[r])
<1>. PICK new : new = [refers |-> refers]
  OBVIOUS
<1>. PICK row : row = <<t, p, n>>
  OBVIOUS
<1>1. "refers" \in DOMAIN new /\ new.refers = refers /\ row[1] = t
  OBVIOUS
<1>2. Row(t, p, n, refers) = One(row, new)
  BY DEF Row
<1>3. RowRefers(row, new)
  BY <1>1 DEF RowRefers
<1>4. PICK one : one = One(row, new)
  OBVIOUS
<1>5. DOMAIN one = {row} /\ one[row] = new
  BY <1>4, Singles
<1>. QED  BY <1>2, <1>3, <1>4, <1>5

LEMMA TwoFit ==
  ASSUME NEW a, NEW b, \A r \in DOMAIN a : RowRefers(r, a[r]), \A r \in DOMAIN b : RowRefers(r, b[r])
  PROVE  \A r \in DOMAIN Over(a, b) : RowRefers(r, Over(a, b)[r])
BY DEF Over

LEMMA ContentFits ==
  ASSUME NEW call, call.op \in ContentOps, NEW seen
  PROVE  \A r \in DOMAIN Content(call, seen) : RowRefers(r, Content(call, seen)[r])
<1>. PICK p, n : p = call.project /\ n = call.id
  OBVIOUS
<1>0. ProjectAt(p)[1] = "project" /\ <<"items", p, n>>[1] = "items"
  BY DEF ProjectAt
<1>00. \A t \in Tables : Targets(t) = RefersTo[t]
  BY TablesAre DEF Targets
<1>1. CASE call.op = "open session in"
  <2>1. Content(call, seen) = Row("sessions", p, n, {ProjectAt(p)})
    BY <1>1 DEF Content
  <2>2. \A q \in {ProjectAt(p)} : q[1] \in Targets("sessions")
    BY <1>0, <1>00, TablesAre
  <2>. QED  BY <2>1, <2>2, OneRow, TablesAre
<1>2. CASE call.op = "record message in"
  <2>1. PICK refers : refers = {ProjectAt(p)} \cup Kind("sessions", seen)
    OBVIOUS
  <2>2. Content(call, seen) = Row("messages", p, n, refers)
    BY <1>2, <2>1 DEF Content
  <2>3. \A q \in refers : q[1] \in Targets("messages")
    BY <1>0, <1>00, <2>1, TablesAre DEF Kind
  <2>. QED  BY <2>2, <2>3, OneRow, TablesAre
<1>3. CASE call.op = "propose in"
  <2>1. PICK a, b, c : /\ a = Row("items", p, n, {}) /\ b = Row("versions", p, n, {<<"items", p, n>>})
                       /\ c = Row("chunks", p, n, {ProjectAt(p), <<"items", p, n>>})
    OBVIOUS
  <2>2. Content(call, seen) = Over(a, Over(b, c))
    BY <1>3, <2>1 DEF Content
  <2>3. \A r \in DOMAIN a : RowRefers(r, a[r])
    BY <2>1, OneRow, TablesAre
  <2>4. \A r \in DOMAIN b : RowRefers(r, b[r])
    <3>1. \A q \in {<<"items", p, n>>} : q[1] \in Targets("versions")
      BY <1>0, <1>00, TablesAre
    <3>. QED  BY <2>1, <3>1, OneRow, TablesAre
  <2>5. \A r \in DOMAIN c : RowRefers(r, c[r])
    <3>1. \A q \in {ProjectAt(p), <<"items", p, n>>} : q[1] \in Targets("chunks")
      BY <1>0, <1>00, TablesAre
    <3>. QED  BY <2>1, <3>1, OneRow, TablesAre
  <2>6. \A r \in DOMAIN Over(b, c) : RowRefers(r, Over(b, c)[r])
    BY <2>4, <2>5, TwoFit
  <2>. QED  BY <2>2, <2>3, <2>6, TwoFit
<1>4. CASE call.op = "define in"
  <2>1. Content(call, seen) = Row("modules", p, n, {})
    BY <1>4 DEF Content
  <2>. QED  BY <2>1, OneRow, TablesAre
<1>. QED  BY <1>1, <1>2, <1>3, <1>4 DEF ContentOps

\* What a call decides adds rows that fit and leads to a call that fits.
ProjectDecisionFits(o) ==
  /\ o.updates = NoRows /\ \A r \in DOMAIN o.inserts : RowRefers(r, o.inserts[r])
  /\ o.then # Nothing => HostingFits(o.then)
  /\ o.clash # Nothing => HostingFits(o.clash)

LEMMA ProjectGoesOn ==
  ASSUME NEW next, next = Nothing \/ HostingFits(next)
  PROVE  ProjectDecisionFits(Goto(next))
BY Decisions, Singles DEF Goto, ProjectDecisionFits

LEMMA ProjectDecision ==
  ASSUME NEW call, HostingFits(call), NEW seen, ProjectOutcome(call, seen).verdict = "done"
  PROVE  ProjectDecisionFits(ProjectOutcome(call, seen))
<1>. PICK o : o = ProjectOutcome(call, seen)
  OBVIOUS
<1>. SUFFICES ProjectDecisionFits(o)
  OBVIOUS
<1>0. o # Refused
  BY Decisions
<1>1. ASSUME NEW next, DOMAIN next = DOMAIN call, Hosting(next), next.op # "require project"
      PROVE  HostingFits(next)
  BY <1>1 DEF HostingFits
<1>2. Same = Goto(Nothing)
  BY DEF Same, Goto
<1>3. CASE call.op = "create project"
  <2>1. PICK new : new = [key |-> Candidate(call), refers |-> {}]
    OBVIOUS
  <2>2. PICK row : row = ProjectAt(call.id)
    OBVIOUS
  <2>3. PICK w : w = Writes(One(row, new), NoRows, Nothing)
    OBVIOUS
  <2>4. o = [w EXCEPT !.clash = NextAttempt(call)]
    BY <1>3, <2>1, <2>2, <2>3 DEF ProjectOutcome, CreateProject, Insert
  <2>5. o.inserts = One(row, new) /\ o.updates = NoRows /\ o.then = Nothing /\ o.clash = NextAttempt(call)
    BY <2>3, <2>4 DEF Writes
  <2>6. RowRefers(row, new)
    <3>1. "refers" \in DOMAIN new /\ new.refers = {}
      BY <2>1
    <3>. QED  BY <2>2, <3>1 DEF RowRefers, ProjectAt
  <2>7. NextAttempt(call) = Nothing \/ HostingFits(NextAttempt(call))
    <3>1. PICK winner : winner = [call EXCEPT !.op = "find winner"]
      OBVIOUS
    <3>2. PICK again : again = [call EXCEPT !.attempt = @ + 1]
      OBVIOUS
    <3>3. HostingFits(winner)
      BY <1>1, <3>1 DEF HostingFits, Hosting
    <3>4. HostingFits(again)
      BY <1>1, <1>3, <3>2 DEF HostingFits, Hosting
    <3>. QED  BY <3>1, <3>2, <3>3, <3>4 DEF NextAttempt
  <2>8. DOMAIN o.inserts = {row} /\ o.inserts[row] = new
    BY <2>5, Singles
  <2>. QED  BY <2>5, <2>6, <2>7, <2>8 DEF ProjectDecisionFits
<1>4. CASE call.op = "ensure project"
  <2>1. PICK next : next = [call EXCEPT !.op = "create project"]
    OBVIOUS
  <2>2. o = Same \/ o = Goto(next)
    BY <1>4, <2>1 DEF ProjectOutcome, EnsureProject
  <2>3. HostingFits(next)
    BY <1>1, <2>1 DEF HostingFits, Hosting
  <2>. QED  BY <1>2, <2>2, <2>3, ProjectGoesOn
<1>5. CASE call.op = "find winner"
  <2>1. o = Same
    BY <1>0, <1>5 DEF ProjectOutcome, FindWinner
  <2>. QED  BY <1>2, <2>1, ProjectGoesOn
<1>6. CASE call.op = "require project"
  <2>1. PICK next : next = [call EXCEPT !.op = call.then]
    OBVIOUS
  <2>2. o = Goto(next)
    BY <1>0, <1>6, <2>1 DEF ProjectOutcome, RequireProject
  <2>3. HostingFits(next)
    <3>1. next.op \in ContentOps /\ DOMAIN next = DOMAIN call
      BY <1>6, <2>1 DEF HostingFits
    <3>. QED  BY <1>1, <3>1 DEF Hosting, ContentOps
  <2>. QED  BY <2>2, <2>3, ProjectGoesOn
<1>7. CASE call.op = "plan deletion"
  <2>1. PICK next : next = [call EXCEPT !.op = "delete project"]
    OBVIOUS
  <2>2. o = Goto(next)
    BY <1>7, <2>1 DEF ProjectOutcome, PlanDeletion
  <2>3. HostingFits(next)
    BY <1>1, <2>1 DEF HostingFits, Hosting
  <2>. QED  BY <2>2, <2>3, ProjectGoesOn
<1>8. CASE call.op = "delete project"
  <2>1. o = Delete(DOMAIN seen)
    BY <1>0, <1>8 DEF ProjectOutcome, DeleteProject
  <2>2. /\ o.inserts = NoRows /\ o.updates = NoRows /\ o.then = Nothing /\ o.clash = Nothing
    BY <2>1 DEF Delete, Same, Writes
  <2>. QED  BY <2>2, Singles DEF ProjectDecisionFits
<1>9. CASE call.op \in ContentOps
  <2>1. o = Writes(Content(call, seen), NoRows, Nothing)
    BY <1>0, <1>9 DEF ProjectOutcome, WriteContent, ContentOps
  <2>. QED  BY <1>9, <2>1, ContentFits, Decisions DEF ProjectDecisionFits
<1>. QED  BY <1>3, <1>4, <1>5, <1>6, <1>7, <1>8, <1>9 DEF HostingFits, Hosting, ContentOps

\* Without a concurrent write, nothing stops a deletion and nothing is left.
Takes(o, p, d) == o.verdict = "done" /\ \A r \in DOMAIN Written(d, o) : r[2] # p
RowsOf(p, d) == {r \in DOMAIN d : r[2] = p}
LEMMA DeletionIsWhole ==
  ASSUME NEW d, ProjectRowsFit(d), NEW p, NEW call, call.op = "delete project", call.project = p,
         NEW seen, seen = Only(RowsOf(p, d), d)
  PROVE  Takes(ProjectOutcome(call, seen), p, d)
<1>1. DOMAIN seen = {r \in DOMAIN d : r[2] = p} /\ \A r \in DOMAIN seen : seen[r] = d[r]
  BY DEF Only, RowsOf
<1>2. ASSUME NEW i \in DOMAIN DeletionOrder, NEW j \in DOMAIN DeletionOrder, i < j,
             NEW r \in Of(p, DeletionOrder[i], seen), NEW q \in Of(p, DeletionOrder[j], seen),
             r \in seen[q].refers
      PROVE  FALSE
  <2>1. r[1] = DeletionOrder[i] /\ q[1] = DeletionOrder[j] /\ q \in DOMAIN d /\ seen[q] = d[q]
    BY <1>1 DEF Of
  <2>2. r[1] \in Targets(q[1])
    BY <1>2, <2>1 DEF ProjectRowsFit, RowRefers
  <2>. QED  BY <1>2, <2>1, <2>2, TheOrder
<1>3. ProjectOutcome(call, seen) = Delete(DOMAIN seen)
  BY <1>2 DEF ProjectOutcome, DeleteProject
<1>. PICK o : o = Delete(DOMAIN seen)
  OBVIOUS
<1>4. o.verdict = "done" /\ o.inserts = NoRows /\ o.deletes = DOMAIN seen
  BY DEF Delete, Same, Writes
<1>5. DOMAIN Written(d, o) = DOMAIN d \ DOMAIN seen
  BY <1>4, Singles DEF Written, Over
<1>. QED  BY <1>1, <1>3, <1>4, <1>5 DEF Takes

ProjectsFit ==
  /\ CallsShaped /\ ProjectRowsFit(tables)
  /\ \A c \in Caller : calls[c].call # Nothing => HostingFits(calls[c].call)

LEMMA ProjectsStayFit ==
  ASSUME ProjectsAreServed, ProjectsFit, [Next]_vars
  PROVE  ProjectsFit'
<1>1. CASE UNCHANGED vars
  BY <1>1 DEF ProjectsFit, vars, CallsShaped
<1>2. ASSUME NEW c \in Caller, Steps(c)
      PROVE  ProjectsFit'
  <2>. SUFFICES ProjectRowsFit(tables') /\ (calls'[c].call # Nothing => HostingFits(calls'[c].call))
    BY <1>2 DEF ProjectsFit, Steps
  <2>0. ProjectRowsFit(tables)
    BY DEF ProjectsFit
  <2>1. ASSUME NEW call, Turns(c, call), call # Nothing => HostingFits(call)
        PROVE  calls'[c].call # Nothing => HostingFits(calls'[c].call)
    BY <2>1, Fields DEF Turns, Resumed
  <2>2. CASE \E call \in Requests(service, tables, made + 1) : Turns(c, call)
    <3>1. PICK call \in Requests(service, tables, made + 1) : Turns(c, call)
      BY <2>2
    <3>2. call \in CreateRequests(made + 1) \cup ContentRequests(tables, made + 1)
                     \cup DeletionRequests(tables)
      BY <3>1 DEF ProjectsFit, ProjectsAreServed
    <3>3. HostingFits(call)
      BY <3>2 DEF CreateRequests, ContentRequests, DeletionRequests, HostingFits, Hosting, ContentOps
    <3>. QED  BY <2>0, <2>1, <3>1, <3>3 DEF Turns
  <2>3. CASE Turns(c, Nothing) \/ (calls[c].phase # "idle" /\ Turns(c, calls[c].call))
    BY <2>0, <2>1, <2>3 DEF ProjectsFit, Turns
  <2>4. CASE GoesOn(c)
    BY <2>0, <2>4 DEF ProjectsFit, GoesOn
  <2>5. ASSUME Is(c, "deciding"), Decided(c).verdict = "done"
        PROVE  ProjectDecisionFits(Decided(c))
    <3>1. HostingFits(calls[c].call)
      BY <2>5 DEF ProjectsFit, CallsShaped, Is
    <3>2. Decided(c) = ProjectOutcome(calls[c].call, calls[c].seen)
      BY <3>1 DEF ProjectsAreServed, Decided, HostingFits
    <3>. QED  BY <2>5, <3>1, <3>2, ProjectDecision
  <2>6. CASE Is(c, "deciding") /\ Decided(c).verdict = "done" /\ Turns(c, Decided(c).clash)
    BY <2>0, <2>1, <2>5, <2>6 DEF ProjectDecisionFits, Turns
  <2>7. CASE Commit(c) /\ calls'[c] = Resumed(Decided(c).then)
    <3>1. ProjectDecisionFits(Decided(c)) /\ tables' = Written(tables, Decided(c))
      BY <2>5, <2>7 DEF Commit
    <3>2. ProjectRowsFit(tables')
      BY <2>0, <3>1, ProjectRowsKept DEF ProjectDecisionFits
    <3>. QED  BY <2>7, <3>1, <3>2, Fields DEF Resumed, ProjectDecisionFits
  <2>. QED  BY <1>2, <2>2, <2>3, <2>4, <2>6, <2>7, Reading DEF Steps
<1>. QED  BY <1>1, <1>2, EveryStep DEF ProjectsFit

LEMMA ProjectsFitAtFirst ==
  ASSUME ProjectsAreServed, Init
  PROVE  ProjectsFit
<1>1. CallsShaped /\ \A c \in Caller : calls[c].call = Nothing
  BY Fields DEF Init, CallsShaped
<1>. QED  BY <1>1 DEF Init, ProjectsFit, ProjectsAreServed

LEMMA DeletionsOfProjects ==
  ASSUME ProjectsAreServed, ProjectsFit
  PROVE  NothingIsLeftBehind
<1>. SUFFICES ASSUME ProjectsFit, NEW c \in Caller, Is(c, "deciding"),
                     calls[c].call.op = "delete project", ~Stale(c)
              PROVE  /\ Decided(c).verdict = "done"
                     /\ \A r \in DOMAIN Written(tables, Decided(c)) : r[2] # calls[c].call.project
  BY DEF NothingIsLeftBehind
<1>. PICK call : call = calls[c].call
  OBVIOUS
<1>1. Hosting(call)
  BY DEF Hosting
<1>2. /\ Reads(call, tables) = RowsOf(call.project, tables)
      /\ ReadsLater(call, tables) = {} /\ ~Outside(call)
      /\ Decided(c) = ProjectOutcome(call, calls[c].seen)
  BY <1>1 DEF ProjectsAreServed, Decided, ProjectReads, RowsOf
<1>3. calls[c].seen = Only(RowsOf(call.project, tables), tables)
  BY <1>2 DEF Stale
<1>4. PICK seen, p : seen = calls[c].seen /\ p = call.project
  OBVIOUS
<1>5. Takes(ProjectOutcome(call, seen), p, tables)
  <2>1. call.op = "delete project" /\ ProjectRowsFit(tables)
    BY DEF ProjectsFit
  <2>. QED  BY <1>3, <1>4, <2>1, DeletionIsWhole
<1>. QED  BY <1>2, <1>4, <1>5 DEF Takes

-----------------------------------------------------------------------------
(* What was published (Publication)                                        *)

PublishFields ==
  {"op", "id", "row", "name", "overwrite", "target", "connection", "prefix", "state", "left"}
\* A publication knows the prefix of its target, and what is not left is shown.
Aimed(call, d) == call.target \in Kind("target", d) /\ call.prefix = d[call.target].prefix
Half(call, d) ==
  call.left \subseteq Files(call.row)
  /\ (call.prefix = Nothing => \A path \in Files(call.row) \ call.left : Shown(call.row, path, d))
PublishingFits(call, d) ==
  /\ DOMAIN call = PublishFields /\ call.row \in Kind("deliverable", d)
  /\ \/ call.op = "resolve"
     \/ call.op \in {"authorize target", "render"} /\ Aimed(call, d)
     \/ /\ call.op \in {"stage", "move"} /\ call.state = "published"
        /\ Aimed(call, d) /\ Half(call, d) /\ call.left # {}
     \/ call.op = "record attempt" /\ call.state # "published"
     \/ /\ call.op = "record attempt" /\ call.state = "published"
        /\ Aimed(call, d) /\ Half(call, d) /\ call.left = {}
Connecting(call) ==
  call.op = "connect" \/ (call.op = "authorize" /\ call.row[1] = "connection")
PublicationCallFits(call, d) == Connecting(call) \/ PublishingFits(call, d)
PublicationSeenFits(seen, d) ==
  /\ \A t \in Kind("target", seen) : t \in DOMAIN d /\ seen[t] = d[t]
  /\ \A row \in Kind("deliverable", d), path \in Paths : PlaceFits(StagedRow(row, path), row, path, seen)

\* The calls are those of the service, and no target has the place of a
\* deliverable for a prefix.
PublicationsAreServed ==
  /\ PublicationRowsFit(Beginning(service))
  /\ \A d, n : Requests(service, d, n) \subseteq PublishRequests(d, n) \cup ConnectionRequests(d, n)
  /\ \A call : Publishing(call) =>
       /\ \A d : Reads(call, d) = PublicationReads(call, d)
                 /\ ReadsLater(call, d) = PublicationReadsLater(call)
       /\ \A seen : Outcome(call, seen) = PublicationOutcome(call, seen)
                    /\ Locks(call, seen) = PublicationLocks(call)
       /\ Outside(call) <=> OnDisk(call)
  /\ \A call : SettingUp(call) =>
       ~Outside(call) /\ \A seen : Outcome(call, seen) = SetupOutcome(call, seen)

\* What a step of a publication leaves to the others.
Untouched(d, e) ==
  /\ DOMAIN d \subseteq DOMAIN e /\ Kind("deliverable", e) = Kind("deliverable", d)
  /\ Kind("target", e) = Kind("target", d) /\ \A t \in Kind("target", d) : e[t] = d[t]
  /\ \A row \in Kind("deliverable", d), path \in Paths : Shown(row, path, d) => Shown(row, path, e)

LEMMA PublicationRows ==
  /\ \A p, q : FileRow(p, q)[1] = "file" /\ StagedRow(p, q)[1] = "staged"
  /\ \A p, q, r, s : FileRow(p, q) = FileRow(r, s) => p = r /\ q = s
  /\ \A p, q, r, s : StagedRow(p, q) = StagedRow(r, s) => p = r /\ q = s
  /\ \A p, q, r, s : StagedRow(p, q) # FileRow(r, s)
BY DEF FileRow, StagedRow

LEMMA FilesArePaths ==
  /\ \A row : Files(row) \subseteq Paths
  /\ \A paths : paths \subseteq Paths /\ paths # {} => FirstOf(paths) \in paths
BY DEF Files, Paths, FirstOf

LEMMA AttemptsStay ==
  ASSUME NEW d, NEW e, Untouched(d, e), NEW attempt, AttemptFits(attempt, d)
  PROVE  AttemptFits(attempt, e)
BY FilesArePaths DEF Untouched, AttemptFits

LEMMA PublicationCallsStay ==
  ASSUME NEW d, NEW e, Untouched(d, e), NEW call, PublicationCallFits(call, d)
  PROVE  PublicationCallFits(call, e)
<1>1. Aimed(call, d) => Aimed(call, e)
  BY DEF Aimed, Untouched
<1>2. call.row \in Kind("deliverable", d) /\ Half(call, d) => Half(call, e)
  BY FilesArePaths DEF Half, Untouched
<1>3. call.row \in Kind("deliverable", d) => call.row \in Kind("deliverable", e)
  BY DEF Untouched
<1>. QED  BY <1>1, <1>2, <1>3 DEF PublicationCallFits, PublishingFits

LEMMA PublicationSeenStays ==
  ASSUME NEW d, NEW e, Untouched(d, e), NEW seen, PublicationSeenFits(seen, d)
  PROVE  PublicationSeenFits(seen, e)
BY DEF Untouched, PublicationSeenFits, Kind

\* Rows of other kinds may come and change.
LEMMA OtherRows ==
  ASSUME NEW d, PublicationRowsFit(d), NEW e, NEW row, DOMAIN e = DOMAIN d \cup {row},
         \A r \in DOMAIN d \ {row} : e[r] = d[r],
         row[1] \notin {"deliverable", "target", "file", "staged"},
         row[1] = "attempt" => AttemptFits(e[row], d)
  PROVE  PublicationRowsFit(e) /\ Untouched(d, e)
<1>1. /\ Kind("deliverable", e) = Kind("deliverable", d) /\ Kind("target", e) = Kind("target", d)
      /\ \A t \in Kind("target", d) : e[t] = d[t]
  BY DEF Kind
<1>2. \A p \in Kind("deliverable", d), q \in Paths : /\ e[FileRow(p, q)] = d[FileRow(p, q)]
                                                  /\ e[StagedRow(p, q)] = d[StagedRow(p, q)]
  BY PublicationRows DEF PublicationRowsFit
<1>3. Untouched(d, e)
  BY <1>1, <1>2 DEF Untouched, Shown
<1>4. \A a \in Kind("attempt", e) : AttemptFits(e[a], e)
  <2>1. \A a \in Kind("attempt", e) : AttemptFits(e[a], d)
    BY DEF Kind, PublicationRowsFit
  <2>. QED  BY <1>3, <2>1, AttemptsStay
<1>5. \A p \in Kind("deliverable", d), q \in Paths :
        /\ FileRow(p, q) \in DOMAIN e /\ StagedRow(p, q) \in DOMAIN e
        /\ PlaceFits(FileRow(p, q), p, q, e) /\ PlaceFits(StagedRow(p, q), p, q, e)
  BY <1>2 DEF PublicationRowsFit, PlaceFits
<1>. QED  BY <1>1, <1>3, <1>4, <1>5 DEF PublicationRowsFit

\* A file is staged, or moved to its place, with what the record says of it, or
\* at a place that is no deliverable's own.
LEMMA FilesChange ==
  ASSUME NEW d, PublicationRowsFit(d), NEW e, DOMAIN e = DOMAIN d,
         NEW prefix, NEW path \in Paths,
         \A r \in DOMAIN d : r \notin {FileRow(prefix, path), StagedRow(prefix, path)} => e[r] = d[r],
         prefix \in Kind("deliverable", d) =>
           /\ \/ e[FileRow(prefix, path)] = d[FileRow(prefix, path)]
              \/ Shown(prefix, path, e)
           /\ e[StagedRow(prefix, path)].bytes \in {Nothing, Rendered(prefix, path)}
  PROVE  PublicationRowsFit(e) /\ Untouched(d, e)
<1>1. /\ Kind("deliverable", e) = Kind("deliverable", d) /\ Kind("target", e) = Kind("target", d)
      /\ \A t \in Kind("target", d) \cup Kind("attempt", d) : e[t] = d[t]
      /\ Kind("attempt", e) = Kind("attempt", d)
  BY PublicationRows DEF Kind
<1>2. ASSUME NEW p \in Kind("deliverable", d), NEW q \in Paths
      PROVE  /\ e[FileRow(p, q)] = d[FileRow(p, q)] \/ Shown(p, q, e)
             /\ \/ e[StagedRow(p, q)] = d[StagedRow(p, q)]
                \/ e[StagedRow(p, q)].bytes \in {Nothing, Rendered(p, q)}
  <2>1. FileRow(p, q) \in DOMAIN d /\ StagedRow(p, q) \in DOMAIN d
    BY DEF PublicationRowsFit
  <2>2. CASE p = prefix /\ q = path
    BY <2>2
  <2>3. CASE ~(p = prefix /\ q = path)
    BY <2>1, <2>3, PublicationRows
  <2>. QED  BY <2>2, <2>3
<1>3. Untouched(d, e)
  BY <1>1, <1>2 DEF Untouched, Shown
<1>4. \A a \in Kind("attempt", e) : AttemptFits(e[a], e)
  BY <1>1, <1>3, AttemptsStay DEF PublicationRowsFit
<1>5. \A p \in Kind("deliverable", d), q \in Paths :
        /\ FileRow(p, q) \in DOMAIN e /\ StagedRow(p, q) \in DOMAIN e
        /\ PlaceFits(FileRow(p, q), p, q, e) /\ PlaceFits(StagedRow(p, q), p, q, e)
  BY <1>2 DEF PublicationRowsFit, PlaceFits, Shown
<1>. QED  BY <1>1, <1>3, <1>4, <1>5 DEF PublicationRowsFit

\* What a call leads to.
PublicationLeads(o, d) ==
  /\ o.clash = Nothing
  /\ DOMAIN o.inserts \cap DOMAIN d = {} =>
       /\ PublicationRowsFit(Written(d, o)) /\ Untouched(d, Written(d, o))
       /\ o.then # Nothing => PublicationCallFits(o.then, Written(d, o))

LEMMA NothingChanges ==
  ASSUME NEW d, PublicationRowsFit(d), NEW e, DOMAIN e = DOMAIN d, \A r \in DOMAIN d : e[r] = d[r]
  PROVE  PublicationRowsFit(e) /\ Untouched(d, e)
<1>1. /\ Kind("deliverable", e) = Kind("deliverable", d) /\ Kind("target", e) = Kind("target", d)
      /\ Kind("attempt", e) = Kind("attempt", d)
  BY DEF Kind
<1>2. \A p \in Kind("deliverable", d), q \in Paths : /\ e[FileRow(p, q)] = d[FileRow(p, q)]
                                                  /\ e[StagedRow(p, q)] = d[StagedRow(p, q)]
  BY DEF PublicationRowsFit
<1>3. Untouched(d, e)
  BY <1>1, <1>2 DEF Untouched, Shown, Kind
<1>4. \A a \in Kind("attempt", e) : AttemptFits(e[a], e)
  BY <1>1, <1>3, AttemptsStay DEF PublicationRowsFit, Kind
<1>. QED  BY <1>1, <1>2, <1>3, <1>4 DEF PublicationRowsFit, PlaceFits, Kind

LEMMA PublicationGoesOn ==
  ASSUME NEW d, PublicationRowsFit(d), NEW next, PublicationCallFits(next, d)
  PROVE  PublicationLeads(Goto(next), d)
<1>1. PICK o : o = Writes(NoRows, NoRows, next)
  OBVIOUS
<1>2. Leaves(d, NoRows, NoRows, Written(d, o))
  BY <1>1, RowsAfter, Singles
<1>3. DOMAIN Written(d, o) = DOMAIN d /\ \A r \in DOMAIN d : Written(d, o)[r] = d[r]
  BY <1>2, Singles DEF Leaves
<1>4. PublicationRowsFit(Written(d, o)) /\ Untouched(d, Written(d, o))
  BY <1>3, NothingChanges
<1>5. o.then = next /\ o.clash = Nothing /\ o = Goto(next)
  BY <1>1, Decisions DEF Goto
<1>. QED  BY <1>4, <1>5, PublicationCallsStay DEF PublicationLeads

LEMMA Resolving ==
  ASSUME NEW name, NEW purpose, NEW seen, Resolve(name, purpose, seen) # Nothing
  PROVE  Resolve(name, purpose, seen) \in Kind("target", seen)
<1>1. CASE name # Nothing
  BY <1>1 DEF Resolve, Target, Kind
<1>2. CASE name = Nothing
  <2>1. DefaultsOf(purpose, seen) # {}
    BY <1>2 DEF Resolve
  <2>2. Resolve(name, purpose, seen) \in DefaultsOf(purpose, seen)
    BY <1>2, <2>1 DEF Resolve
  <2>. QED  BY <2>2 DEF DefaultsOf
<1>. QED  BY <1>1, <1>2

\* A publication that fails goes on to record that.
LEMMA Failing ==
  ASSUME NEW d, PublicationRowsFit(d), NEW call, PublishingFits(call, d), NEW why, why # "published"
  PROVE  PublicationLeads(Fail(call, why), d)
<1>1. PICK next : next = [call EXCEPT !.op = "record attempt", !.state = why]
  OBVIOUS
<1>2. /\ DOMAIN next = DOMAIN call /\ next.row = call.row
      /\ next.op = "record attempt" /\ next.state = why
  BY <1>1 DEF PublishingFits, PublishFields
<1>3. PublishingFits(next, d)
  BY <1>2 DEF PublishingFits
<1>. QED  BY <1>1, <1>3, PublicationGoesOn DEF Fail, PublicationCallFits

LEMMA BeforeFiles ==
  ASSUME NEW d, PublicationRowsFit(d), NEW call, PublishingFits(call, d),
         call.op \in {"resolve", "authorize target", "render"},
         NEW seen, PublicationSeenFits(seen, d), PublicationOutcome(call, seen).verdict = "done"
  PROVE  PublicationLeads(PublicationOutcome(call, seen), d)
<1>. PICK o : o = PublicationOutcome(call, seen)
  OBVIOUS
<1>0. o # Refused
  BY Decisions
<1>1. DOMAIN call = PublishFields /\ call.row \in Kind("deliverable", d)
  BY DEF PublishingFits
<1>2. CASE call.op = "resolve"
  <2>1. PICK target : target = Resolve(call.name, "deliverable", seen)
    OBVIOUS
  <2>2. PICK next : next = [call EXCEPT !.op = "authorize target", !.target = target,
                              !.connection = seen[target].connection,
                              !.prefix = seen[target].prefix]
    OBVIOUS
  <2>3. o = IF target = Nothing THEN Fail(call, "failed") ELSE Goto(next)
    BY <1>2, <2>1, <2>2 DEF PublicationOutcome, ResolveTarget
  <2>4. ASSUME target # Nothing  PROVE PublicationCallFits(next, d)
    <3>1. target \in Kind("target", seen)
      BY <2>1, <2>4, Resolving
    <3>2. target \in Kind("target", d) /\ d[target].prefix = seen[target].prefix
      BY <3>1 DEF PublicationSeenFits, Kind
    <3>3. /\ DOMAIN next = DOMAIN call /\ next.row = call.row /\ next.op = "authorize target"
          /\ next.target = target /\ next.prefix = seen[target].prefix
      BY <1>1, <2>2 DEF PublishFields
    <3>. QED  BY <1>1, <3>2, <3>3 DEF PublicationCallFits, PublishingFits, Aimed
  <2>. QED  BY <2>3, <2>4, Failing, PublicationGoesOn
<1>3. CASE call.op = "authorize target"
  <2>1. PICK next : next = [call EXCEPT !.op = "render"]
    OBVIOUS
  <2>2. o = Goto(next) \/ o = Fail(call, "failed")
    BY <1>3, <2>1 DEF PublicationOutcome, Permit, Advance
  <2>3. /\ DOMAIN next = DOMAIN call /\ next.row = call.row /\ next.op = "render"
        /\ next.target = call.target /\ next.prefix = call.prefix
    BY <1>1, <2>1 DEF PublishFields
  <2>4. Aimed(call, d)
    BY <1>3 DEF PublishingFits
  <2>5. PublicationCallFits(next, d)
    BY <1>1, <2>3, <2>4 DEF PublicationCallFits, PublishingFits, Aimed
  <2>. QED  BY <2>2, <2>5, Failing, PublicationGoesOn
<1>4. CASE call.op = "render"
  <2>1. PICK next : next = [call EXCEPT !.op = IF Files(call.row) = {} THEN "record attempt" ELSE "stage",
                              !.state = "published", !.left = Files(call.row)]
    OBVIOUS
  <2>2. o \in {Goto(next), Fail(call, "failed"), Fail(call, "verification_failed")}
    BY <1>0, <1>4, <2>1 DEF PublicationOutcome, Render
  <2>3. /\ DOMAIN next = DOMAIN call /\ next.row = call.row
        /\ next.op = (IF Files(call.row) = {} THEN "record attempt" ELSE "stage")
        /\ next.state = "published" /\ next.left = Files(call.row)
        /\ next.target = call.target /\ next.prefix = call.prefix
    BY <1>1, <2>1 DEF PublishFields
  <2>4. Aimed(call, d)
    BY <1>4 DEF PublishingFits
  <2>5. Aimed(next, d) /\ Half(next, d)
    BY <2>3, <2>4 DEF Aimed, Half
  <2>6. PublicationCallFits(next, d)
    BY <1>1, <2>3, <2>5 DEF PublicationCallFits, PublishingFits
  <2>. QED  BY <2>2, <2>6, Failing, PublicationGoesOn
<1>. QED  BY <1>2, <1>3, <1>4

\* The place of a publication is its deliverable's own, or nobody's.
LEMMA WhichPlace ==
  ASSUME NEW d, PublicationRowsFit(d), NEW call, Aimed(call, d), Half(call, d), call.left # {}
  PROVE  /\ FirstOf(call.left) \in call.left /\ FirstOf(call.left) \in Paths
         /\ call.prefix = Nothing => Prefix(call) = call.row
         /\ Prefix(call) \in Kind("deliverable", d) => Prefix(call) = call.row /\ call.prefix = Nothing
<1>1. call.prefix \notin Kind("deliverable", d)
  BY DEF Aimed, PublicationRowsFit
<1>2. call.left \subseteq Paths
  BY FilesArePaths DEF Half
<1>. QED  BY <1>1, <1>2, FilesArePaths DEF Prefix

LEMMA Staging ==
  ASSUME NEW d, PublicationRowsFit(d), NEW call, PublishingFits(call, d), call.op = "stage",
         NEW seen, Stage(call, seen).verdict = "done"
  PROVE  PublicationLeads(Stage(call, seen), d)
<1>1. /\ DOMAIN call = PublishFields /\ call.row \in Kind("deliverable", d)
      /\ call.state = "published" /\ Aimed(call, d) /\ Half(call, d) /\ call.left # {}
  BY DEF PublishingFits
<1>. PICK p, path : p = Prefix(call) /\ path = FirstOf(call.left)
  OBVIOUS
<1>2. /\ path \in call.left /\ path \in Paths
      /\ p \in Kind("deliverable", d) => p = call.row /\ call.prefix = Nothing
  BY <1>1, WhichPlace
<1>3. PICK new : new = [bytes |-> Rendered(call.row, path)]
  OBVIOUS
<1>4. PICK row : row = StagedRow(p, path)
  OBVIOUS
<1>5. PICK ups : ups = One(row, new)
  OBVIOUS
<1>6. PICK next : next = [call EXCEPT !.op = "move"]
  OBVIOUS
<1>7. PICK o : o = Writes(NoRows, ups, next)
  OBVIOUS
<1>8. Stage(call, seen) = Fail(call, "failed") \/ Stage(call, seen) = o
  BY <1>3, <1>4, <1>5, <1>6, <1>7 DEF Stage, Beside
<1>9. PublicationCallFits(next, d)
  <2>1. /\ DOMAIN next = DOMAIN call /\ next.row = call.row /\ next.op = "move"
        /\ next.state = call.state /\ next.target = call.target /\ next.prefix = call.prefix
        /\ next.left = call.left
    BY <1>1, <1>6 DEF PublishFields
  <2>2. Aimed(next, d) /\ Half(next, d)
    BY <1>1, <2>1 DEF Aimed, Half
  <2>. QED  BY <1>1, <2>1, <2>2 DEF PublicationCallFits, PublishingFits
<1>10. PICK e : e = Written(d, o)
  OBVIOUS
<1>11. PublicationRowsFit(e) /\ Untouched(d, e)
  <2>1. Leaves(d, NoRows, ups, e)
    BY <1>7, <1>10, RowsAfter, Singles
  <2>2. DOMAIN ups = {row} /\ ups[row] = new
    BY <1>5, Singles
  <2>3. DOMAIN e = DOMAIN d /\ \A r \in DOMAIN d : r # row => e[r] = d[r]
    BY <2>1, <2>2, Singles DEF Leaves
  <2>4. row \in DOMAIN d => e[row].bytes = Rendered(call.row, path)
    <3>1. row \in DOMAIN d => e[row] = Over(new, d[row])
      BY <2>1, <2>2 DEF Leaves
    <3>2. "bytes" \in DOMAIN new /\ new.bytes = Rendered(call.row, path)
      BY <1>3
    <3>. QED  BY <3>1, <3>2 DEF Over
  <2>5. p \in Kind("deliverable", d) =>
          /\ e[FileRow(p, path)] = d[FileRow(p, path)]
          /\ e[StagedRow(p, path)].bytes = Rendered(p, path)
    <3>1. p \in Kind("deliverable", d) => FileRow(p, path) \in DOMAIN d /\ row \in DOMAIN d
      BY <1>2, <1>4 DEF PublicationRowsFit
    <3>2. FileRow(p, path) # row
      BY <1>4, PublicationRows
    <3>. QED  BY <1>2, <1>4, <2>3, <2>4, <3>1, <3>2
  <2>. QED  BY <1>2, <1>4, <2>3, <2>5, FilesChange
<1>12. o.then = next /\ o.clash = Nothing
  BY <1>7, Decisions
<1>13. PublicationLeads(o, d)
  BY <1>9, <1>10, <1>11, <1>12, PublicationCallsStay DEF PublicationLeads
<1>. QED  BY <1>8, <1>13, Failing

LEMMA MovingIntoPlace ==
  ASSUME NEW d, PublicationRowsFit(d), NEW call, PublishingFits(call, d), call.op = "move",
         NEW seen, PublicationSeenFits(seen, d),
         call.prefix = Nothing => Beside(call) \in DOMAIN seen,
         Move(call, seen).verdict = "done"
  PROVE  PublicationLeads(Move(call, seen), d)
<1>1. /\ DOMAIN call = PublishFields /\ call.row \in Kind("deliverable", d)
      /\ call.state = "published" /\ Aimed(call, d) /\ Half(call, d) /\ call.left # {}
  BY DEF PublishingFits
<1>. PICK p, path : p = Prefix(call) /\ path = FirstOf(call.left)
  OBVIOUS
<1>2. /\ path \in call.left /\ path \in Paths /\ (call.prefix = Nothing => p = call.row)
      /\ p \in Kind("deliverable", d) => p = call.row /\ call.prefix = Nothing
  BY <1>1, WhichPlace
<1>. PICK bytes : bytes = seen[StagedRow(p, path)].bytes
  OBVIOUS
<1>3. PICK new : new = [bytes |-> bytes]
  OBVIOUS
<1>4. PICK gone : gone = [bytes |-> Nothing]
  OBVIOUS
<1>5. PICK file, staged : file = FileRow(p, path) /\ staged = StagedRow(p, path)
  OBVIOUS
<1>6. PICK ups : ups = Over(One(file, new), One(staged, gone))
  OBVIOUS
<1>7. PICK next : next = [call EXCEPT !.left = @ \ {FirstOf(@)},
               !.op = IF call.left = {FirstOf(call.left)} THEN "record attempt" ELSE "stage"]
  OBVIOUS
<1>8. PICK o : o = Writes(NoRows, ups, next)
  OBVIOUS
<1>9. Move(call, seen) = o /\ bytes # Nothing
  <2>1. Move(call, seen) # Refused
    BY Decisions
  <2>. QED  BY <2>1, <1>3, <1>4, <1>5, <1>6, <1>7, <1>8 DEF Move, Beside, Place
<1>10. call.prefix = Nothing => bytes = Rendered(call.row, path)
  BY <1>1, <1>2, <1>9 DEF PublicationSeenFits, PlaceFits, Beside
<1>11. PICK e : e = Written(d, o)
  OBVIOUS
<1>12. /\ DOMAIN e = DOMAIN d /\ \A r \in DOMAIN d : r \notin {file, staged} => e[r] = d[r]
       /\ file \in DOMAIN d => e[file].bytes = bytes
       /\ staged \in DOMAIN d => e[staged].bytes = Nothing
  <2>1. Leaves(d, NoRows, ups, e)
    BY <1>8, <1>11, RowsAfter, Singles
  <2>2. DOMAIN ups = {file, staged} /\ ups[file] = new /\ ups[staged] = gone
    <3>1. file # staged
      BY <1>5, PublicationRows
    <3>2. PICK one, two : one = One(file, new) /\ two = One(staged, gone)
      OBVIOUS
    <3>3. DOMAIN one = {file} /\ one[file] = new /\ DOMAIN two = {staged} /\ two[staged] = gone
      BY <3>2, Singles
    <3>4. ups = Over(one, two)
      BY <1>6, <3>2
    <3>. QED  BY <3>1, <3>3, <3>4 DEF Over
  <2>3. DOMAIN new = {"bytes"} /\ new.bytes = bytes /\ DOMAIN gone = {"bytes"} /\ gone.bytes = Nothing
    BY <1>3, <1>4
  <2>4. \A r \in DOMAIN d : IF r \in {file, staged} THEN e[r] = Over(ups[r], d[r]) ELSE e[r] = d[r]
    BY <2>1, <2>2 DEF Leaves
  <2>5. DOMAIN e = DOMAIN d
    BY <2>1, Singles DEF Leaves
  <2>6. \A was : Over(new, was).bytes = bytes /\ Over(gone, was).bytes = Nothing
    BY <2>3 DEF Over
  <2>. QED  BY <2>2, <2>4, <2>5, <2>6
<1>13. p \in Kind("deliverable", d) => Shown(p, path, e) /\ e[StagedRow(p, path)].bytes = Nothing
  <2>1. p \in Kind("deliverable", d) => file \in DOMAIN d /\ staged \in DOMAIN d
    BY <1>2, <1>5 DEF PublicationRowsFit
  <2>. QED  BY <1>2, <1>5, <1>10, <1>12, <2>1 DEF Shown
<1>14. PublicationRowsFit(e) /\ Untouched(d, e)
  BY <1>2, <1>5, <1>12, <1>13, FilesChange
<1>15. PublicationCallFits(next, e)
  <2>1. /\ DOMAIN next = DOMAIN call /\ next.row = call.row
        /\ next.op = (IF call.left = {path} THEN "record attempt" ELSE "stage")
        /\ next.state = call.state /\ next.target = call.target /\ next.prefix = call.prefix
        /\ next.left = call.left \ {path}
    BY <1>1, <1>7 DEF PublishFields
  <2>2. next.row \in Kind("deliverable", e) /\ Aimed(next, e)
    BY <1>1, <1>14, <2>1 DEF Untouched, Aimed
  <2>3. Half(next, e)
    <3>1. call.left \subseteq Files(call.row)
          /\ (call.prefix = Nothing => \A q \in Files(call.row) \ call.left : Shown(call.row, q, d))
      BY <1>1 DEF Half
    <3>2. call.prefix = Nothing => Shown(call.row, path, e)
      BY <1>1, <1>2, <1>13
    <3>3. \A q \in Files(call.row) : Shown(call.row, q, d) => Shown(call.row, q, e)
      BY <1>1, <1>14, FilesArePaths DEF Untouched
    <3>. QED  BY <2>1, <3>1, <3>2, <3>3 DEF Half
  <2>4. next.op = "record attempt" => next.left = {}
    BY <2>1
  <2>5. next.op = "stage" => next.left # {}
    BY <1>2, <2>1
  <2>. QED  BY <1>1, <2>1, <2>2, <2>3, <2>4, <2>5 DEF PublicationCallFits, PublishingFits
<1>16. o.then = next /\ o.clash = Nothing
  BY <1>8, Decisions
<1>. QED  BY <1>9, <1>11, <1>14, <1>15, <1>16 DEF PublicationLeads

\* One row of another kind is written.
LEMMA OneOther ==
  ASSUME NEW d, PublicationRowsFit(d), NEW row, NEW new, NEW o,
         o = Insert(row, new) \/ (o = Update(row, new) /\ row[1] = "connection"),
         row[1] \in {"connection", "attempt"},
         row[1] = "attempt" => AttemptFits(new, d)
  PROVE  PublicationLeads(o, d)
<1>0. o.then = Nothing /\ o.clash = Nothing
  BY Decisions DEF Insert, Update
<1>1. PICK one : one = One(row, new)
  OBVIOUS
<1>2. DOMAIN one = {row} /\ one[row] = new
  BY <1>1, Singles
<1>. PICK e : e = Written(d, o)
  OBVIOUS
<1>3. CASE o = Insert(row, new) /\ row \notin DOMAIN d
  <2>1. Leaves(d, one, NoRows, e)
    BY <1>1, <1>2, <1>3, RowsAfter DEF Insert
  <2>2. DOMAIN e = DOMAIN d \cup {row} /\ e[row] = new /\ \A r \in DOMAIN d \ {row} : e[r] = d[r]
    BY <1>2, <2>1, Singles DEF Leaves
  <2>. QED  BY <1>0, <2>2, OtherRows DEF PublicationLeads
<1>4. CASE o = Insert(row, new) /\ row \in DOMAIN d
  <2>1. DOMAIN o.inserts \cap DOMAIN d # {}
    BY <1>1, <1>2, <1>4, Decisions DEF Insert
  <2>. QED  BY <1>0, <2>1 DEF PublicationLeads
<1>5. CASE o = Update(row, new) /\ row[1] = "connection"
  <2>1. Leaves(d, NoRows, one, e)
    BY <1>1, <1>5, RowsAfter, Singles DEF Update
  <2>2. DOMAIN e = DOMAIN d /\ \A r \in DOMAIN d \ {row} : e[r] = d[r]
    BY <1>2, <2>1, Singles DEF Leaves
  <2>3. CASE row \in DOMAIN d
    <3>1. DOMAIN e = DOMAIN d \cup {row}
      BY <2>2, <2>3
    <3>. QED  BY <1>0, <1>5, <2>2, <3>1, OtherRows DEF PublicationLeads
  <2>4. CASE row \notin DOMAIN d
    <3>1. PublicationRowsFit(e) /\ Untouched(d, e)
      <4>1. \A r \in DOMAIN d : e[r] = d[r]
        BY <2>2, <2>4
      <4>. QED  BY <2>2, <4>1, NothingChanges
    <3>. QED  BY <1>0, <3>1 DEF PublicationLeads
  <2>. QED  BY <2>3, <2>4
<1>. QED  BY <1>3, <1>4, <1>5

LEMMA Recording ==
  ASSUME NEW d, PublicationRowsFit(d), NEW call, PublishingFits(call, d), call.op = "record attempt",
         NEW seen
  PROVE  PublicationLeads(RecordAttempt(call, seen), d)
<1>1. PICK new : new = [state |-> call.state, row |-> call.row, target |-> call.target,
          reference |-> IF call.state = "published" THEN Prefix(call) ELSE Nothing]
  OBVIOUS
<1>2. AttemptFits(new, d)
  <2>. SUFFICES ASSUME new.reference # Nothing  PROVE AttemptFits(new, d)
    BY DEF AttemptFits
  <2>1. call.state = "published" /\ new.reference = Prefix(call) /\ new.row = call.row
        /\ new.target = call.target
    BY <1>1
  <2>2. /\ call.row \in Kind("deliverable", d) /\ Aimed(call, d) /\ Half(call, d) /\ call.left = {}
    BY <2>1 DEF PublishingFits
  <2>3. d[call.target].prefix = Nothing =>
          Prefix(call) = call.row /\ \A path \in Files(call.row) : Shown(call.row, path, d)
    BY <2>2 DEF Aimed, Half, Prefix
  <2>. QED  BY <2>1, <2>2, <2>3 DEF AttemptFits, Aimed
<1>3. AttemptRow(call.id)[1] = "attempt"
  BY DEF AttemptRow
<1>4. RecordAttempt(call, seen) = Insert(AttemptRow(call.id), new)
  BY <1>1 DEF RecordAttempt
<1>. QED  BY <1>2, <1>3, <1>4, OneOther

LEMMA Reconnecting ==
  ASSUME NEW d, PublicationRowsFit(d), NEW call, Connecting(call), NEW seen,
         SetupOutcome(call, seen).verdict = "done"
  PROVE  PublicationLeads(SetupOutcome(call, seen), d)
<1>. PICK o : o = SetupOutcome(call, seen)
  OBVIOUS
<1>0. o # Refused
  BY Decisions
<1>1. CASE call.op = "connect"
  <2>1. PICK new : new = [state |-> call.state, by |-> call.by]
    OBVIOUS
  <2>2. o = Insert(Connection(call.id), new)
    BY <1>0, <1>1, <2>1 DEF SetupOutcome, RecordConnection
  <2>3. Connection(call.id)[1] = "connection"
    BY DEF Connection
  <2>. QED  BY <2>2, <2>3, OneOther
<1>2. CASE call.op = "authorize" /\ call.row[1] = "connection"
  <2>1. PICK new : new = Changed([state |-> call.state,
                                  by |-> IF call.by # Nothing THEN call.by ELSE seen[call.row].by],
                                 seen[call.row])
    OBVIOUS
  <2>2. o = Update(call.row, new)
    BY <1>0, <1>2, <2>1 DEF SetupOutcome, AuthorizeConnection
  <2>. QED  BY <1>2, <2>2, OneOther
<1>. QED  BY <1>1, <1>2 DEF Connecting

PublicationsFit ==
  /\ CallsShaped /\ PublicationRowsFit(tables)
  /\ \A c \in Caller :
       LET call == calls[c].call
       IN /\ call # Nothing => PublicationCallFits(call, tables)
          /\ calls[c].phase \in {"flushing", "deciding"} => PublicationSeenFits(calls[c].seen, tables)
          /\ calls[c].phase = "deciding" /\ call.op = "move" /\ call.prefix = Nothing =>
               Beside(call) \in DOMAIN calls[c].seen

LEMMA PublicationDecision ==
  ASSUME PublicationsAreServed, PublicationsFit, NEW c \in Caller, Is(c, "deciding"),
         Decided(c).verdict = "done"
  PROVE  PublicationLeads(Decided(c), tables)
<1>. PICK call, seen : call = calls[c].call /\ seen = calls[c].seen
  OBVIOUS
<1>1. /\ PublicationRowsFit(tables) /\ PublicationCallFits(call, tables)
      /\ PublicationSeenFits(seen, tables)
      /\ call.op = "move" /\ call.prefix = Nothing => Beside(call) \in DOMAIN seen
  BY DEF PublicationsFit, CallsShaped, Is
<1>2. CASE Connecting(call)
  <2>1. SettingUp(call)
    BY <1>2 DEF Connecting, SettingUp
  <2>2. Decided(c) = SetupOutcome(call, seen)
    BY <2>1 DEF PublicationsAreServed, Decided
  <2>. QED  BY <1>1, <1>2, <2>2, Reconnecting
<1>3. CASE PublishingFits(call, tables)
  <2>1. Publishing(call)
    BY <1>3 DEF PublishingFits, Publishing
  <2>2. Decided(c) = PublicationOutcome(call, seen)
    BY <2>1 DEF PublicationsAreServed, Decided
  <2>3. CASE call.op \in {"resolve", "authorize target", "render"}
    BY <1>1, <1>3, <2>2, <2>3, BeforeFiles
  <2>4. CASE call.op = "stage"
    <3>1. Decided(c) = Stage(call, seen)
      BY <2>2, <2>4 DEF PublicationOutcome
    <3>. QED  BY <1>1, <1>3, <2>4, <3>1, Staging
  <2>5. CASE call.op = "move"
    <3>1. Decided(c) = Move(call, seen)
      BY <2>2, <2>5 DEF PublicationOutcome
    <3>. QED  BY <1>1, <1>3, <2>5, <3>1, MovingIntoPlace
  <2>6. CASE call.op = "record attempt"
    <3>1. Decided(c) = RecordAttempt(call, seen)
      BY <2>2, <2>6 DEF PublicationOutcome
    <3>. QED  BY <1>1, <1>3, <2>6, <3>1, Recording
  <2>. QED  BY <2>1, <2>3, <2>4, <2>5, <2>6 DEF Publishing
<1>. QED  BY <1>1, <1>2, <1>3 DEF PublicationCallFits

\* What is done to the files inserts no row.
LEMMA OnDiskInsertsNothing ==
  ASSUME PublicationsAreServed, PublicationsFit, NEW c \in Caller, Is(c, "deciding"),
         Decided(c).verdict = "done", Outside(calls[c].call)
  PROVE  DOMAIN Decided(c).inserts = {}
<1>. PICK call, seen : call = calls[c].call /\ seen = calls[c].seen
  OBVIOUS
<1>1. PublicationCallFits(call, tables)
  BY DEF PublicationsFit, CallsShaped, Is
<1>2. ~SettingUp(call)
  BY DEF PublicationsAreServed
<1>3. Publishing(call)
  BY <1>1, <1>2 DEF PublicationCallFits, PublishingFits, Connecting, SettingUp, Publishing
<1>4. OnDisk(call) /\ Decided(c) = PublicationOutcome(call, seen)
  BY <1>3 DEF PublicationsAreServed, Decided
<1>5. Decided(c) = Stage(call, seen) \/ Decided(c) = Move(call, seen)
  BY <1>4 DEF OnDisk, PublicationOutcome
<1>6. \A ins, ups, then : Writes(ins, ups, then).inserts = ins
  BY Decisions
<1>7. Stage(call, seen).inserts = NoRows
  BY <1>6 DEF Stage, Fail, Goto
<1>8. Move(call, seen).inserts = NoRows
  BY <1>6 DEF Move, Refused, Same, Goto
<1>. QED  BY <1>5, <1>7, <1>8, Singles

\* What a call reads of the rows there are.
LEMMA PublicationReading ==
  ASSUME PublicationsAreServed, PublicationsFit, NEW c \in Caller, Loads(c) \/ Flushes(c)
  PROVE  /\ PublicationSeenFits(calls'[c].seen, tables)
         /\ calls'[c].phase = "deciding" /\ calls[c].call.op = "move" /\ calls[c].call.prefix = Nothing =>
              Beside(calls[c].call) \in DOMAIN calls'[c].seen
<1>. PICK call : call = calls[c].call
  OBVIOUS
<1>1. \A rows : PublicationSeenFits(Only(rows, tables), tables)
  BY DEF PublicationSeenFits, Only, Kind, PublicationsFit, PublicationRowsFit, PlaceFits
<1>2. call.op = "move" => Publishing(call)
  BY DEF Publishing
<1>3. CASE Loads(c)
  <2>1. calls'[c].seen = Only(Reads(call, tables), tables)
    BY <1>3 DEF Loads
  <2>2. call.op = "move" => calls'[c].phase = "flushing"
    <3>1. call.op = "move" => Locks(call, Only(Reads(call, tables), tables)) = {Beside(call)}
      BY <1>2 DEF PublicationsAreServed, PublicationLocks
    <3>. QED  BY <1>3, <3>1 DEF Loads
  <2>. QED  BY <1>1, <2>1, <2>2
<1>4. CASE Flushes(c)
  <2>. PICK was, later : was = calls[c].seen /\ later = Only(ReadsLater(call, tables), tables)
    OBVIOUS
  <2>1. calls'[c].seen = Over(was, later) /\ calls[c].phase = "flushing"
    BY <1>4 DEF Flushes
  <2>2. PublicationSeenFits(was, tables) /\ PublicationSeenFits(later, tables)
    BY <1>1, <2>1 DEF PublicationsFit
  <2>3. PublicationSeenFits(Over(was, later), tables)
    BY <2>2 DEF PublicationSeenFits, Over, Kind, PlaceFits
  <2>4. call.op = "move" /\ call.prefix = Nothing => Beside(call) \in DOMAIN Over(was, later)
    <3>. SUFFICES ASSUME call.op = "move", call.prefix = Nothing
                  PROVE  Beside(call) \in DOMAIN later
      BY DEF Over
    <3>1. PublicationCallFits(call, tables) /\ PublicationRowsFit(tables)
      BY <2>1 DEF PublicationsFit, CallsShaped
    <3>2. PublishingFits(call, tables)
      BY <3>1 DEF PublicationCallFits, Connecting
    <3>3. call.row \in Kind("deliverable", tables) /\ Prefix(call) = call.row /\ FirstOf(call.left) \in Paths
      BY <3>1, <3>2, WhichPlace DEF PublishingFits
    <3>4. Beside(call) \in DOMAIN tables
      BY <3>1, <3>3 DEF Beside, PublicationRowsFit
    <3>5. ReadsLater(call, tables) = {Beside(call)}
      BY <1>2 DEF PublicationsAreServed, PublicationReadsLater, PublicationLocks
    <3>. QED  BY <3>4, <3>5 DEF Only
  <2>. QED  BY <2>1, <2>3, <2>4
<1>. QED  BY <1>3, <1>4

LEMMA PublicationRequestsFit ==
  ASSUME NEW d, NEW n, NEW call \in PublishRequests(d, n) \cup ConnectionRequests(d, n)
  PROVE  PublicationCallFits(call, d)
<1>1. CASE call \in PublishRequests(d, n)
  BY <1>1 DEF PublishRequests, PublicationCallFits, PublishingFits, PublishFields
<1>2. CASE call \in ConnectionRequests(d, n)
  BY <1>2 DEF ConnectionRequests, PublicationCallFits, Connecting, Kind
<1>. QED  BY <1>1, <1>2

LEMMA PublicationsStayFit ==
  ASSUME PublicationsAreServed, PublicationsFit, [Next]_vars
  PROVE  PublicationsFit'
<1>1. CASE UNCHANGED vars
  BY <1>1 DEF PublicationsFit, vars, CallsShaped
<1>2. ASSUME NEW c \in Caller, Steps(c)
      PROVE  PublicationsFit'
  <2>. SUFFICES /\ PublicationRowsFit(tables') /\ Untouched(tables, tables')
                /\ calls'[c].call # Nothing => PublicationCallFits(calls'[c].call, tables')
                /\ calls'[c].phase \in {"flushing", "deciding"} =>
                     PublicationSeenFits(calls'[c].seen, tables')
                /\ calls'[c].phase = "deciding" /\ calls'[c].call.op = "move"
                   /\ calls'[c].call.prefix = Nothing =>
                     Beside(calls'[c].call) \in DOMAIN calls'[c].seen
    BY <1>2, PublicationCallsStay, PublicationSeenStays DEF PublicationsFit, Steps
  <2>0. PublicationRowsFit(tables) /\ (tables' = tables => Untouched(tables, tables'))
    BY DEF PublicationsFit, Untouched
  <2>1. ASSUME NEW call, Turns(c, call), call # Nothing => PublicationCallFits(call, tables)
        PROVE  /\ calls'[c].call # Nothing => PublicationCallFits(calls'[c].call, tables')
               /\ calls'[c].phase \notin {"deciding", "flushing"}
    BY <2>1, Fields DEF Turns, Resumed
  <2>2. CASE \E call \in Requests(service, tables, made + 1) : Turns(c, call)
    <3>1. PICK call \in Requests(service, tables, made + 1) : Turns(c, call)
      BY <2>2
    <3>2. PublicationCallFits(call, tables)
      BY <3>1, PublicationRequestsFit DEF PublicationsFit, PublicationsAreServed
    <3>. QED  BY <2>0, <2>1, <3>1, <3>2 DEF Turns
  <2>3. CASE Turns(c, Nothing) \/ (calls[c].phase # "idle" /\ Turns(c, calls[c].call))
    BY <2>0, <2>1, <2>3 DEF PublicationsFit, Turns
  <2>4. CASE Loads(c) \/ Flushes(c)
    BY <2>0, <2>4, Reading, PublicationReading DEF PublicationsFit, GoesOn
  <2>5. CASE Is(c, "deciding") /\ Decided(c).verdict = "done" /\ Turns(c, Decided(c).clash)
    <3>1. Decided(c).clash = Nothing
      BY <2>5, PublicationDecision DEF PublicationLeads
    <3>. QED  BY <2>0, <2>1, <2>5, <3>1 DEF Turns
  <2>6. CASE Commit(c) /\ calls'[c] = Resumed(Decided(c).then)
    <3>1. /\ PublicationLeads(Decided(c), tables) /\ tables' = Written(tables, Decided(c))
          /\ DOMAIN Decided(c).inserts \cap DOMAIN tables = {}
      <4>1. PublicationLeads(Decided(c), tables) /\ tables' = Written(tables, Decided(c))
        BY <2>6, PublicationDecision DEF Commit
      <4>2. Outside(calls[c].call) => DOMAIN Decided(c).inserts = {}
        BY <2>6, OnDiskInsertsNothing DEF Commit
      <4>. QED  BY <2>6, <4>1, <4>2 DEF Commit, Collides
    <3>2. /\ PublicationRowsFit(tables') /\ Untouched(tables, tables')
          /\ Decided(c).then # Nothing => PublicationCallFits(Decided(c).then, tables')
      BY <3>1 DEF PublicationLeads
    <3>. QED  BY <2>6, <3>2, Fields DEF Resumed
  <2>. QED  BY <1>2, <2>2, <2>3, <2>4, <2>5, <2>6 DEF Steps
<1>. QED  BY <1>1, <1>2, EveryStep DEF PublicationsFit

LEMMA PublicationsFitAtFirst ==
  ASSUME PublicationsAreServed, Init
  PROVE  PublicationsFit
<1>1. CallsShaped /\ \A c \in Caller : calls[c].call = Nothing /\ calls[c].phase = "idle"
  BY Fields DEF Init, CallsShaped
<1>2. PublicationRowsFit(tables)
  BY DEF Init, PublicationsAreServed
<1>. QED  BY <1>1, <1>2 DEF PublicationsFit

LEMMA FilesOfPublications ==
  ASSUME PublicationsFit
  PROVE  PublishedStaysWhole
BY DEF PublicationsFit, PublicationRowsFit, AttemptFits, Shown, PublishedStaysWhole

-----------------------------------------------------------------------------
(* What a person called noise (EvidenceGraph)                              *)

\* The calls are those of the service.
EvidenceIsServed ==
  /\ \A d, n : Requests(service, d, n) \subseteq EvidenceRequests(d, n)
  /\ \A call : Reconciling(call) => /\ ~Outside(call)
                                    /\ \A seen : Outcome(call, seen) = EvidenceOutcome(call, seen)

\* A call that resolves a contradiction names a relation.
EvidenceCallFits(call) ==
  Reconciling(call) /\ (call.op = "resolve contradiction" => call.row[1] = "relation")

\* The roles a call updates become noise, or are not.
NoiseIsKept(o, seen) ==
  \/ o = Refused
  \/ \E ins, ups : /\ o = Writes(ins, ups, Nothing)
                   /\ \A r \in DOMAIN ups : r[1] = "role" =>
                        \/ ups[r] = [role |-> "noise"]
                        \/ r \in DOMAIN seen /\ seen[r].role # "noise"

LEMMA EvidenceDecision ==
  ASSUME NEW call, EvidenceCallFits(call), NEW seen
  PROVE  NoiseIsKept(EvidenceOutcome(call, seen), seen)
<1>1. ASSUME NEW row, NEW up, row[1] = "role" => up = [role |-> "noise"]
      PROVE  NoiseIsKept(Update(row, up), seen)
  <2>1. PICK ups : ups = One(row, up)
    OBVIOUS
  <2>2. DOMAIN ups = {row} /\ ups[row] = up
    BY <2>1, Singles
  <2>3. Update(row, up) = Writes(NoRows, ups, Nothing)
    BY <2>1 DEF Update
  <2>. QED  BY <1>1, <2>2, <2>3 DEF NoiseIsKept
<1>2. ASSUME NEW ins  PROVE NoiseIsKept(Writes(ins, NoRows, Nothing), seen)
  BY Singles DEF NoiseIsKept
<1>3. CASE call.op = "reconcile"
  <2>. DEFINE edges == Plan(call.focus, seen)
              roles == Roles(edges)
              changed == {i \in DOMAIN roles : MayAssign(i, roles[i], seen)}
              known == {i \in changed : RoleRow(i) \in DOMAIN seen}
              ups == [r \in {RoleRow(i) : i \in known} |-> [role |-> roles[r[2]]]]
  <2>1. \A i \in known : RoleRow(i) \in DOMAIN seen /\ seen[RoleRow(i)].role # "noise"
    BY DEF MayAssign
  <2>2. \/ EvidenceOutcome(call, seen) \in {Same, Refused}
        \/ \E ins : EvidenceOutcome(call, seen) = Writes(ins, ups, Nothing)
    BY <1>3 DEF EvidenceOutcome, Reconcile
  <2>. HIDE DEF known, roles
  <2>3. \A r \in DOMAIN ups : r \in DOMAIN seen /\ seen[r].role # "noise"
    BY <2>1
  <2>. HIDE DEF ups
  <2>4. CASE EvidenceOutcome(call, seen) \in {Same, Refused}
    BY <1>2, <2>4 DEF Same, NoiseIsKept
  <2>5. CASE \E ins : EvidenceOutcome(call, seen) = Writes(ins, ups, Nothing)
    BY <2>3, <2>5 DEF NoiseIsKept
  <2>. QED  BY <2>2, <2>4, <2>5
<1>4. CASE call.op = "set noise"
  <2>1. EvidenceOutcome(call, seen) = SetNoise(call, seen)
    BY <1>4 DEF EvidenceOutcome
  <2>2. \/ SetNoise(call, seen) = Update(RoleRow(call.item), [role |-> "noise"])
        \/ SetNoise(call, seen) = Writes(One(RoleRow(call.item), [role |-> "noise"]), NoRows, Nothing)
    BY DEF SetNoise, Insert
  <2>3. NoiseIsKept(Update(RoleRow(call.item), [role |-> "noise"]), seen)
    BY <1>1
  <2>. QED  BY <1>2, <2>1, <2>2, <2>3
<1>5. CASE call.op = "judge"
  <2>1. PICK row, up : row = EvidenceRow(call.item) /\ EvidenceOutcome(call, seen) = Update(row, up)
    BY <1>5 DEF EvidenceOutcome, Judge
  <2>2. row[1] = "evidence"
    BY <2>1 DEF EvidenceRow
  <2>. QED  BY <1>1, <2>1, <2>2
<1>6. CASE call.op = "resolve contradiction"
  <2>1. EvidenceOutcome(call, seen) = ResolveContradiction(call, seen)
    BY <1>6 DEF EvidenceOutcome
  <2>2. \/ ResolveContradiction(call, seen) = Update(call.row, [resolved |-> TRUE])
        \/ ResolveContradiction(call, seen) = Writes(NoRows, NoRows, Nothing)
    BY DEF ResolveContradiction, Same
  <2>3. call.row[1] = "relation"
    BY <1>6 DEF EvidenceCallFits
  <2>4. NoiseIsKept(Update(call.row, [resolved |-> TRUE]), seen)
    BY <1>1, <2>3
  <2>. QED  BY <1>2, <2>1, <2>2, <2>4
<1>. QED  BY <1>3, <1>4, <1>5, <1>6 DEF EvidenceCallFits, Reconciling

\* What is noise in the rows d is noise in e.
NoiseStays(d, e) == \A r \in Kind("role", d) : d[r].role = "noise" => e[r].role = "noise"

LEMMA EvidenceKeeps ==
  ASSUME NEW d, NEW seen, \A q \in DOMAIN seen : q \in DOMAIN d /\ seen[q] = d[q],
         NEW o, NoiseIsKept(o, seen), o.verdict = "done",
         DOMAIN o.inserts \cap DOMAIN d = {}, NEW e, e = Written(d, o)
  PROVE  NoiseStays(d, e)
<1>1. PICK ins, ups : /\ o = Writes(ins, ups, Nothing)
                      /\ \A r \in DOMAIN ups : r[1] = "role" =>
                           \/ ups[r] = [role |-> "noise"]
                           \/ r \in DOMAIN seen /\ seen[r].role # "noise"
  BY Decisions DEF NoiseIsKept
<1>2. Leaves(d, ins, ups, e)
  <2>1. o.inserts = ins
    BY <1>1, Decisions
  <2>. QED  BY <1>1, <2>1, RowsAfter
<1>3. ASSUME NEW r \in Kind("role", d), d[r].role = "noise" PROVE e[r].role = "noise"
  <2>1. CASE r \notin DOMAIN ups
    BY <1>2, <1>3, <2>1 DEF Leaves, Kind
  <2>2. CASE r \in DOMAIN ups
    <3>1. ups[r] = [role |-> "noise"]
      BY <1>1, <1>3, <2>2 DEF Kind
    <3>2. e[r] = Over(ups[r], d[r])
      BY <1>2, <2>2 DEF Leaves, Kind
    <3>. QED  BY <3>1, <3>2 DEF Over
  <2>. QED  BY <2>1, <2>2
<1>. QED  BY <1>3 DEF NoiseStays

EvidenceFits ==
  /\ CallsShaped
  /\ \A c \in Caller : calls[c].call # Nothing => EvidenceCallFits(calls[c].call)

LEMMA EvidenceStaysFit ==
  ASSUME EvidenceIsServed, EvidenceFits, [Next]_vars
  PROVE  EvidenceFits' /\ (Serializable => NoiseStays(tables, tables'))
<1>1. CASE UNCHANGED vars
  BY <1>1 DEF EvidenceFits, vars, CallsShaped, Serializable, NoiseStays
<1>2. ASSUME NEW c \in Caller, Steps(c)
      PROVE  EvidenceFits' /\ (Serializable => NoiseStays(tables, tables'))
  <2>. SUFFICES /\ calls'[c].call # Nothing => EvidenceCallFits(calls'[c].call)
                /\ Serializable => NoiseStays(tables, tables')
    BY <1>2 DEF EvidenceFits, Steps, Serializable
  <2>1. tables' = tables => NoiseStays(tables, tables')
    BY DEF NoiseStays
  <2>2. ASSUME NEW call, Turns(c, call), call # Nothing => EvidenceCallFits(call)
        PROVE  calls'[c].call # Nothing => EvidenceCallFits(calls'[c].call)
    BY <2>2, Fields DEF Turns, Resumed
  <2>3. CASE \E call \in Requests(service, tables, made + 1) : Turns(c, call)
    <3>1. PICK call \in Requests(service, tables, made + 1) : Turns(c, call)
      BY <2>3
    <3>2. EvidenceCallFits(call)
      <4>1. call \in EvidenceRequests(tables, made + 1)
        BY <3>1 DEF EvidenceFits, EvidenceIsServed
      <4>. QED  BY <4>1 DEF EvidenceRequests, EvidenceCallFits, Reconciling, Kind
    <3>. QED  BY <2>1, <2>2, <3>1, <3>2 DEF Turns
  <2>4. CASE GoesOn(c)
    BY <2>1, <2>4 DEF EvidenceFits, GoesOn
  <2>5. CASE Turns(c, Nothing) \/ (calls[c].phase # "idle" /\ Turns(c, calls[c].call))
    BY <2>1, <2>2, <2>5 DEF EvidenceFits, Turns
  <2>6. ASSUME Is(c, "deciding")
        PROVE  /\ ~Outside(calls[c].call) /\ NoiseIsKept(Decided(c), calls[c].seen)
               /\ Decided(c).verdict = "done" => Decided(c).then = Nothing /\ Decided(c).clash = Nothing
    <3>1. EvidenceCallFits(calls[c].call)
      BY <2>6 DEF EvidenceFits, CallsShaped, Is
    <3>2. ~Outside(calls[c].call) /\ NoiseIsKept(Decided(c), calls[c].seen)
      BY <3>1, EvidenceDecision DEF EvidenceIsServed, EvidenceCallFits, Decided
    <3>3. \A o : NoiseIsKept(o, calls[c].seen) /\ o.verdict = "done" => o.then = Nothing /\ o.clash = Nothing
      BY Decisions DEF NoiseIsKept
    <3>. QED  BY <3>2, <3>3
  <2>7. CASE Is(c, "deciding") /\ Decided(c).verdict = "done" /\ Turns(c, Decided(c).clash)
    BY <2>1, <2>2, <2>6, <2>7 DEF Turns
  <2>8. CASE Commit(c) /\ calls'[c] = Resumed(Decided(c).then)
    <3>1. calls'[c].call = Nothing
      BY <2>6, <2>8, Fields DEF Commit, Resumed
    <3>2. ASSUME Serializable  PROVE NoiseStays(tables, tables')
      <4>1. /\ \A q \in DOMAIN calls[c].seen : q \in DOMAIN tables /\ calls[c].seen[q] = tables[q]
            /\ DOMAIN Decided(c).inserts \cap DOMAIN tables = {}
            /\ Decided(c).verdict = "done" /\ tables' = Written(tables, Decided(c))
        BY <2>6, <2>8, <3>2, CommitsOnTrueReads DEF Commit
      <4>. QED  BY <2>6, <2>8, <4>1, EvidenceKeeps DEF Commit
    <3>. QED  BY <3>1, <3>2
  <2>. QED  BY <1>2, <2>3, <2>4, <2>5, <2>7, <2>8, Reading DEF Steps
<1>. QED  BY <1>1, <1>2, EveryStep DEF EvidenceFits

LEMMA EvidenceFitsAtFirst ==
  ASSUME Init
  PROVE  EvidenceFits
<1>1. CallsShaped /\ \A c \in Caller : calls[c].call = Nothing
  BY Fields DEF Init, CallsShaped
<1>. QED  BY <1>1 DEF Init, EvidenceFits

LEMMA NoiseOfEvidence ==
  ASSUME EvidenceIsServed, EvidenceFits, [Next]_vars, Serializable
  PROVE  NoiseStands
BY EvidenceStaysFit DEF NoiseStays, NoiseStands

-----------------------------------------------------------------------------
(* The graph of the modules (ProductModules)                               *)

LEMMA LeastOf ==
  ASSUME NEW T, T \subseteq Nat, T # {}
  PROVE  \E n \in T : \A m \in T : n <= m
<1>1. PICK n \in T : \A m \in T : ~(<<m, n>> \in OpToRel(<, Nat))
  BY NatLessThanWellFounded, WFMin
<1>2. \A m \in T : ~(m < n)
  BY <1>1 DEF OpToRel
<1>. QED  BY <1>2

LEMMA Induction ==
  ASSUME NEW T, 0 \in T, \A n \in Nat : n \in T => n + 1 \in T
  PROVE  Nat \subseteq T
<1>. SUFFICES ASSUME Nat \ T # {}  PROVE FALSE
  OBVIOUS
<1>. DEFINE U == Nat \ T
<1>0. U \subseteq Nat /\ U # {}
  OBVIOUS
<1>. HIDE DEF U
<1>1. PICK n \in U : \A m \in U : n <= m
  BY <1>0, LeastOf
<1>2. n \in Nat \ {0} /\ n - 1 \in Nat /\ n - 1 \notin U
  BY <1>1 DEF U
<1>. QED  BY <1>1, <1>2 DEF U

\* What a module depends on.
Needs(m, edges) == Outgoing(m, "depends_on", edges)
\* Some module of every set of modules needs none of the others.
Grounded(edges) ==
  \A S : IsFiniteSet(S) /\ S # {} => \E m \in S : Needs(m, edges) \cap S = {}
OneOwner(edges) ==
  \A e, f \in edges : e.relation = "owns" /\ f.relation = "owns" /\ e.target = f.target
                        => e.source = f.source

\* An edge that is allowed leaves it so: where the check finds no way back, some
\* set of modules has the edge's target, not its source, and no edge out.
LEMMA EdgeKeeps ==
  ASSUME NEW edges, Grounded(edges), OneOwner(edges), NEW edge, EdgeAllowed(edge, edges)
  PROVE  Grounded(edges \cup {edge}) /\ OneOwner(edges \cup {edge})
<1>. DEFINE more == edges \cup {edge}
<1>1. OneOwner(more)
  BY DEF OneOwner, EdgeAllowed, Exclusive, OwnersOf, Incoming
<1>2. CASE edge.relation # "depends_on"
  <2>1. \A m : Needs(m, more) = Needs(m, edges)
    BY <1>2 DEF Needs, Outgoing
  <2>. QED  BY <1>1, <2>1 DEF Grounded
<1>3. CASE edge.relation = "depends_on"
  <2>1. ~Reaches(edge.target, edge.source, "depends_on", edges)
    BY <1>3 DEF EdgeAllowed, WouldCycle, Acyclic
  <2>2. PICK R : /\ edge.target \in R /\ edge.source \notin R
                 /\ \A m \in R : Needs(m, edges) \subseteq R
    BY <2>1 DEF Reaches, Closed, Needs
  <2>3. \A m : /\ m # edge.source => Needs(m, more) = Needs(m, edges)
               /\ Needs(m, more) \subseteq Needs(m, edges) \cup {edge.target}
    BY DEF Needs, Outgoing
  <2>4. ASSUME NEW S, IsFiniteSet(S), S # {}
        PROVE  \E m \in S : Needs(m, more) \cap S = {}
    <3>1. CASE edge.target \in S
      <4>1. IsFiniteSet(S \cap R) /\ S \cap R # {}
        BY <2>2, <2>4, <3>1, FS_Intersection
      <4>2. PICK m \in S \cap R : Needs(m, edges) \cap (S \cap R) = {}
        BY <4>1 DEF Grounded
      <4>3. Needs(m, more) = Needs(m, edges) /\ Needs(m, edges) \subseteq R
        BY <2>2, <2>3
      <4>4. Needs(m, edges) \cap S = {}
        BY <4>2, <4>3
      <4>. QED  BY <4>3, <4>4
    <3>2. CASE edge.target \notin S
      <4>1. PICK m \in S : Needs(m, edges) \cap S = {}
        BY <2>4 DEF Grounded
      <4>. QED  BY <2>3, <3>2, <4>1
    <3>. QED  BY <3>1, <3>2
  <2>. QED  BY <1>1, <2>4 DEF Grounded
<1>. QED  BY <1>2, <1>3

\* The layers up to the n-th, as Layers builds them.
NextLayer(before, edges) ==
  [ordered |-> before.ordered \o SetToSeq(NeedsNothing(before.pending, edges)),
   pending |-> before.pending \ NeedsNothing(before.pending, edges)]
LayersUpTo(after, modules, edges, n) ==
  after = [k \in 0 .. n |-> IF k = 0 THEN [ordered |-> <<>>, pending |-> modules]
                            ELSE NextLayer(after[k - 1], edges)]

LEMMA LayersExist ==
  ASSUME NEW modules, NEW edges
  PROVE  \A n \in Nat : \E after : LayersUpTo(after, modules, edges, n)
<1>. DEFINE T == {n \in Nat : \E after : LayersUpTo(after, modules, edges, n)}
            first == [ordered |-> <<>>, pending |-> modules]
<1>1. 0 \in T
  <2>. DEFINE f == [k \in 0 .. 0 |-> first]
  <2>1. LayersUpTo(f, modules, edges, 0)
    BY DEF LayersUpTo
  <2>. QED  BY <2>1
<1>2. ASSUME NEW n \in Nat, n \in T  PROVE n + 1 \in T
  <2>1. PICK f : LayersUpTo(f, modules, edges, n)
    BY <1>2
  <2>. DEFINE g == [k \in 0 .. n + 1 |-> IF k = n + 1 THEN NextLayer(f[n], edges) ELSE f[k]]
  <2>2. \A k \in 0 .. n : f[k] = IF k = 0 THEN first ELSE NextLayer(f[k - 1], edges)
    BY <2>1 DEF LayersUpTo
  <2>. HIDE DEF first
  <2>3. \A k \in 0 .. n + 1 : g[k] = IF k = 0 THEN first ELSE NextLayer(g[k - 1], edges)
    <3>. SUFFICES ASSUME NEW k \in 0 .. n + 1
                  PROVE  g[k] = IF k = 0 THEN first ELSE NextLayer(g[k - 1], edges)
      OBVIOUS
    <3>1. CASE k = n + 1
      <4>1. k - 1 = n /\ n \in 0 .. n + 1 /\ k # 0 /\ n # n + 1
        BY <3>1
      <4>2. g[n] = f[n] /\ g[k] = NextLayer(f[n], edges)
        BY <3>1, <4>1
      <4>. QED  BY <4>1, <4>2
    <3>2. CASE k # n + 1
      <4>1. k \in 0 .. n /\ (k # 0 => k - 1 \in 0 .. n + 1 /\ k - 1 # n + 1)
        BY <3>2
      <4>. QED  BY <2>2, <3>2, <4>1
    <3>. QED  BY <3>1, <3>2
  <2>4. LayersUpTo(g, modules, edges, n + 1)
    BY <2>3 DEF LayersUpTo, first
  <2>. QED  BY <2>4
<1>. HIDE DEF T
<1>3. Nat \subseteq T
  BY <1>1, <1>2, Induction
<1>. QED  BY <1>3 DEF T

\* The members of a finite set, once each.
LEMMA Listed ==
  ASSUME NEW M, NEW S, S \subseteq M, IsFiniteSet(S)
  PROVE  /\ SetToSeq(S) \in Seq(M) /\ Len(SetToSeq(S)) = Cardinality(S)
         /\ \A i \in 1 .. Cardinality(S) : SetToSeq(S)[i] \in S
         /\ \A m \in S : \E i \in 1 .. Cardinality(S) : SetToSeq(S)[i] = m
<1>. DEFINE n == Cardinality(S)
<1>1. n \in Nat /\ ExistsBijection(1 .. n, S)
  BY FS_CardinalityType
<1>2. PICK g \in [1 .. n -> S] : IsInjective(g)
  BY <1>1 DEF ExistsBijection, Bijection, Injection, IsInjective
<1>3. PICK f : f = SetToSeq(S)
  OBVIOUS
<1>4. f \in [1 .. n -> S] /\ IsInjective(f)
  BY <1>2, <1>3 DEF SetToSeq
<1>5. f \in Surjection(1 .. n, S)
  <2>1. f \in Injection(1 .. n, S)
    BY <1>4 DEF Injection
  <2>2. IsFiniteSet(1 .. n) /\ Cardinality(1 .. n) = n
    BY <1>1, FS_Interval
  <2>. QED  BY <2>1, <2>2, FS_Injection
<1>6. f \in Seq(M) /\ Len(f) = n
  <2>1. f \in [1 .. n -> M]
    BY <1>4
  <2>. QED  BY <1>1, <2>1, LenProperties, SeqDef
<1>. QED  BY <1>3, <1>4, <1>5, <1>6 DEF Surjection

\* The modules of the first layers are in order, and need none of the others.
LayersFit(a, modules, edges) ==
  /\ a.pending \subseteq modules /\ a.ordered \in Seq(modules)
  /\ \A i \in 1 .. Len(a.ordered) : a.ordered[i] \notin a.pending
  /\ \A m \in modules \ a.pending : /\ \E i \in 1 .. Len(a.ordered) : a.ordered[i] = m
                                    /\ Needs(m, edges) \cap a.pending = {}
  /\ \A i, j \in 1 .. Len(a.ordered) : a.ordered[j] \in Needs(a.ordered[i], edges) => j < i

LEMMA OneLayer ==
  ASSUME NEW modules, NEW edges, IsFiniteSet(modules), NEW a, LayersFit(a, modules, edges)
  PROVE  LayersFit(NextLayer(a, edges), modules, edges)
<1>. DEFINE ready == NeedsNothing(a.pending, edges)
            b == NextLayer(a, edges)
<1>. PICK s, t : s = a.ordered /\ t = SetToSeq(ready)
  OBVIOUS
<1>1. /\ ready \subseteq a.pending /\ ready \subseteq modules
      /\ \A m \in ready : Needs(m, edges) \cap a.pending = {}
  BY DEF NeedsNothing, Needs, LayersFit
<1>2. b.ordered = s \o t /\ b.pending = a.pending \ ready
  BY DEF NextLayer
<1>. HIDE DEF ready, b
<1>3. IsFiniteSet(ready)
  BY <1>1, FS_Subset
<1>. PICK m, n : m = Len(s) /\ n = Len(t)
  OBVIOUS
<1>4. /\ t \in Seq(modules) /\ \A i \in 1 .. n : t[i] \in ready
      /\ \A r \in ready : \E i \in 1 .. n : t[i] = r
  BY <1>1, <1>3, Listed
<1>5. s \in Seq(modules) /\ m \in Nat /\ n \in Nat
  BY <1>4, LenProperties DEF LayersFit
<1>6. /\ b.ordered \in Seq(modules) /\ Len(b.ordered) = m + n
      /\ \A i \in 1 .. m + n : b.ordered[i] = IF i <= m THEN s[i] ELSE t[i - m]
  BY <1>2, <1>4, <1>5, Joining DEF IsJoin
<1>7. \A i \in 1 .. m + n : \/ i \in 1 .. m /\ b.ordered[i] = s[i]
                            \/ i > m /\ i - m \in 1 .. n /\ b.ordered[i] = t[i - m]
  BY <1>5, <1>6
<1>8. /\ \A i \in 1 .. m : i \in 1 .. m + n /\ b.ordered[i] = s[i]
      /\ \A i \in 1 .. n : i + m \in 1 .. m + n /\ b.ordered[i + m] = t[i]
  <2>1. \A i \in 1 .. n : i + m \in 1 .. m + n /\ ~(i + m <= m) /\ (i + m) - m = i
    BY <1>5
  <2>2. \A i \in 1 .. m : i \in 1 .. m + n /\ i <= m
    BY <1>5
  <2>3. \A i \in 1 .. n : b.ordered[i + m] = t[(i + m) - m]
    BY <1>6, <2>1
  <2>4. \A i \in 1 .. m : b.ordered[i] = s[i]
    BY <1>6, <2>2
  <2>. QED  BY <2>1, <2>2, <2>3, <2>4
<1>9. /\ \A i \in 1 .. m : s[i] \notin a.pending /\ s[i] \in modules
      /\ \A r \in modules \ a.pending : /\ \E i \in 1 .. m : s[i] = r
                                        /\ Needs(r, edges) \cap a.pending = {}
      /\ \A i, j \in 1 .. m : s[j] \in Needs(s[i], edges) => j < i
  BY <1>5, ElementOfSeq DEF LayersFit
<1>10. \A i \in 1 .. m + n : b.ordered[i] \notin b.pending
  BY <1>2, <1>4, <1>7, <1>9
<1>11. ASSUME NEW r \in modules \ b.pending
       PROVE  /\ \E i \in 1 .. m + n : b.ordered[i] = r
              /\ Needs(r, edges) \cap b.pending = {}
  <2>1. CASE r \in ready
    <3>1. PICK i \in 1 .. n : t[i] = r
      BY <1>4, <2>1
    <3>2. i + m \in 1 .. m + n /\ b.ordered[i + m] = r
      BY <1>8, <3>1
    <3>. QED  BY <1>1, <1>2, <2>1, <3>2
  <2>2. CASE r \notin ready
    <3>1. r \in modules \ a.pending
      BY <1>2, <2>2
    <3>. QED  BY <1>2, <1>8, <1>9, <3>1
  <2>. QED  BY <2>1, <2>2
<1>12. ASSUME NEW i \in 1 .. m + n, NEW j \in 1 .. m + n,
              b.ordered[j] \in Needs(b.ordered[i], edges)
       PROVE  j < i
  <2>1. CASE j \in 1 .. m /\ b.ordered[j] = s[j]
    <3>1. CASE i \in 1 .. m /\ b.ordered[i] = s[i]
      BY <1>9, <1>12, <2>1, <3>1
    <3>2. CASE i > m
      BY <1>5, <2>1, <3>2
    <3>. QED  BY <1>7, <3>1, <3>2
  <2>2. CASE j - m \in 1 .. n /\ b.ordered[j] = t[j - m]
    <3>1. b.ordered[j] \in a.pending
      BY <1>1, <1>4, <2>2
    <3>2. CASE i \in 1 .. m /\ b.ordered[i] = s[i]
      BY <1>9, <1>12, <3>1, <3>2
    <3>3. CASE i - m \in 1 .. n /\ b.ordered[i] = t[i - m]
      BY <1>1, <1>4, <1>12, <3>1, <3>3
    <3>. QED  BY <1>7, <3>2, <3>3
  <2>. QED  BY <1>7, <2>1, <2>2
<1>13. b.pending \subseteq modules
  BY <1>2 DEF LayersFit
<1>. QED  BY <1>6, <1>10, <1>11, <1>12, <1>13 DEF LayersFit, b

\* Every layer takes a module, while there are any.
LEMMA LayersEnd ==
  ASSUME NEW modules, IsFiniteSet(modules), NEW edges, Grounded(edges)
  PROVE  /\ Layers(modules, edges).pending = {}
         /\ LayersFit(Layers(modules, edges), modules, edges)
<1>. PICK N : N = Cardinality(modules)
  OBVIOUS
<1>1. N \in Nat
  BY FS_CardinalityType
<1>. DEFINE after == CHOOSE f : LayersUpTo(f, modules, edges, N)
<1>2. Layers(modules, edges) = after[N]
  BY DEF Layers, LayersUpTo, NextLayer
<1>3. LayersUpTo(after, modules, edges, N)
  BY <1>1, LayersExist
<1>. HIDE DEF after
<1>4. \A k \in 0 .. N : after[k] = IF k = 0 THEN [ordered |-> <<>>, pending |-> modules]
                                   ELSE NextLayer(after[k - 1], edges)
  BY <1>3 DEF LayersUpTo
<1>. DEFINE Fits(k) == /\ LayersFit(after[k], modules, edges)
                       /\ Cardinality(after[k].pending) <= N - k
            T == {k \in Nat : k <= N => Fits(k)}
<1>5. 0 \in T
  <2>1. after[0].ordered = <<>> /\ after[0].pending = modules
    BY <1>1, <1>4
  <2>2. <<>> \in Seq(modules) /\ 1 .. Len(<<>>) = {}
    OBVIOUS
  <2>3. LayersFit(after[0], modules, edges)
    BY <2>1, <2>2 DEF LayersFit
  <2>. QED  BY <1>1, <2>1, <2>3
<1>6. ASSUME NEW k \in Nat, k \in T  PROVE k + 1 \in T
  <2>. SUFFICES ASSUME k + 1 <= N  PROVE Fits(k + 1)
    OBVIOUS
  <2>1. k + 1 \in 0 .. N /\ (k + 1) - 1 = k /\ k + 1 # 0 /\ k <= N
    BY <1>1
  <2>2. after[k + 1] = NextLayer(after[k], edges) /\ Fits(k)
    BY <1>4, <1>6, <2>1
  <2>3. LayersFit(after[k + 1], modules, edges)
    BY <2>2, OneLayer
  <2>. PICK p, ready : p = after[k].pending /\ ready = NeedsNothing(p, edges)
    OBVIOUS
  <2>4. after[k + 1].pending = p \ ready /\ ready \subseteq p
    BY <2>2 DEF NextLayer, NeedsNothing
  <2>5. IsFiniteSet(p) /\ IsFiniteSet(p \ ready) /\ Cardinality(p) \in Nat /\ Cardinality(p) <= N - k
    BY <2>2, FS_Subset, FS_Difference, FS_CardinalityType DEF LayersFit
  <2>6. CASE p = {}
    <3>1. Cardinality(p \ ready) = 0
      BY <2>6, FS_EmptySet
    <3>. QED  BY <1>1, <2>1, <2>3, <2>4, <3>1
  <2>7. CASE p # {}
    <3>1. PICK m \in ready : TRUE
      BY <2>5, <2>7 DEF Grounded, NeedsNothing, Needs
    <3>2. p \ ready \subseteq p \ {m} /\ m \in p
      BY <2>4, <3>1
    <3>3. Cardinality(p \ {m}) = Cardinality(p) - 1 /\ IsFiniteSet(p \ {m})
      BY <2>5, <3>2, FS_RemoveElement
    <3>4. Cardinality(p \ ready) <= Cardinality(p) - 1 /\ Cardinality(p \ ready) \in Nat
      BY <2>5, <3>2, <3>3, FS_Subset, FS_CardinalityType
    <3>. QED  BY <1>1, <2>1, <2>3, <2>4, <2>5, <3>4
  <2>. QED  BY <2>6, <2>7
<1>7. Fits(N)
  <2>. HIDE DEF T
  <2>1. Nat \subseteq T
    BY <1>5, <1>6, Induction
  <2>2. N \in T /\ N <= N
    BY <1>1, <2>1
  <2>. QED  BY <2>2 DEF T
<1>8. after[N].pending = {}
  <2>1. IsFiniteSet(after[N].pending)
    BY <1>7, FS_Subset DEF LayersFit
  <2>2. Cardinality(after[N].pending) \in Nat /\ Cardinality(after[N].pending) <= 0
    BY <1>1, <1>7, <2>1, FS_CardinalityType
  <2>3. Cardinality(after[N].pending) = 0
    BY <2>2
  <2>. QED  BY <2>1, <2>3, FS_EmptySet
<1>. QED  BY <1>2, <1>7, <1>8

\* The calls are those of the service, which starts with finitely many modules
\* and no edges.
GraphIsServed ==
  /\ IsFiniteSet(Kind("module", Beginning(service))) /\ Kind("edge", Beginning(service)) = {}
  /\ \A d, n : Requests(service, d, n) \subseteq DefineRequests \cup RelateRequests(n) \cup ConfirmRequests
  /\ \A call : Designing(call) => /\ \A d : Reads(call, d) = ModuleReads(call, d) /\ ReadsLater(call, d) = {}
                                  /\ \A seen : Outcome(call, seen) = ModuleOutcome(call, seen)
                                  /\ ~Outside(call)

\* A call that is done adds a module, changes one, or adds an edge the edges it
\* read allow.
GraphGrows(o, edges) ==
  \/ o \in {Refused, Same}
  \/ \E k, value : o \in {Insert(ModuleRow(k), value), Update(ModuleRow(k), value)}
  \/ \E n, edge : o = Insert(EdgeRow(n), edge) /\ EdgeAllowed(edge, edges)

LEMMA GraphDecision ==
  ASSUME NEW call, Designing(call), NEW seen
  PROVE  GraphGrows(ModuleOutcome(call, seen), Edges(seen))
<1>1. CASE call.op = "define"
  BY <1>1 DEF ModuleOutcome, Define, GraphGrows
<1>2. CASE call.op = "relate"
  <2>1. ModuleOutcome(call, seen) = Relate(call, seen)
    BY <1>2 DEF ModuleOutcome
  <2>. QED  BY <2>1 DEF Relate, GraphGrows
<1>3. CASE call.op = "confirm module"
  <2>1. ModuleOutcome(call, seen) = ConfirmModule(call, seen)
    BY <1>3 DEF ModuleOutcome
  <2>. QED  BY <2>1 DEF ConfirmModule, GraphGrows
<1>. QED  BY <1>1, <1>2, <1>3 DEF Designing

\* The build order can be computed, and nobody shares an ownership.
GraphIsSound(d) ==
  IsFiniteSet(Kind("module", d)) /\ Grounded(Edges(d)) /\ OneOwner(Edges(d))

LEMMA GraphStaysSound ==
  ASSUME NEW d, GraphIsSound(d), NEW o, o.verdict = "done", GraphGrows(o, Edges(d)),
         DOMAIN o.inserts \cap DOMAIN d = {}, NEW e, e = Written(d, o)
  PROVE  GraphIsSound(e)
<1>0. ASSUME NEW ups, \A r \in DOMAIN ups : r[1] = "module", Leaves(d, NoRows, ups, e)
      PROVE  GraphIsSound(e)
  <2>1. DOMAIN e = DOMAIN d /\ \A r \in Kind("edge", d) : e[r] = d[r]
    BY <1>0, Singles DEF Leaves, Kind
  <2>2. Kind("module", e) = Kind("module", d) /\ Edges(e) = Edges(d)
    BY <2>1 DEF Kind, Edges
  <2>. QED  BY <2>2 DEF GraphIsSound
<1>1. CASE o \in {Refused, Same}
  <2>1. o = Writes(NoRows, NoRows, Nothing)
    BY <1>1, Decisions DEF Same
  <2>2. Leaves(d, NoRows, NoRows, e)
    BY <2>1, Singles, RowsAfter
  <2>. QED  BY <1>0, <2>2, Singles
<1>2. CASE \E k, value : o = Update(ModuleRow(k), value)
  <2>0. PICK k, value : o = Update(ModuleRow(k), value)
    BY <1>2
  <2>. PICK ups : ups = One(ModuleRow(k), value)
    OBVIOUS
  <2>1. o = Writes(NoRows, ups, Nothing) /\ DOMAIN ups = {ModuleRow(k)}
    BY <2>0, Singles DEF Update
  <2>2. Leaves(d, NoRows, ups, e)
    BY <2>1, Singles, RowsAfter
  <2>. QED  BY <1>0, <2>1, <2>2 DEF ModuleRow
<1>3. CASE \E k, value : o = Insert(ModuleRow(k), value)
  <2>0. PICK k, value : o = Insert(ModuleRow(k), value)
    BY <1>3
  <2>. PICK ins : ins = One(ModuleRow(k), value)
    OBVIOUS
  <2>1. o = Writes(ins, NoRows, Nothing) /\ DOMAIN ins = {ModuleRow(k)}
    BY <2>0, Singles DEF Insert
  <2>2. o.inserts = ins
    BY <2>1, Decisions
  <2>3. Leaves(d, ins, NoRows, e)
    BY <2>1, <2>2, RowsAfter
  <2>4. DOMAIN e = DOMAIN d \cup {ModuleRow(k)} /\ \A r \in DOMAIN d : e[r] = d[r]
    BY <2>1, <2>3, Singles DEF Leaves
  <2>5. Kind("module", e) = Kind("module", d) \cup {ModuleRow(k)} /\ Edges(e) = Edges(d)
    BY <2>4 DEF Kind, Edges, ModuleRow
  <2>. QED  BY <2>5, FS_AddElement DEF GraphIsSound
<1>4. CASE \E n, edge : o = Insert(EdgeRow(n), edge) /\ EdgeAllowed(edge, Edges(d))
  <2>0. PICK n, edge : o = Insert(EdgeRow(n), edge) /\ EdgeAllowed(edge, Edges(d))
    BY <1>4
  <2>. PICK ins : ins = One(EdgeRow(n), edge)
    OBVIOUS
  <2>1. /\ o = Writes(ins, NoRows, Nothing) /\ EdgeAllowed(edge, Edges(d))
        /\ DOMAIN ins = {EdgeRow(n)} /\ ins[EdgeRow(n)] = edge
    BY <2>0, Singles DEF Insert
  <2>2. o.inserts = ins
    BY <2>1, Decisions
  <2>3. Leaves(d, ins, NoRows, e)
    BY <2>1, <2>2, RowsAfter
  <2>4. /\ DOMAIN e = DOMAIN d \cup {EdgeRow(n)} /\ e[EdgeRow(n)] = edge
        /\ \A r \in DOMAIN d : e[r] = d[r]
    BY <2>1, <2>3, Singles DEF Leaves
  <2>5. Kind("module", e) = Kind("module", d) /\ Edges(e) = Edges(d) \cup {edge}
    BY <2>4 DEF Kind, Edges, EdgeRow
  <2>. QED  BY <2>1, <2>5, EdgeKeeps DEF GraphIsSound
<1>. QED  BY <1>1, <1>2, <1>3, <1>4 DEF GraphGrows

GraphFits ==
  /\ CallsShaped
  /\ \A c \in Caller : calls[c].call # Nothing => Designing(calls[c].call)
  /\ Serializable => GraphIsSound(tables)

LEMMA GraphStaysFit ==
  ASSUME GraphIsServed, GraphFits, [Next]_vars
  PROVE  GraphFits'
<1>1. CASE UNCHANGED vars
  BY <1>1 DEF GraphFits, vars, CallsShaped, Serializable
<1>2. ASSUME NEW c \in Caller, Steps(c)
      PROVE  GraphFits'
  <2>. SUFFICES /\ calls'[c].call # Nothing => Designing(calls'[c].call)
                /\ Serializable /\ GraphIsSound(tables) => GraphIsSound(tables')
    BY <1>2 DEF GraphFits, Steps, Serializable
  <2>1. tables' = tables => (GraphIsSound(tables) => GraphIsSound(tables'))
    OBVIOUS
  <2>2. ASSUME NEW call, Turns(c, call), call # Nothing => Designing(call)
        PROVE  calls'[c].call # Nothing => Designing(calls'[c].call)
    BY <2>2, Fields DEF Turns, Resumed
  <2>3. CASE \E call \in Requests(service, tables, made + 1) : Turns(c, call)
    <3>1. PICK call \in Requests(service, tables, made + 1) : Turns(c, call)
      BY <2>3
    <3>2. Designing(call)
      <4>1. call \in DefineRequests \cup RelateRequests(made + 1) \cup ConfirmRequests
        BY <3>1 DEF GraphFits, GraphIsServed
      <4>. QED  BY <4>1 DEF DefineRequests, RelateRequests, ConfirmRequests, Designing
    <3>. QED  BY <2>1, <2>2, <3>1, <3>2 DEF Turns
  <2>4. CASE GoesOn(c)
    BY <2>1, <2>4 DEF GraphFits, GoesOn
  <2>5. CASE Turns(c, Nothing) \/ (calls[c].phase # "idle" /\ Turns(c, calls[c].call))
    BY <2>1, <2>2, <2>5 DEF GraphFits, Turns
  <2>6. ASSUME Is(c, "deciding")
        PROVE  /\ Designing(calls[c].call) /\ GraphGrows(Decided(c), Edges(calls[c].seen))
               /\ Decided(c).verdict = "done" => Decided(c).then = Nothing /\ Decided(c).clash = Nothing
    <3>1. Designing(calls[c].call)
      BY <2>6 DEF GraphFits, CallsShaped, Is
    <3>2. GraphGrows(Decided(c), Edges(calls[c].seen))
      BY <3>1, GraphDecision DEF GraphIsServed, Decided
    <3>3. \A o, edges : GraphGrows(o, edges) /\ o.verdict = "done" => o.then = Nothing /\ o.clash = Nothing
      BY Decisions DEF GraphGrows, Insert, Update, Same
    <3>. QED  BY <3>1, <3>2, <3>3
  <2>7. CASE Is(c, "deciding") /\ Decided(c).verdict = "done" /\ Turns(c, Decided(c).clash)
    BY <2>1, <2>2, <2>6, <2>7 DEF Turns
  <2>8. CASE Commit(c) /\ calls'[c] = Resumed(Decided(c).then)
    <3>1. calls'[c].call = Nothing
      BY <2>6, <2>8, Fields DEF Commit, Resumed
    <3>2. ASSUME Serializable, GraphIsSound(tables)  PROVE GraphIsSound(tables')
      <4>1. Designing(calls[c].call) /\ GraphGrows(Decided(c), Edges(calls[c].seen))
        BY <2>6, <2>8 DEF Commit
      <4>2. /\ calls[c].seen = Only(ModuleReads(calls[c].call, tables), tables)
            /\ DOMAIN Decided(c).inserts \cap DOMAIN tables = {}
            /\ Decided(c).verdict = "done" /\ tables' = Written(tables, Decided(c))
        BY <2>8, <3>2, <4>1, CommitsOnWhatIsThere DEF GraphIsServed
      <4>3. GraphGrows(Decided(c), Edges(tables))
        <5>1. CASE calls[c].call.op = "relate"
          <6>1. Edges(calls[c].seen) = Edges(tables)
            BY <4>2, <5>1 DEF ModuleReads, Only, Edges, Kind, ModuleRow
          <6>. QED  BY <4>1, <6>1
        <5>2. CASE calls[c].call.op # "relate"
          <6>1. Decided(c) = ModuleOutcome(calls[c].call, calls[c].seen)
            BY <4>1 DEF GraphIsServed, Decided
          <6>. QED  BY <4>1, <5>2, <6>1 DEF Designing, ModuleOutcome, Define, ConfirmModule, GraphGrows
        <5>. QED  BY <5>1, <5>2
      <4>. QED  BY <3>2, <4>2, <4>3, GraphStaysSound
    <3>. QED  BY <3>1, <3>2
  <2>. QED  BY <1>2, <2>3, <2>4, <2>5, <2>7, <2>8, Reading DEF Steps
<1>. QED  BY <1>1, <1>2, EveryStep DEF GraphFits

LEMMA GraphFitsAtFirst ==
  ASSUME GraphIsServed, Init
  PROVE  GraphFits
<1>1. CallsShaped /\ \A c \in Caller : calls[c].call = Nothing
  BY Fields DEF Init, CallsShaped
<1>2. IsFiniteSet(Kind("module", tables)) /\ Edges(tables) = {}
  BY DEF Init, GraphIsServed, Edges
<1>3. \A m : Needs(m, {}) = {}
  BY DEF Needs, Outgoing
<1>4. GraphIsSound(tables)
  BY <1>2, <1>3 DEF GraphIsSound, Grounded, OneOwner
<1>. QED  BY <1>1, <1>4 DEF Init, GraphFits

LEMMA AnswersOfGraph ==
  ASSUME GraphIsSound(tables)
  PROVE  GraphAnswers
<1>. DEFINE modules == {r[2] : r \in Kind("module", tables)}
            edges == Edges(tables)
            layers == Layers(modules, edges)
<1>1. IsFiniteSet(modules)
  <2>. DEFINE f == [r \in Kind("module", tables) |-> r[2]]
  <2>1. f \in Surjection(Kind("module", tables), modules)
    BY DEF Surjection
  <2>. QED  BY <2>1, FS_Surjection DEF GraphIsSound
<1>2. Grounded(edges) /\ OneOwner(edges)
  BY DEF GraphIsSound
<1>. PICK order : order = BuildOrder(tables)
  OBVIOUS
<1>3. layers.pending = {} /\ order = layers.ordered /\ LayersFit(layers, modules, edges)
  BY <1>1, <1>2, LayersEnd DEF BuildOrder
<1>. HIDE DEF modules, edges, layers
<1>4. /\ order \in Seq(modules) /\ DOMAIN order = 1 .. Len(order)
      /\ \A m \in modules : \E i \in 1 .. Len(order) : order[i] = m
      /\ \A i, j \in 1 .. Len(order) : order[j] \in Needs(order[i], edges) => j < i
  <2>1. order \in Seq(modules)
    BY <1>3 DEF LayersFit
  <2>2. DOMAIN order = 1 .. Len(order)
    BY <2>1, LenProperties
  <2>3. \A m \in modules : \E i \in 1 .. Len(order) : order[i] = m
    BY <1>3, Zenon DEF LayersFit
  <2>4. \A i, j \in 1 .. Len(order) : order[j] \in Needs(order[i], edges) => j < i
    BY <1>3, Zenon DEF LayersFit
  <2>. QED  BY <2>1, <2>2, <2>3, <2>4
<1>5. ToSet(order) = modules
  BY <1>4 DEF ToSet
<1>. QED  BY <1>2, <1>4, <1>5 DEF GraphAnswers, Needs, OneOwner, modules, edges

-----------------------------------------------------------------------------
(* Histories of reported statuses (Classification)                         *)

RecordFields == {"message", "version", "subject", "reported", "current", "type", "state", "settled", "at"}
RecordsOf(m, v, d) == {r \in Kind("update", d) : d[r].message = m /\ d[r].version = v}

\* The settlements of a record, after what it began with.
Led(settled) == <<<<Nothing, "proposed", Nothing>>>> \o settled
WellSettled(row) ==
  /\ \E S : row.settled \in Seq(S)
  /\ row.state = Led(row.settled)[Len(Led(row.settled))][2]
  /\ \A i \in 1 .. Len(row.settled) : row.settled[i][1] = Led(row.settled)[i][2]

\* The records of its subject that reported a status before it.
ToldBefore(r, d) == {s \in Updates(d[r].subject, d) : d[s].at < d[r].at /\ d[s].reported # Nothing}
Continues(r, d) ==
  d[r].subject # Nothing =>
    \/ ToldBefore(r, d) = {} /\ d[r].current = Nothing
    \/ \E s \in ToldBefore(r, d) : /\ d[r].current = d[s].reported
                                   /\ \A q \in ToldBefore(r, d) : d[q].at <= d[s].at
Chained(d) ==
  /\ IsFiniteSet(Kind("update", d))
  /\ \A r \in Kind("update", d) : /\ d[r].at \in Nat /\ d[r].at <= Cardinality(Kind("update", d))
                                  /\ Continues(r, d) /\ WellSettled(d[r])

LEMMA Leading ==
  ASSUME NEW S, NEW s \in Seq(S)
  PROVE  /\ Len(Led(s)) = Len(s) + 1 /\ Len(s) \in Nat /\ Led(s)[1] = <<Nothing, "proposed", Nothing>>
         /\ \A i \in 1 .. Len(s) : Led(s)[i + 1] = s[i]
<1>. PICK x, f, T, n : /\ x = <<Nothing, "proposed", Nothing>> /\ f = <<x>>
                       /\ T = S \cup {x} /\ n = Len(s)
  OBVIOUS
<1>1. s \in Seq(T) /\ f \in Seq(T) /\ Len(f) = 1 /\ f[1] = x
  BY SeqMonotonic
<1>2. n \in Nat
  BY LenProperties
<1>. PICK a : a = f \o s
  OBVIOUS
<1>3. a = Led(s)
  BY DEF Led
<1>4. Len(a) = 1 + n /\ \A i \in 1 .. 1 + n : a[i] = IF i <= 1 THEN f[i] ELSE s[i - 1]
  BY <1>1, Joining DEF IsJoin
<1>5. \A i \in 1 .. n : i + 1 \in 1 .. 1 + n /\ ~(i + 1 <= 1) /\ (i + 1) - 1 = i
  BY <1>2
<1>6. \A i \in 1 .. n : a[i + 1] = s[(i + 1) - 1]
  BY <1>4, <1>5
<1>7. a[1] = f[1] /\ 1 + n = n + 1
  BY <1>2, <1>4
<1>. QED  BY <1>1, <1>2, <1>3, <1>4, <1>5, <1>6, <1>7

\* A settlement that starts from the state a record is in goes on from its last.
LEMMA Settling ==
  ASSUME NEW row, WellSettled(row), NEW new, NEW target, NEW by, new.state = target,
         new.settled = Append(row.settled, <<row.state, target, by>>)
  PROVE  WellSettled(new)
<1>. PICK S : row.settled \in Seq(S)
  BY DEF WellSettled
<1>. PICK s, x, T, a, n : /\ s = row.settled /\ x = <<row.state, target, by>> /\ T = S \cup {x}
                          /\ a = Append(s, x) /\ n = Len(s)
  OBVIOUS
<1>1. s \in Seq(T) /\ x \in T
  BY SeqMonotonic
<1>2. a \in Seq(T) /\ Len(a) = n + 1 /\ a[n + 1] = x /\ \A i \in 1 .. n : a[i] = s[i]
  BY <1>1, AppendProperties
<1>3. /\ n \in Nat /\ Len(Led(s)) = n + 1 /\ Led(s)[1] = <<Nothing, "proposed", Nothing>>
      /\ \A i \in 1 .. n : Led(s)[i + 1] = s[i]
  BY <1>1, Leading
<1>4. /\ Len(Led(a)) = (n + 1) + 1 /\ Led(a)[1] = <<Nothing, "proposed", Nothing>>
      /\ \A i \in 1 .. n + 1 : Led(a)[i + 1] = a[i]
  <2>1. /\ Len(Led(a)) = Len(a) + 1 /\ Led(a)[1] = <<Nothing, "proposed", Nothing>>
        /\ \A i \in 1 .. Len(a) : Led(a)[i + 1] = a[i]
    <3>1. a \in Seq(T)
      BY <1>2
    <3>. QED  BY <3>1, Leading, Zenon
  <2>2. Len(a) = n + 1
    BY <1>2
  <2>. QED  BY <2>1, <2>2
<1>5. \A i \in 1 .. n + 1 : Led(a)[i] = Led(s)[i]
  <2>. SUFFICES ASSUME NEW i \in 1 .. n + 1, i # 1  PROVE Led(a)[i] = Led(s)[i]
    BY <1>3, <1>4
  <2>. PICK k : k = i - 1
    OBVIOUS
  <2>1. k \in 1 .. n /\ k \in 1 .. n + 1 /\ i = k + 1
    BY <1>3
  <2>2. Led(a)[k + 1] = a[k] /\ Led(s)[k + 1] = s[k] /\ a[k] = s[k]
    BY <1>2, <1>3, <1>4, <2>1
  <2>. QED  BY <2>1, <2>2
<1>6. Led(a)[(n + 1) + 1] = x /\ x[2] = target /\ x[1] = row.state
  <2>1. n + 1 \in 1 .. n + 1
    BY <1>3
  <2>. QED  BY <1>2, <1>4, <2>1
<1>7. row.state = Led(s)[n + 1][2] /\ \A i \in 1 .. n : s[i][1] = Led(s)[i][2]
  BY <1>3 DEF WellSettled
<1>8. \A i \in 1 .. n + 1 : a[i][1] = Led(a)[i][2]
  <2>. SUFFICES ASSUME NEW i \in 1 .. n + 1  PROVE a[i][1] = Led(s)[i][2]
    BY <1>5
  <2>1. i \in 1 .. n \/ i = n + 1
    BY <1>3
  <2>2. CASE i \in 1 .. n
    BY <1>2, <1>7, <2>2
  <2>3. CASE i = n + 1
    BY <1>2, <1>6, <1>7, <2>3
  <2>. QED  BY <2>1, <2>2, <2>3
<1>9. /\ new.settled = a /\ a \in Seq(T) /\ Len(a) = n + 1
      /\ new.state = Led(a)[Len(Led(a))][2]
  BY <1>2, <1>4, <1>6
<1>. QED  BY <1>8, <1>9, Zenon DEF WellSettled

\* What is not in the histories may change.
LEMMA ChainedAlike ==
  ASSUME NEW d, Chained(d), NEW e, Kind("update", e) = Kind("update", d),
         \A r \in Kind("update", d) : /\ e[r].subject = d[r].subject /\ e[r].reported = d[r].reported
                                      /\ e[r].current = d[r].current /\ e[r].at = d[r].at
                                      /\ WellSettled(e[r])
  PROVE  Chained(e)
<1>1. ASSUME NEW r \in Kind("update", d)  PROVE Continues(r, e)
  <2>1. ToldBefore(r, e) = ToldBefore(r, d) /\ ToldBefore(r, d) \subseteq Kind("update", d)
    BY DEF ToldBefore, Updates
  <2>2. Continues(r, d)
    BY DEF Chained
  <2>. QED  BY <2>1, <2>2 DEF Continues
<1>. QED  BY <1>1 DEF Chained

LEMMA TheLastOne ==
  ASSUME NEW d, NEW known, NEW n \in Nat, known # {},
         \A r \in known : d[r].at \in Nat /\ d[r].at <= n
  PROVE  \E r \in known : \A s \in known : d[s].at <= d[r].at
<1>. DEFINE T == {k \in Nat : \E r \in known : k = n - d[r].at}
<1>1. \A r \in known : n - d[r].at \in T
  OBVIOUS
<1>2. T # {} /\ T \subseteq Nat
  BY <1>1
<1>3. PICK k \in T : \A j \in T : k <= j
  BY <1>2, LeastOf
<1>4. PICK r \in known : k = n - d[r].at
  OBVIOUS
<1>. HIDE DEF T
<1>5. \A s \in known : n - d[r].at <= n - d[s].at
  BY <1>1, <1>3, <1>4
<1>. QED  BY <1>5

\* A record made of what the others report continues them.
LEMMA OneMoreRecord ==
  ASSUME NEW d, Chained(d), NEW r, r[1] = "update", r \notin DOMAIN d, NEW span, NEW call,
         NEW e, e = Over(One(r, RecordAfter(span, call, d)), d)
  PROVE  Chained(e)
<1>. PICK rec, n : rec = RecordAfter(span, call, d) /\ n = Cardinality(Kind("update", d))
  OBVIOUS
<1>1. n \in Nat /\ \A q \in Kind("update", d) : d[q].at \in Nat /\ d[q].at <= n
  BY FS_CardinalityType DEF Chained
<1>2. /\ rec.subject = span.subject /\ rec.reported = span.status /\ rec.at = n + 1
      /\ rec.state = "proposed" /\ rec.settled = <<>>
      /\ rec.current = IF span.subject = Nothing THEN Nothing ELSE LatestStatus(span.subject, d)
  BY DEF RecordAfter, OperationalRecord
<1>3. DOMAIN e = DOMAIN d \cup {r} /\ e[r] = rec /\ \A q \in DOMAIN d : e[q] = d[q]
  <2>. PICK one : one = One(r, rec)
    OBVIOUS
  <2>1. DOMAIN one = {r} /\ one[r] = rec /\ e = Over(one, d)
    BY Singles
  <2>. QED  BY <2>1 DEF Over
<1>4. Kind("update", e) = Kind("update", d) \cup {r} /\ r \notin Kind("update", d)
  BY <1>3 DEF Kind
<1>5. IsFiniteSet(Kind("update", e)) /\ Cardinality(Kind("update", e)) = n + 1
  BY <1>4, FS_AddElement DEF Chained
<1>6. \A q \in Kind("update", d) : e[q] = d[q]
  BY <1>3 DEF Kind
<1>7. ASSUME NEW q \in Kind("update", d)  PROVE Continues(q, e)
  <2>1. ToldBefore(q, e) = ToldBefore(q, d) /\ ToldBefore(q, d) \subseteq Kind("update", d)
    <3>1. ~(e[r].at < e[q].at)
      BY <1>1, <1>2, <1>3, <1>6
    <3>. QED  BY <1>4, <1>6, <3>1 DEF ToldBefore, Updates
  <2>2. Continues(q, d)
    BY DEF Chained
  <2>. QED  BY <1>6, <2>1, <2>2 DEF Continues
<1>8. Continues(r, e)
  <2>. SUFFICES ASSUME span.subject # Nothing  PROVE Continues(r, e)
    BY <1>2, <1>3 DEF Continues
  <2>. PICK known : known = {q \in Updates(span.subject, d) : d[q].reported # Nothing}
    OBVIOUS
  <2>1. known \subseteq Kind("update", d)
    BY DEF Updates
  <2>2. ToldBefore(r, e) = known
    <3>1. \A q \in Kind("update", d) : e[q].at < e[r].at
      BY <1>1, <1>2, <1>3, <1>6
    <3>2. ~(e[r].at < e[r].at)
      BY <1>1, <1>2, <1>3
    <3>. QED  BY <1>2, <1>3, <1>4, <1>6, <3>1, <3>2 DEF ToldBefore, Updates
  <2>3. CASE known = {}
    <3>1. LatestStatus(span.subject, d) = Nothing
      BY <2>3 DEF LatestStatus
    <3>. QED  BY <1>2, <1>3, <2>2, <2>3, <3>1 DEF Continues
  <2>4. CASE known # {}
    <3>1. PICK s : s = CHOOSE q \in known : \A p \in known : d[p].at <= d[q].at
      OBVIOUS
    <3>2. LatestStatus(span.subject, d) = d[s].reported
      BY <2>4, <3>1 DEF LatestStatus
    <3>3. \E q \in known : \A p \in known : d[p].at <= d[q].at
      BY <1>1, <2>1, <2>4, TheLastOne
    <3>4. s \in known /\ \A p \in known : d[p].at <= d[s].at
      BY <3>1, <3>3
    <3>5. \A p \in known : e[p] = d[p]
      BY <1>6, <2>1
    <3>. QED  BY <1>2, <1>3, <2>2, <3>2, <3>4, <3>5 DEF Continues
  <2>. QED  BY <2>3, <2>4
<1>9. WellSettled(rec)
  <2>1. <<>> \in Seq({}) /\ Len(<<>>) = 0
    BY EmptySeq
  <2>. PICK z : z = rec.settled
    OBVIOUS
  <2>2. z \in Seq({}) /\ Len(z) = 0 /\ 1 .. Len(z) = {}
    BY <1>2, <2>1
  <2>3. Len(Led(z)) = Len(z) + 1 /\ Led(z)[1] = <<Nothing, "proposed", Nothing>>
    BY <2>2, Leading
  <2>4. Len(Led(z)) = 1
    BY <2>2, <2>3
  <2>. QED  BY <1>2, <2>2, <2>3, <2>4 DEF WellSettled
<1>10. ASSUME NEW q \in Kind("update", e)
       PROVE  e[q].at \in Nat /\ e[q].at <= n + 1 /\ WellSettled(e[q])
  <2>1. CASE q = r
    BY <1>1, <1>2, <1>3, <1>9, <2>1
  <2>2. CASE q \in Kind("update", d)
    BY <1>1, <1>6, <2>2 DEF Chained
  <2>. QED  BY <1>4, <2>1, <2>2
<1>. QED  BY <1>4, <1>5, <1>7, <1>8, <1>10 DEF Chained

\* The records of the first n spans, as Recorded builds them.
AfterSpan(before, call, d, n) ==
  LET span == Finds[call.version][call.message][n]
  IN IF Implies(span)
     THEN Over(One(UpdateRow(call.id, n), RecordAfter(span, call, Over(before, d))), before)
     ELSE before
RecordsUpTo(first, call, d, n) ==
  first = [k \in 0 .. n |-> IF k = 0 THEN NoRows ELSE AfterSpan(first[k - 1], call, d, k)]

LEMMA RecordsExist ==
  ASSUME NEW call, NEW d
  PROVE  \A n \in Nat : \E first : RecordsUpTo(first, call, d, n)
<1>. DEFINE T == {n \in Nat : \E first : RecordsUpTo(first, call, d, n)}
<1>1. 0 \in T
  <2>. DEFINE f == [k \in 0 .. 0 |-> NoRows]
  <2>1. RecordsUpTo(f, call, d, 0)
    BY DEF RecordsUpTo
  <2>. QED  BY <2>1
<1>2. ASSUME NEW n \in Nat, n \in T  PROVE n + 1 \in T
  <2>1. PICK f : RecordsUpTo(f, call, d, n)
    BY <1>2
  <2>. DEFINE g == [k \in 0 .. n + 1 |-> IF k = n + 1 THEN AfterSpan(f[n], call, d, n + 1) ELSE f[k]]
  <2>2. \A k \in 0 .. n : f[k] = IF k = 0 THEN NoRows ELSE AfterSpan(f[k - 1], call, d, k)
    BY <2>1 DEF RecordsUpTo
  <2>3. \A k \in 0 .. n + 1 : g[k] = IF k = 0 THEN NoRows ELSE AfterSpan(g[k - 1], call, d, k)
    <3>. SUFFICES ASSUME NEW k \in 0 .. n + 1
                  PROVE  g[k] = IF k = 0 THEN NoRows ELSE AfterSpan(g[k - 1], call, d, k)
      OBVIOUS
    <3>1. CASE k = n + 1
      <4>1. k - 1 = n /\ n \in 0 .. n + 1 /\ k # 0 /\ n # n + 1
        BY <3>1
      <4>2. g[n] = f[n] /\ g[k] = AfterSpan(f[n], call, d, k)
        BY <3>1, <4>1
      <4>. QED  BY <4>1, <4>2
    <3>2. CASE k # n + 1
      <4>1. k \in 0 .. n /\ (k # 0 => k - 1 \in 0 .. n + 1 /\ k - 1 # n + 1)
        BY <3>2
      <4>. QED  BY <2>2, <3>2, <4>1
    <3>. QED  BY <3>1, <3>2
  <2>4. RecordsUpTo(g, call, d, n + 1)
    BY <2>3 DEF RecordsUpTo
  <2>. QED  BY <2>4
<1>. HIDE DEF T
<1>3. Nat \subseteq T
  BY <1>1, <1>2, Induction
<1>. QED  BY <1>3 DEF T

\* The spans of a reading that imply a record, and the rows of those records.
Implying(call) ==
  {i \in DOMAIN Finds[call.version][call.message] : Implies(Finds[call.version][call.message][i])}
RecordRows(call, n) == {UpdateRow(call.id, i) : i \in {j \in Implying(call) : j <= n}}

\* One record for each such span, and a history that goes on, if the rows are new.
RecordsFit(rows, call, d, n) ==
  /\ DOMAIN rows = RecordRows(call, n)
  /\ \A r \in DOMAIN rows : /\ RecordFields \subseteq DOMAIN rows[r]
                            /\ rows[r].message = call.message /\ rows[r].version = call.version
  /\ Chained(d) /\ (\A i \in Implying(call) : UpdateRow(call.id, i) \notin DOMAIN d) =>
       Chained(Over(rows, d))

LEMMA OneSpan ==
  ASSUME NEW call, NEW d, NEW n \in Nat, n + 1 \in DOMAIN Finds[call.version][call.message],
         DOMAIN Finds[call.version][call.message] \subseteq Nat,
         NEW rows, RecordsFit(rows, call, d, n)
  PROVE  RecordsFit(AfterSpan(rows, call, d, n + 1), call, d, n + 1)
<1>. PICK k, span, r : /\ k = n + 1 /\ span = Finds[call.version][call.message][k]
                       /\ r = UpdateRow(call.id, k)
  OBVIOUS
<1>. PICK more : more = AfterSpan(rows, call, d, k)
  OBVIOUS
<1>1. \A j \in Implying(call) : j <= k <=> (j <= n \/ j = k)
  BY DEF Implying
<1>2. CASE ~Implies(span)
  <2>1. more = rows
    BY <1>2 DEF AfterSpan
  <2>2. k \notin Implying(call)
    BY <1>2 DEF Implying
  <2>3. RecordRows(call, k) = RecordRows(call, n)
    BY <1>1, <2>2 DEF RecordRows
  <2>. QED  BY <2>1, <2>3 DEF RecordsFit
<1>3. CASE Implies(span)
  <2>. PICK rec, one : rec = RecordAfter(span, call, Over(rows, d)) /\ one = One(r, rec)
    OBVIOUS
  <2>1. more = Over(one, rows)
    BY <1>3 DEF AfterSpan
  <2>2. DOMAIN one = {r} /\ one[r] = rec
    BY Singles
  <2>3. k \in Implying(call)
    BY <1>3 DEF Implying
  <2>4. RecordRows(call, k) = RecordRows(call, n) \cup {r}
    BY <1>1, <2>3 DEF RecordRows
  <2>5. r \notin RecordRows(call, n)
    BY DEF RecordRows, UpdateRow
  <2>6. DOMAIN more = RecordRows(call, k)
    BY <2>1, <2>2, <2>4 DEF RecordsFit, Over
  <2>7. more[r] = rec /\ \A q \in DOMAIN rows : more[q] = rows[q]
    BY <2>1, <2>2, <2>5 DEF RecordsFit, Over
  <2>8. DOMAIN rec = RecordFields /\ rec.message = call.message /\ rec.version = call.version
    BY DEF RecordAfter, OperationalRecord, RecordFields
  <2>9. ASSUME NEW q \in DOMAIN more
        PROVE  /\ RecordFields \subseteq DOMAIN more[q]
               /\ more[q].message = call.message /\ more[q].version = call.version
    <3>1. CASE q = r
      BY <2>7, <2>8, <3>1
    <3>2. CASE q \in DOMAIN rows
      BY <2>7, <3>2 DEF RecordsFit
    <3>. QED  BY <2>4, <2>6, <3>1, <3>2 DEF RecordsFit
  <2>10. ASSUME Chained(d), \A i \in Implying(call) : UpdateRow(call.id, i) \notin DOMAIN d
         PROVE  Chained(Over(more, d))
    <3>. PICK e, f : e = Over(rows, d) /\ f = Over(more, d)
      OBVIOUS
    <3>1. Chained(e)
      BY <2>10 DEF RecordsFit
    <3>2. r \notin DOMAIN e /\ r[1] = "update"
      BY <2>3, <2>5, <2>10 DEF RecordsFit, Over, UpdateRow
    <3>. PICK g : g = Over(one, e)
      OBVIOUS
    <3>3. Chained(g)
      BY <3>1, <3>2, OneMoreRecord
    <3>4. DOMAIN f = DOMAIN g
      BY <2>1 DEF Over
    <3>5. ASSUME NEW q \in DOMAIN f  PROVE f[q] = g[q]
      <4>1. CASE q = r
        <5>1. f[q] = more[q] /\ g[q] = one[q]
          BY <2>2, <2>4, <2>6, <4>1 DEF Over
        <5>. QED  BY <2>2, <2>7, <4>1, <5>1
      <4>2. CASE q \in DOMAIN rows /\ q # r
        <5>1. f[q] = more[q] /\ g[q] = e[q] /\ e[q] = rows[q]
          BY <2>1, <2>2, <4>2 DEF Over
        <5>. QED  BY <2>7, <4>2, <5>1
      <4>3. CASE q \notin DOMAIN rows /\ q # r
        BY <2>1, <2>2, <4>3 DEF Over
      <4>. QED  BY <4>1, <4>2, <4>3
    <3>6. Kind("update", f) = Kind("update", g) /\ \A q \in Kind("update", g) : f[q] = g[q]
      BY <3>4, <3>5 DEF Kind
    <3>7. \A q \in Kind("update", g) : WellSettled(g[q])
      BY <3>3 DEF Chained
    <3>8. Chained(f)
      BY <3>3, <3>6, <3>7, ChainedAlike
    <3>. QED  BY <3>8
  <2>. QED  BY <2>6, <2>9, <2>10 DEF RecordsFit
<1>. QED  BY <1>2, <1>3

LEMMA AllSpans ==
  ASSUME NEW call, NEW d, NEW N \in Nat, N = Len(Finds[call.version][call.message]),
         DOMAIN Finds[call.version][call.message] = 1 .. N
  PROVE  RecordsFit(Recorded(call, d), call, d, N)
<1>. DEFINE first == CHOOSE f : RecordsUpTo(f, call, d, N)
<1>1. Recorded(call, d) = first[N]
  BY DEF Recorded, RecordsUpTo, AfterSpan
<1>2. RecordsUpTo(first, call, d, N)
  BY RecordsExist
<1>. HIDE DEF first
<1>3. \A k \in 0 .. N : first[k] = IF k = 0 THEN NoRows ELSE AfterSpan(first[k - 1], call, d, k)
  BY <1>2 DEF RecordsUpTo
<1>. DEFINE T == {k \in Nat : k <= N => RecordsFit(first[k], call, d, k)}
<1>4. 0 \in T
  <2>1. first[0] = NoRows /\ RecordRows(call, 0) = {}
    BY <1>3 DEF RecordRows, Implying
  <2>2. Over(NoRows, d) = [r \in DOMAIN d |-> d[r]]
    BY Singles DEF Over
  <2>3. Chained(d) => Chained([r \in DOMAIN d |-> d[r]])
    <3>. PICK e : e = [r \in DOMAIN d |-> d[r]]
      OBVIOUS
    <3>1. Kind("update", e) = Kind("update", d) /\ \A r \in Kind("update", d) : e[r] = d[r]
      BY DEF Kind
    <3>2. Chained(d) => \A r \in Kind("update", d) : WellSettled(d[r])
      BY DEF Chained
    <3>. QED  BY <3>1, <3>2, ChainedAlike
  <2>. QED  BY <2>1, <2>2, <2>3, Singles DEF RecordsFit
<1>5. ASSUME NEW k \in Nat, k \in T  PROVE k + 1 \in T
  <2>. SUFFICES ASSUME k + 1 <= N  PROVE RecordsFit(first[k + 1], call, d, k + 1)
    OBVIOUS
  <2>1. k + 1 \in 0 .. N /\ k + 1 \in 1 .. N /\ (k + 1) - 1 = k /\ k + 1 # 0 /\ k <= N
    OBVIOUS
  <2>2. first[k + 1] = AfterSpan(first[k], call, d, k + 1) /\ RecordsFit(first[k], call, d, k)
    BY <1>3, <1>5, <2>1
  <2>. QED  BY <2>1, <2>2, OneSpan
<1>. HIDE DEF T
<1>6. Nat \subseteq T
  BY <1>4, <1>5, Induction
<1>7. N \in T /\ N <= N
  BY <1>6
<1>. QED  BY <1>1, <1>7 DEF T

\* A version read a message whole, or not.
OnceOf(m, v, d) ==
  LET spans == Finds[v][m]
  IN \/ SpansOf(m, v, d) = {} /\ RecordsOf(m, v, d) = {}
     \/ /\ SpansOf(m, v, d) = {SpanRow(m, v, i) : i \in DOMAIN spans}
        /\ Cardinality(RecordsOf(m, v, d)) = Cardinality({i \in DOMAIN spans : Implies(spans[i])})
ReadingsFit(d) ==
  /\ \A r \in Kind("update", d) : RecordFields \subseteq DOMAIN d[r]
  /\ \A m \in Message, v \in Version : OnceOf(m, v, d)

\* What settling and superseding change says nothing of what was read.
LEMMA ReadingsStay ==
  ASSUME NEW d, ReadingsFit(d), NEW ups, NEW e, Leaves(d, NoRows, ups, e),
         \A r \in DOMAIN ups : DOMAIN ups[r] \subseteq {"retired", "state", "settled"}
  PROVE  /\ ReadingsFit(e) /\ Kind("update", e) = Kind("update", d)
         /\ \A r \in Kind("update", d) : \A b \in RecordFields :
              b \notin (IF r \in DOMAIN ups THEN DOMAIN ups[r] ELSE {}) => e[r][b] = d[r][b]
<1>1. DOMAIN e = DOMAIN d
  BY Singles DEF Leaves
<1>2. Kind("update", e) = Kind("update", d) /\ \A m, v : SpansOf(m, v, e) = SpansOf(m, v, d)
  BY <1>1 DEF Kind, SpansOf
<1>3. ASSUME NEW r \in Kind("update", d)
      PROVE  /\ RecordFields \subseteq DOMAIN e[r]
             /\ \A b \in RecordFields :
                  b \notin (IF r \in DOMAIN ups THEN DOMAIN ups[r] ELSE {}) => e[r][b] = d[r][b]
  <2>1. RecordFields \subseteq DOMAIN d[r]
    BY DEF ReadingsFit
  <2>2. CASE r \notin DOMAIN ups
    BY <2>1, <2>2 DEF Leaves, Kind
  <2>3. CASE r \in DOMAIN ups
    <3>1. e[r] = Over(ups[r], d[r])
      BY <2>3 DEF Leaves, Kind
    <3>. QED  BY <2>1, <2>3, <3>1 DEF Over
  <2>. QED  BY <2>2, <2>3
<1>4. \A r \in Kind("update", d) : e[r].message = d[r].message /\ e[r].version = d[r].version
  <2>. SUFFICES ASSUME NEW r \in Kind("update", d)
                PROVE  e[r].message = d[r].message /\ e[r].version = d[r].version
    OBVIOUS
  <2>1. "message" \in RecordFields /\ "version" \in RecordFields
    BY DEF RecordFields
  <2>2. /\ "message" \notin (IF r \in DOMAIN ups THEN DOMAIN ups[r] ELSE {})
        /\ "version" \notin (IF r \in DOMAIN ups THEN DOMAIN ups[r] ELSE {})
    OBVIOUS
  <2>. QED  BY <1>3, <2>1, <2>2
<1>5. \A m, v : RecordsOf(m, v, e) = RecordsOf(m, v, d)
  BY <1>2, <1>4 DEF RecordsOf
<1>6. \A m \in Message, v \in Version : OnceOf(m, v, e)
  BY <1>2, <1>5 DEF ReadingsFit, OnceOf
<1>. QED  BY <1>2, <1>3, <1>6 DEF ReadingsFit

\* A reading is recorded whole, and where none was.
LEMMA ReadingsAdded ==
  ASSUME NEW d, ReadingsFit(d), NEW call, NEW N \in Nat,
         DOMAIN Finds[call.version][call.message] = 1 .. N,
         NEW read, DOMAIN read = {SpanRow(call.message, call.version, i) : i \in 1 .. N},
         NEW rows, NEW seen, RecordsFit(rows, call, seen, N),
         NEW ins, ins = Over(read, rows), DOMAIN ins \cap DOMAIN d = {},
         NEW e, Leaves(d, ins, NoRows, e), call.message \in Message, call.version \in Version
  PROVE  /\ ReadingsFit(e)
         /\ Kind("update", e) = Kind("update", d) \cup DOMAIN rows
         /\ \A r \in Kind("update", d) : e[r] = d[r]
         /\ \A r \in DOMAIN rows : e[r] = rows[r]
<1>. PICK m, v : m = call.message /\ v = call.version
  OBVIOUS
<1>0. \A i \in Implying(call) : i <= N
  BY DEF Implying
<1>1. DOMAIN rows = {UpdateRow(call.id, i) : i \in Implying(call)}
  BY <1>0 DEF RecordsFit, RecordRows
<1>2. /\ \A r \in DOMAIN rows : r[1] = "update" /\ r \notin DOMAIN read
      /\ \A r \in DOMAIN read : r[1] = "span" /\ r[2] = m /\ r[3] = v
  BY <1>1 DEF UpdateRow, SpanRow
<1>3. /\ DOMAIN e = DOMAIN d \cup DOMAIN read \cup DOMAIN rows
      /\ \A r \in DOMAIN d : e[r] = d[r]
      /\ \A r \in DOMAIN rows : e[r] = rows[r]
  <2>1. DOMAIN ins = DOMAIN read \cup DOMAIN rows /\ \A r \in DOMAIN rows : ins[r] = rows[r]
    BY <1>2 DEF Over
  <2>. QED  BY <2>1, Singles DEF Leaves
<1>4. Kind("update", e) = Kind("update", d) \cup DOMAIN rows
  BY <1>2, <1>3 DEF Kind
<1>5. \A r \in Kind("update", d) : e[r] = d[r]
  BY <1>3 DEF Kind
<1>6. \A r \in Kind("update", e) : RecordFields \subseteq DOMAIN e[r]
  <2>. SUFFICES ASSUME NEW r \in Kind("update", e)  PROVE RecordFields \subseteq DOMAIN e[r]
    OBVIOUS
  <2>1. CASE r \in Kind("update", d)
    BY <1>5, <2>1 DEF ReadingsFit
  <2>2. CASE r \in DOMAIN rows
    BY <1>3, <2>2 DEF RecordsFit
  <2>. QED  BY <1>4, <2>1, <2>2
<1>7. /\ SpansOf(m, v, e) = SpansOf(m, v, d) \cup DOMAIN read
      /\ \A m2, v2 : ~(m2 = m /\ v2 = v) => SpansOf(m2, v2, e) = SpansOf(m2, v2, d)
  BY <1>2, <1>3 DEF SpansOf, Kind
<1>8. \A r \in DOMAIN rows : e[r].message = m /\ e[r].version = v
  BY <1>3 DEF RecordsFit
<1>9. /\ RecordsOf(m, v, e) = RecordsOf(m, v, d) \cup DOMAIN rows
      /\ \A m2, v2 : ~(m2 = m /\ v2 = v) => RecordsOf(m2, v2, e) = RecordsOf(m2, v2, d)
  BY <1>4, <1>5, <1>8 DEF RecordsOf
<1>10. Cardinality(DOMAIN rows) = Cardinality(Implying(call))
  <2>. DEFINE f == [i \in Implying(call) |-> UpdateRow(call.id, i)]
  <2>1. f \in Surjection(Implying(call), DOMAIN rows)
    BY <1>1 DEF Surjection
  <2>2. f \in Injection(Implying(call), DOMAIN rows)
    BY <1>1 DEF Injection, IsInjective, UpdateRow
  <2>3. IsFiniteSet(Implying(call))
    <3>1. IsFiniteSet(1 .. N) /\ Implying(call) \subseteq 1 .. N
      BY FS_Interval DEF Implying
    <3>. QED  BY <3>1, FS_Subset
  <2>. QED  BY <2>1, <2>2, <2>3, FS_Surjection
<1>11. OnceOf(m, v, e)
  <2>0. OnceOf(m, v, d)
    BY DEF ReadingsFit
  <2>1. CASE N = 0
    <3>1. DOMAIN read = {} /\ DOMAIN rows = {}
      BY <1>0, <1>1, <2>1 DEF Implying
    <3>2. SpansOf(m, v, e) = SpansOf(m, v, d) /\ RecordsOf(m, v, e) = RecordsOf(m, v, d)
      BY <1>7, <1>9, <3>1
    <3>. QED  BY <2>0, <3>2 DEF OnceOf
  <2>2. CASE N # 0
    <3>1. 1 \in 1 .. N
      BY <2>2
    <3>2. SpanRow(m, v, 1) \notin DOMAIN d
      BY <3>1 DEF Over
    <3>3. SpansOf(m, v, d) = {} /\ RecordsOf(m, v, d) = {}
      BY <2>0, <3>1, <3>2 DEF OnceOf, SpansOf, Kind
    <3>4. SpansOf(m, v, e) = DOMAIN read /\ RecordsOf(m, v, e) = DOMAIN rows
      BY <1>7, <1>9, <3>3
    <3>. QED  BY <1>10, <3>4 DEF OnceOf, Implying
  <2>. QED  BY <2>1, <2>2
<1>12. \A m2 \in Message, v2 \in Version : OnceOf(m2, v2, e)
  <2>. SUFFICES ASSUME NEW m2 \in Message, NEW v2 \in Version, ~(m2 = m /\ v2 = v)
                PROVE  OnceOf(m2, v2, e)
    BY <1>11
  <2>1. OnceOf(m2, v2, d)
    BY DEF ReadingsFit
  <2>2. SpansOf(m2, v2, e) = SpansOf(m2, v2, d) /\ RecordsOf(m2, v2, e) = RecordsOf(m2, v2, d)
    BY <1>7, <1>9
  <2>. QED  BY <2>1, <2>2 DEF OnceOf
<1>. QED  BY <1>3, <1>4, <1>5, <1>6, <1>12 DEF ReadingsFit

\* The calls are those of the service, which starts with nothing read, and what a
\* version finds in a message is a sequence.
ReadingIsServed ==
  /\ Kind("span", Beginning(service)) = {} /\ Kind("update", Beginning(service)) = {}
  /\ \A d, n : Requests(service, d, n) \subseteq ClassifyRequests(n) \cup SettleRequests(d)
  /\ \A call : Classifying(call) =>
       /\ \A d : Reads(call, d) = ClassificationReads(call, d) /\ ReadsLater(call, d) = {}
       /\ \A seen : Outcome(call, seen) = ClassificationOutcome(call, seen)
       /\ ~Outside(call)
  /\ \A v \in Version, m \in Message : \E S : Finds[v][m] \in Seq(S)

ReadingFields == {"op", "id", "message", "version"}
\* A call reads a message under a version, or settles a record.
ReadingCallFits(call) ==
  /\ Classifying(call)
  /\ call.op = "settle" => call.row[1] = "update"
  /\ call.op # "settle" => /\ DOMAIN call = ReadingFields
                           /\ call.message \in Message /\ call.version \in Version

\* A call changes what readings leave to change, or records a reading.
Touching(ups) == \A r \in DOMAIN ups : DOMAIN ups[r] \subseteq {"retired", "state", "settled"}
Retires(o) ==
  \E ups, then : /\ o = Writes(NoRows, ups, then) /\ (then = Nothing \/ ReadingCallFits(then))
                 /\ \A r \in DOMAIN ups : DOMAIN ups[r] \subseteq {"retired"}
SettlesOne(o, call, seen) ==
  \E new : /\ o = Update(call.row, Changed(new, seen[call.row])) /\ call.op = "settle"
           /\ DOMAIN new = {"state", "settled"} /\ call.row \in DOMAIN seen
           /\ new.settled = Append(seen[call.row].settled, <<seen[call.row].state, new.state, call.by>>)
ReadsWhole(o, call, seen) ==
  \E read : /\ o = Writes(Over(read, Recorded(call, seen)), NoRows, Nothing) /\ call.op = "persist"
            /\ DOMAIN read = {SpanRow(call.message, call.version, i) :
                                i \in DOMAIN Finds[call.version][call.message]}
ReadingAnswers(o, call, seen) ==
  o = Refused \/ Retires(o) \/ SettlesOne(o, call, seen) \/ ReadsWhole(o, call, seen)

LEMMA ReadingDecision ==
  ASSUME NEW call, ReadingCallFits(call), NEW seen
  PROVE  ReadingAnswers(ClassificationOutcome(call, seen), call, seen)
<1>. PICK o : o = ClassificationOutcome(call, seen)
  OBVIOUS
<1>0. ASSUME NEW op \in {"existing", "persist"}, call.op # "settle"
      PROVE  ReadingCallFits([call EXCEPT !.op = op])
  <2>. PICK next : next = [call EXCEPT !.op = op]
    OBVIOUS
  <2>1. DOMAIN next = DOMAIN call /\ DOMAIN call = ReadingFields
    BY <1>0 DEF ReadingCallFits
  <2>2. next.op = op /\ next.message = call.message /\ next.version = call.version
    BY <2>1 DEF ReadingFields
  <2>. QED  BY <1>0, <2>1, <2>2 DEF ReadingCallFits, Classifying
<1>1. CASE call.op = "supersede"
  <2>. PICK ups, then : /\ ups = [r \in OtherVersions(call.version, seen) |-> [retired |-> call.version]]
                        /\ then = [call EXCEPT !.op = "existing"]
    OBVIOUS
  <2>1. o = Writes(NoRows, ups, then)
    BY <1>1 DEF ClassificationOutcome, Supersede
  <2>2. \A r \in DOMAIN ups : DOMAIN ups[r] \subseteq {"retired"}
    OBVIOUS
  <2>3. ReadingCallFits(then)
    BY <1>0, <1>1
  <2>. QED  BY <2>1, <2>2, <2>3 DEF ReadingAnswers, Retires
<1>2. CASE call.op = "existing"
  <2>. PICK then : then = [call EXCEPT !.op = "persist"]
    OBVIOUS
  <2>1. o \in {Writes(NoRows, NoRows, then), Writes(NoRows, NoRows, Nothing)}
    BY <1>2 DEF ClassificationOutcome, Existing, Goto, Same
  <2>2. ReadingCallFits(then)
    BY <1>0, <1>2
  <2>. QED  BY <2>1, <2>2, Singles DEF ReadingAnswers, Retires
<1>3. CASE call.op = "persist"
  <2>. DEFINE spans == Finds[call.version][call.message]
  <2>. PICK read : read = [r \in {SpanRow(call.message, call.version, i) : i \in DOMAIN spans} |->
                             [class |-> spans[r[4]].class, retired |-> Nothing]]
    OBVIOUS
  <2>1. o = Writes(Over(read, Recorded(call, seen)), NoRows, Nothing)
    BY <1>3 DEF ClassificationOutcome, Persist
  <2>2. DOMAIN read = {SpanRow(call.message, call.version, i) : i \in DOMAIN spans}
    OBVIOUS
  <2>. QED  BY <1>3, <2>1, <2>2 DEF ReadingAnswers, ReadsWhole
<1>4. CASE call.op = "settle"
  <2>. PICK row, new : /\ row = call.row
                       /\ new = [state |-> call.target,
                                 settled |-> Append(seen[row].settled, <<seen[row].state, call.target, call.by>>)]
    OBVIOUS
  <2>1. \/ o = Refused
        \/ o = Update(row, Changed(new, seen[row])) /\ row \in DOMAIN seen
    BY <1>4 DEF ClassificationOutcome, Settle
  <2>. QED  BY <1>4, <2>1 DEF ReadingAnswers, SettlesOne
<1>. QED  BY <1>1, <1>2, <1>3, <1>4 DEF ReadingCallFits, Classifying

LEMMA SettlingTouches ==
  ASSUME NEW row, NEW new, DOMAIN new = {"state", "settled"}, NEW was
  PROVE  /\ Touching(One(row, Changed(new, was)))
         /\ {"state", "settled"} \subseteq DOMAIN was =>
              /\ Over(Changed(new, was), was).state = new.state
              /\ Over(Changed(new, was), was).settled = new.settled
<1>1. DOMAIN Changed(new, was) \subseteq {"state", "settled"}
  BY DEF Changed
<1>2. Touching(One(row, Changed(new, was)))
  <2>. PICK up, one : up = Changed(new, was) /\ one = One(row, up)
    OBVIOUS
  <2>1. DOMAIN one = {row} /\ one[row] = up /\ DOMAIN up \subseteq {"state", "settled"}
    BY <1>1, Singles
  <2>2. Touching(one)
    BY <2>1 DEF Touching
  <2>. QED  BY <2>2
<1>3. ASSUME {"state", "settled"} \subseteq DOMAIN was, NEW b \in {"state", "settled"}
      PROVE  Over(Changed(new, was), was)[b] = new[b]
  BY <1>3 DEF Over, Changed
<1>. QED  BY <1>2, <1>3

\* Readings stay whole, and without stale reads their histories go on.
LEMMA ReadingsKept ==
  ASSUME NEW d, ReadingsFit(d), NEW call, ReadingCallFits(call), NEW seen,
         NEW o, ReadingAnswers(o, call, seen), o.verdict = "done",
         call.op # "settle" => \E S : Finds[call.version][call.message] \in Seq(S),
         DOMAIN o.inserts \cap DOMAIN d = {}, NEW e, e = Written(d, o)
  PROVE  /\ ReadingsFit(e)
         /\ seen = Only(ClassificationReads(call, d), d) /\ Chained(d) => Chained(e)
<1>1. CASE Retires(o)
  <2>1. PICK ups, then : /\ o = Writes(NoRows, ups, then)
                         /\ \A r \in DOMAIN ups : DOMAIN ups[r] \subseteq {"retired"}
    BY <1>1 DEF Retires
  <2>2. Leaves(d, NoRows, ups, e)
    BY <2>1, Singles, RowsAfter
  <2>3. /\ ReadingsFit(e) /\ Kind("update", e) = Kind("update", d)
        /\ \A r \in Kind("update", d) : \A b \in RecordFields :
             b \notin (IF r \in DOMAIN ups THEN DOMAIN ups[r] ELSE {}) => e[r][b] = d[r][b]
    BY <2>1, <2>2, ReadingsStay
  <2>4. \A r \in Kind("update", d) : \A b \in RecordFields : e[r][b] = d[r][b]
    BY <2>1, <2>3 DEF RecordFields
  <2>5. \A r \in Kind("update", d) : /\ e[r].subject = d[r].subject /\ e[r].reported = d[r].reported
                                     /\ e[r].current = d[r].current /\ e[r].at = d[r].at
                                     /\ e[r].settled = d[r].settled /\ e[r].state = d[r].state
    BY <2>4 DEF RecordFields
  <2>6. ASSUME Chained(d)  PROVE Chained(e)
    <3>1. \A r \in Kind("update", d) : WellSettled(e[r])
      BY <2>5, <2>6 DEF Chained, WellSettled
    <3>. QED  BY <2>3, <2>5, <2>6, <3>1, ChainedAlike
  <2>. QED  BY <2>3, <2>6
<1>2. CASE SettlesOne(o, call, seen)
  <2>. PICK row, was : row = call.row /\ was = seen[row]
    OBVIOUS
  <2>1. PICK new : /\ o = Update(row, Changed(new, was)) /\ DOMAIN new = {"state", "settled"}
                   /\ row \in DOMAIN seen /\ call.op = "settle"
                   /\ new.settled = Append(was.settled, <<was.state, new.state, call.by>>)
    BY <1>2 DEF SettlesOne
  <2>. PICK up, ups : up = Changed(new, was) /\ ups = One(row, up)
    OBVIOUS
  <2>2. o = Writes(NoRows, ups, Nothing) /\ DOMAIN ups = {row} /\ ups[row] = up
    <3>1. o = Writes(NoRows, ups, Nothing)
      BY <2>1 DEF Update
    <3>. QED  BY <3>1, Singles
  <2>3. Leaves(d, NoRows, ups, e)
    BY <2>2, Singles, RowsAfter
  <2>4. Touching(ups)
    BY <2>1, SettlingTouches
  <2>5. /\ ReadingsFit(e) /\ Kind("update", e) = Kind("update", d)
        /\ \A r \in Kind("update", d) : \A b \in RecordFields :
             b \notin (IF r \in DOMAIN ups THEN DOMAIN ups[r] ELSE {}) => e[r][b] = d[r][b]
    BY <2>3, <2>4, ReadingsStay DEF Touching
  <2>6. \A r \in Kind("update", d) : \A b \in RecordFields \ {"state", "settled"} : e[r][b] = d[r][b]
    BY <2>4, <2>5 DEF RecordFields, Touching
  <2>7. \A r \in Kind("update", d) : /\ e[r].subject = d[r].subject /\ e[r].reported = d[r].reported
                                     /\ e[r].current = d[r].current /\ e[r].at = d[r].at
    BY <2>6 DEF RecordFields
  <2>8. ASSUME seen = Only(ClassificationReads(call, d), d), Chained(d)  PROVE Chained(e)
    <3>1. row \in Kind("update", d) /\ was = d[row]
      BY <2>1, <2>8 DEF Only, Kind, ReadingCallFits
    <3>2. \A r \in Kind("update", d) : WellSettled(d[r])
      BY <2>8 DEF Chained
    <3>3. WellSettled(e[row])
      <4>1. e[row] = Over(up, was)
        BY <2>2, <2>3, <3>1 DEF Leaves, Kind
      <4>2. {"state", "settled"} \subseteq DOMAIN was
        BY <3>1 DEF ReadingsFit, RecordFields
      <4>3. e[row].state = new.state /\ e[row].settled = new.settled
        BY <2>1, <4>1, <4>2, SettlingTouches
      <4>. QED  BY <2>1, <3>1, <3>2, <4>3, Settling
    <3>4. \A r \in Kind("update", d) : r # row => e[r] = d[r]
      BY <2>2, <2>3 DEF Leaves, Kind
    <3>5. \A r \in Kind("update", d) : WellSettled(e[r])
      BY <3>2, <3>3, <3>4
    <3>. QED  BY <2>5, <2>7, <2>8, <3>5, ChainedAlike
  <2>. QED  BY <2>5, <2>8
<1>3. CASE ReadsWhole(o, call, seen)
  <2>1. PICK read : /\ o = Writes(Over(read, Recorded(call, seen)), NoRows, Nothing) /\ call.op = "persist"
                    /\ DOMAIN read = {SpanRow(call.message, call.version, i) :
                                        i \in DOMAIN Finds[call.version][call.message]}
    BY <1>3 DEF ReadsWhole
  <2>. PICK rows, ins, N : /\ rows = Recorded(call, seen) /\ ins = Over(read, rows)
                           /\ N = Len(Finds[call.version][call.message])
    OBVIOUS
  <2>2. N \in Nat /\ DOMAIN Finds[call.version][call.message] = 1 .. N
    BY <2>1, LenProperties
  <2>3. RecordsFit(rows, call, seen, N)
    BY <2>2, AllSpans
  <2>4. o = Writes(ins, NoRows, Nothing) /\ o.inserts = ins
    BY <2>1, Decisions
  <2>5. Leaves(d, ins, NoRows, e)
    BY <2>4, RowsAfter
  <2>6. DOMAIN ins \cap DOMAIN d = {}
    BY <2>4
  <2>7. call.message \in Message /\ call.version \in Version
    BY <2>1 DEF ReadingCallFits
  <2>8. DOMAIN read = {SpanRow(call.message, call.version, i) : i \in 1 .. N}
    BY <2>1, <2>2
  <2>9. /\ ReadingsFit(e) /\ Kind("update", e) = Kind("update", d) \cup DOMAIN rows
        /\ \A r \in Kind("update", d) : e[r] = d[r]
        /\ \A r \in DOMAIN rows : e[r] = rows[r]
    <3>1. N \in Nat
      BY <2>2
    <3>2. DOMAIN Finds[call.version][call.message] = 1 .. N
      BY <2>2
    <3>3. ins = Over(read, rows)
      OBVIOUS
    <3>4. call.message \in Message
      BY <2>7
    <3>5. call.version \in Version
      BY <2>7
    <3>. QED  BY <3>1, <3>2, <3>3, <3>4, <3>5, <2>3, <2>5, <2>6, <2>8, ReadingsAdded, SMTT(60)
  <2>10. ASSUME seen = Only(ClassificationReads(call, d), d), Chained(d)  PROVE Chained(e)
    <3>1. DOMAIN seen = Kind("update", d) /\ \A r \in Kind("update", d) : seen[r] = d[r]
      BY <2>1, <2>10 DEF ClassificationReads, Only, Kind
    <3>2. Kind("update", seen) = Kind("update", d)
      BY <3>1 DEF Kind
    <3>3. \A r \in Kind("update", d) : WellSettled(d[r])
      BY <2>10 DEF Chained
    <3>4. Chained(seen)
      BY <2>10, <3>1, <3>2, <3>3, ChainedAlike
    <3>5. DOMAIN rows \subseteq DOMAIN ins
      BY DEF Over
    <3>6. DOMAIN rows = {UpdateRow(call.id, i) : i \in Implying(call)}
      <4>1. \A i \in Implying(call) : i <= N
        BY <2>2 DEF Implying
      <4>. QED  BY <2>3, <4>1 DEF RecordsFit, RecordRows
    <3>7. \A i \in Implying(call) : UpdateRow(call.id, i) \notin DOMAIN seen
      BY <2>6, <3>1, <3>5, <3>6 DEF Kind
    <3>. PICK all : all = Over(rows, seen)
      OBVIOUS
    <3>8. Chained(all)
      BY <2>3, <3>4, <3>7 DEF RecordsFit
    <3>9. \A r \in DOMAIN rows : r[1] = "update" /\ r \notin DOMAIN seen
      BY <3>6, <3>7 DEF UpdateRow
    <3>10. /\ DOMAIN all = DOMAIN rows \cup DOMAIN seen
           /\ \A r \in DOMAIN rows : all[r] = rows[r]
           /\ \A r \in DOMAIN seen : all[r] = seen[r]
      BY <3>9 DEF Over
    <3>11. Kind("update", all) = Kind("update", e)
      BY <2>9, <3>1, <3>9, <3>10 DEF Kind
    <3>12. \A r \in Kind("update", e) : e[r] = all[r]
      BY <2>9, <3>1, <3>10
    <3>13. \A r \in Kind("update", all) : WellSettled(all[r])
      BY <3>8 DEF Chained
    <3>. QED  BY <3>8, <3>11, <3>12, <3>13, ChainedAlike
  <2>. QED  BY <2>9, <2>10
<1>. QED  BY <1>1, <1>2, <1>3, Decisions DEF ReadingAnswers

ReadingStateFits ==
  /\ CallsShaped
  /\ \A c \in Caller : calls[c].call # Nothing => ReadingCallFits(calls[c].call)
  /\ ReadingsFit(tables) /\ (Serializable => Chained(tables))

LEMMA ReadingStaysFit ==
  ASSUME ReadingIsServed, ReadingStateFits, [Next]_vars
  PROVE  ReadingStateFits'
<1>1. CASE UNCHANGED vars
  BY <1>1 DEF ReadingStateFits, vars, CallsShaped, Serializable
<1>2. ASSUME NEW c \in Caller, Steps(c)
      PROVE  ReadingStateFits'
  <2>. DEFINE StaysSound == ReadingsFit(tables') /\ (Serializable => Chained(tables'))
  <2>. SUFFICES /\ calls'[c].call # Nothing => ReadingCallFits(calls'[c].call)
                /\ StaysSound
    BY <1>2 DEF ReadingStateFits, Steps, Serializable
  <2>1. tables' = tables => StaysSound
    BY DEF ReadingStateFits
  <2>2. ASSUME NEW call, Turns(c, call), call # Nothing => ReadingCallFits(call)
        PROVE  calls'[c].call # Nothing => ReadingCallFits(calls'[c].call)
    BY <2>2, Fields DEF Turns, Resumed
  <2>. HIDE DEF StaysSound
  <2>3. CASE \E call \in Requests(service, tables, made + 1) : Turns(c, call)
    <3>1. PICK call \in Requests(service, tables, made + 1) : Turns(c, call)
      BY <2>3
    <3>2. ReadingCallFits(call)
      <4>1. call \in ClassifyRequests(made + 1) \cup SettleRequests(tables)
        BY <3>1 DEF ReadingStateFits, ReadingIsServed
      <4>. QED  BY <4>1 DEF ClassifyRequests, SettleRequests, ReadingCallFits, ReadingFields,
                            Classifying, Kind
    <3>. QED  BY <2>1, <2>2, <3>1, <3>2 DEF Turns
  <2>4. CASE GoesOn(c)
    BY <2>1, <2>4 DEF ReadingStateFits, GoesOn
  <2>5. CASE Turns(c, Nothing) \/ (calls[c].phase # "idle" /\ Turns(c, calls[c].call))
    BY <2>1, <2>2, <2>5 DEF ReadingStateFits, Turns
  <2>6. ASSUME Is(c, "deciding"), Decided(c).verdict = "done"
        PROVE  /\ ReadingCallFits(calls[c].call)
               /\ ReadingAnswers(Decided(c), calls[c].call, calls[c].seen)
               /\ Decided(c).then = Nothing \/ ReadingCallFits(Decided(c).then)
               /\ Decided(c).clash = Nothing
    <3>1. ReadingCallFits(calls[c].call)
      BY <2>6 DEF ReadingStateFits, CallsShaped, Is
    <3>2. Decided(c) = ClassificationOutcome(calls[c].call, calls[c].seen)
      BY <3>1 DEF ReadingIsServed, ReadingCallFits, Decided
    <3>3. ReadingAnswers(Decided(c), calls[c].call, calls[c].seen)
      BY <3>1, <3>2, ReadingDecision
    <3>4. \/ Decided(c) = Refused
          \/ \E ins, ups, then : /\ Decided(c) = Writes(ins, ups, then)
                                 /\ then = Nothing \/ ReadingCallFits(then)
      BY <3>3 DEF ReadingAnswers, Retires, SettlesOne, ReadsWhole, Update
    <3>5. Decided(c) # Refused
      BY <2>6, Decisions
    <3>6. PICK ins, ups, then : /\ Decided(c) = Writes(ins, ups, then)
                                /\ then = Nothing \/ ReadingCallFits(then)
      BY <3>4, <3>5
    <3>7. Decided(c).then = then /\ Decided(c).clash = Nothing
      BY <3>6, Decisions
    <3>. QED  BY <3>1, <3>3, <3>6, <3>7
  <2>7. CASE Is(c, "deciding") /\ Decided(c).verdict = "done" /\ Turns(c, Decided(c).clash)
    BY <2>1, <2>2, <2>6, <2>7 DEF Turns
  <2>8. CASE Commit(c) /\ calls'[c] = Resumed(Decided(c).then)
    <3>1. Is(c, "deciding") /\ Decided(c).verdict = "done"
      BY <2>8 DEF Commit
    <3>2. calls'[c].call # Nothing => ReadingCallFits(calls'[c].call)
      BY <2>6, <2>8, <3>1, Fields DEF Resumed
    <3>3. /\ ReadingCallFits(calls[c].call)
          /\ ReadingAnswers(Decided(c), calls[c].call, calls[c].seen)
      BY <2>6, <3>1
    <3>4. /\ ~Outside(calls[c].call)
          /\ \A d : Reads(calls[c].call, d) = ClassificationReads(calls[c].call, d)
          /\ \A d : ReadsLater(calls[c].call, d) = {}
      BY <3>3 DEF ReadingIsServed, ReadingCallFits
    <3>5. calls[c].call.op # "settle" =>
            \E S : Finds[calls[c].call.version][calls[c].call.message] \in Seq(S)
      BY <3>3 DEF ReadingIsServed, ReadingCallFits
    <3>6. DOMAIN Decided(c).inserts \cap DOMAIN tables = {} /\ tables' = Written(tables, Decided(c))
      BY <2>8, <3>4 DEF Commit, Collides
    <3>7. Serializable => calls[c].seen = Only(ClassificationReads(calls[c].call, tables), tables)
      BY <2>8, <3>4, CommitsOnWhatIsThere
    <3>8. ReadingsFit(tables) /\ (Serializable => Chained(tables))
      BY DEF ReadingStateFits
    <3>9. /\ ReadingsFit(tables')
          /\ calls[c].seen = Only(ClassificationReads(calls[c].call, tables), tables) /\ Chained(tables)
               => Chained(tables')
      BY <3>1, <3>3, <3>5, <3>6, <3>8, ReadingsKept
    <3>10. StaysSound
      BY <3>7, <3>8, <3>9 DEF StaysSound
    <3>. QED  BY <3>2, <3>10
  <2>. QED  BY <1>2, <2>3, <2>4, <2>5, <2>7, <2>8, Reading DEF Steps
<1>. QED  BY <1>1, <1>2, EveryStep DEF ReadingStateFits

LEMMA ReadingFitsAtFirst ==
  ASSUME ReadingIsServed, Init
  PROVE  ReadingStateFits
<1>1. CallsShaped /\ \A c \in Caller : calls[c].call = Nothing
  BY Fields DEF Init, CallsShaped
<1>2. Kind("span", tables) = {} /\ Kind("update", tables) = {}
  BY DEF Init, ReadingIsServed
<1>3. ReadingsFit(tables) /\ Chained(tables)
  BY <1>2, FS_EmptySet DEF ReadingsFit, OnceOf, SpansOf, RecordsOf, Chained
<1>. QED  BY <1>1, <1>3 DEF Init, ReadingStateFits

LEMMA ChainsOfRecords ==
  ASSUME ReadingStateFits
  PROVE  StatusesChain
<1>1. ReadOnce
  BY DEF ReadingStateFits, ReadingsFit, OnceOf, RecordsOf, ReadOnce, Implies
<1>2. ASSUME Chained(tables), NEW r \in Kind("update", tables)
      PROVE  LET row == tables[r]
                 before == {tables[s] : s \in {t \in Updates(row.subject, tables) : tables[t].at < row.at}}
                 told == {b \in before : b.reported # Nothing}
                 steps == <<<<Nothing, "proposed", Nothing>>>> \o row.settled
             IN /\ row.subject # Nothing =>
                     IF told = {} THEN row.current = Nothing
                     ELSE \E b \in told : row.current = b.reported /\ \A a \in told : a.at <= b.at
                /\ row.state = steps[Len(steps)][2]
                /\ \A i \in 1..Len(row.settled) : row.settled[i][1] = steps[i][2]
  <2>. DEFINE row == tables[r]
              before == {tables[s] : s \in {t \in Updates(row.subject, tables) : tables[t].at < row.at}}
              told == {b \in before : b.reported # Nothing}
              steps == <<<<Nothing, "proposed", Nothing>>>> \o row.settled
  <2>1. told = {tables[s] : s \in ToldBefore(r, tables)}
    BY DEF ToldBefore
  <2>2. Continues(r, tables) /\ WellSettled(row)
    BY <1>2 DEF Chained
  <2>3. /\ row.state = steps[Len(steps)][2]
        /\ \A i \in 1..Len(row.settled) : row.settled[i][1] = steps[i][2]
    BY <2>2 DEF WellSettled, Led
  <2>. HIDE DEF told, steps
  <2>4. row.subject # Nothing =>
          IF told = {} THEN row.current = Nothing
          ELSE \E b \in told : row.current = b.reported /\ \A a \in told : a.at <= b.at
    <3>. SUFFICES ASSUME row.subject # Nothing
                  PROVE  IF told = {} THEN row.current = Nothing
                         ELSE \E b \in told : row.current = b.reported /\ \A a \in told : a.at <= b.at
      OBVIOUS
    <3>1. CASE ToldBefore(r, tables) = {} /\ row.current = Nothing
      BY <2>1, <3>1
    <3>2. CASE \E s \in ToldBefore(r, tables) :
                 /\ row.current = tables[s].reported
                 /\ \A q \in ToldBefore(r, tables) : tables[q].at <= tables[s].at
      BY <2>1, <3>2
    <3>. QED  BY <2>2, <3>1, <3>2 DEF Continues
  <2>. QED  BY <2>3, <2>4 DEF told, steps
<1>. QED  BY <1>1, <1>2 DEF ReadingStateFits, StatusesChain

-----------------------------------------------------------------------------
(* The services together                                                   *)

\* A service asks what its clients may ask, and each call is answered by the
\* module it belongs to: what an instance of Transactions by Stores says.
StoresAreServed ==
  /\ \A s \in Service : \A d, n : Requests(s, d, n) \subseteq StoreAsked(s, d, n)
  /\ \A call, d : Reads(call, d) = StoreReads(call, d) /\ ReadsLater(call, d) = StoreReadsLater(call, d)
  /\ \A call, seen : Locks(call, seen) = StoreLocks(call, seen) /\ Outcome(call, seen) = StoreOutcome(call, seen)
  /\ \A call : Outside(call) <=> StoreOutside(call)
  /\ \A d : Unique(d) <=> StoreUnique(d)

\* No request belongs to two modules.
LEMMA OneAnswers ==
  ASSUME NEW call
  PROVE  /\ Running(call) =>
              /\ \A d : StoreReads(call, d) = RunReads(call, d) /\ StoreReadsLater(call, d) = {}
              /\ \A seen : StoreOutcome(call, seen) = RunOutcome(call, seen)
              /\ ~StoreOutside(call)
         /\ SettingUp(call) =>
              /\ \A d : StoreReads(call, d) = SetupReads(call, d) /\ StoreReadsLater(call, d) = SetupReadsLater(call)
              /\ \A seen : /\ StoreOutcome(call, seen) = SetupOutcome(call, seen)
                           /\ StoreLocks(call, seen) = SetupLocks(call, seen)
              /\ ~StoreOutside(call)
         /\ Delivering(call) =>
              /\ \A d : /\ StoreReads(call, d) = DeliverableReads(call, d)
                        /\ StoreReadsLater(call, d) = DeliverableReadsLater(call)
              /\ \A seen : /\ StoreOutcome(call, seen) = DeliverableOutcome(call, seen)
                           /\ StoreLocks(call, seen) = DeliverableLocks(call)
              /\ ~StoreOutside(call)
         /\ Publishing(call) =>
              /\ \A d : /\ StoreReads(call, d) = PublicationReads(call, d)
                        /\ StoreReadsLater(call, d) = PublicationReadsLater(call)
              /\ \A seen : /\ StoreOutcome(call, seen) = PublicationOutcome(call, seen)
                           /\ StoreLocks(call, seen) = PublicationLocks(call)
              /\ StoreOutside(call) <=> OnDisk(call)
         /\ Assuming(call) =>
              ~StoreOutside(call) /\ \A seen : StoreOutcome(call, seen) = AssumptionOutcome(call, seen)
         /\ Sourcing(call) =>
              ~StoreOutside(call) /\ \A seen : StoreOutcome(call, seen) = SourceOutcome(call, seen)
         /\ Submitting(call) =>
              ~StoreOutside(call) /\ \A seen : StoreOutcome(call, seen) = SubmissionOutcome(call, seen)
         /\ Reconciling(call) =>
              ~StoreOutside(call) /\ \A seen : StoreOutcome(call, seen) = EvidenceOutcome(call, seen)
         /\ Hosting(call) =>
              /\ \A d : StoreReads(call, d) = ProjectReads(call, d) /\ StoreReadsLater(call, d) = {}
              /\ \A seen : StoreOutcome(call, seen) = ProjectOutcome(call, seen)
              /\ ~StoreOutside(call)
         /\ Designing(call) =>
              /\ \A d : StoreReads(call, d) = ModuleReads(call, d) /\ StoreReadsLater(call, d) = {}
              /\ \A seen : StoreOutcome(call, seen) = ModuleOutcome(call, seen)
              /\ ~StoreOutside(call)
         /\ Classifying(call) =>
              /\ \A d : StoreReads(call, d) = ClassificationReads(call, d) /\ StoreReadsLater(call, d) = {}
              /\ \A seen : StoreOutcome(call, seen) = ClassificationOutcome(call, seen)
              /\ ~StoreOutside(call)
<1>1. Running(call) => ~(SettingUp(call) \/ Delivering(call) \/ Publishing(call) \/ Assuming(call) \/
                         Sourcing(call) \/ Submitting(call) \/ Reconciling(call) \/ Hosting(call) \/
                         Designing(call) \/ Classifying(call))
  BY DEF Running, SettingUp, Delivering, Publishing, Assuming, Sourcing, Submitting, Reconciling,
         Hosting, Designing, Classifying
<1>2. SettingUp(call) => ~(Running(call) \/ Delivering(call) \/ Publishing(call) \/ Assuming(call) \/
                           Sourcing(call) \/ Submitting(call) \/ Reconciling(call) \/ Hosting(call) \/
                           Designing(call) \/ Classifying(call))
  BY DEF Running, SettingUp, Delivering, Publishing, Assuming, Sourcing, Submitting, Reconciling,
         Hosting, Designing, Classifying
<1>3. Delivering(call) => ~(Running(call) \/ SettingUp(call) \/ Publishing(call) \/ Assuming(call) \/
                            Sourcing(call) \/ Submitting(call) \/ Reconciling(call) \/ Hosting(call) \/
                            Designing(call) \/ Classifying(call))
  BY DEF Running, SettingUp, Delivering, Publishing, Assuming, Sourcing, Submitting, Reconciling,
         Hosting, Designing, Classifying
<1>4. Publishing(call) => ~(Running(call) \/ SettingUp(call) \/ Delivering(call) \/ Assuming(call) \/
                            Sourcing(call) \/ Submitting(call) \/ Reconciling(call) \/ Hosting(call) \/
                            Designing(call) \/ Classifying(call))
  BY DEF Running, SettingUp, Delivering, Publishing, Assuming, Sourcing, Submitting, Reconciling,
         Hosting, Designing, Classifying
<1>5. Assuming(call) => ~(Running(call) \/ SettingUp(call) \/ Delivering(call) \/ Publishing(call) \/
                          Sourcing(call) \/ Submitting(call) \/ Reconciling(call) \/ Hosting(call) \/
                          Designing(call) \/ Classifying(call))
  BY DEF Running, SettingUp, Delivering, Publishing, Assuming, Sourcing, Submitting, Reconciling,
         Hosting, Designing, Classifying
<1>6. Sourcing(call) => ~(Running(call) \/ SettingUp(call) \/ Delivering(call) \/ Publishing(call) \/
                          Assuming(call) \/ Submitting(call) \/ Reconciling(call) \/ Hosting(call) \/
                          Designing(call) \/ Classifying(call))
  BY DEF Running, SettingUp, Delivering, Publishing, Assuming, Sourcing, Submitting, Reconciling,
         Hosting, Designing, Classifying
<1>7. Submitting(call) => ~(Running(call) \/ SettingUp(call) \/ Delivering(call) \/ Publishing(call) \/
                            Assuming(call) \/ Sourcing(call) \/ Reconciling(call) \/ Hosting(call) \/
                            Designing(call) \/ Classifying(call))
  BY DEF Running, SettingUp, Delivering, Publishing, Assuming, Sourcing, Submitting, Reconciling,
         Hosting, Designing, Classifying
<1>8. Reconciling(call) => ~(Running(call) \/ SettingUp(call) \/ Delivering(call) \/ Publishing(call) \/
                             Assuming(call) \/ Sourcing(call) \/ Submitting(call) \/ Hosting(call) \/
                             Designing(call) \/ Classifying(call))
  BY DEF Running, SettingUp, Delivering, Publishing, Assuming, Sourcing, Submitting, Reconciling,
         Hosting, Designing, Classifying
<1>9. Hosting(call) => ~(Running(call) \/ SettingUp(call) \/ Delivering(call) \/ Publishing(call) \/
                         Assuming(call) \/ Sourcing(call) \/ Submitting(call) \/ Reconciling(call) \/
                         Designing(call) \/ Classifying(call))
  BY DEF Running, SettingUp, Delivering, Publishing, Assuming, Sourcing, Submitting, Reconciling,
         Hosting, Designing, Classifying
<1>10. Designing(call) => ~(Running(call) \/ SettingUp(call) \/ Delivering(call) \/ Publishing(call) \/
                            Assuming(call) \/ Sourcing(call) \/ Submitting(call) \/ Reconciling(call) \/
                            Hosting(call) \/ Classifying(call))
  BY DEF Running, SettingUp, Delivering, Publishing, Assuming, Sourcing, Submitting, Reconciling,
         Hosting, Designing, Classifying
<1>11. Classifying(call) => ~(Running(call) \/ SettingUp(call) \/ Delivering(call) \/ Publishing(call)
                              \/ Assuming(call) \/ Sourcing(call) \/ Submitting(call) \/
                              Reconciling(call) \/ Hosting(call) \/ Designing(call))
  BY DEF Running, SettingUp, Delivering, Publishing, Assuming, Sourcing, Submitting, Reconciling,
         Hosting, Designing, Classifying
<1>. QED  BY <1>1, <1>2, <1>3, <1>4, <1>5, <1>6, <1>7, <1>8, <1>9, <1>10, <1>11 DEF StoreReads, StoreReadsLater, StoreLocks, StoreOutcome, StoreOutside

LEMMA Beginnings ==
  ASSUME service \in Service
  PROVE  service \in Stored /\ BeginsFit(service, Beginning(service))
BY StoresAssumption

\* What each section asks of its service, the stores give.
LEMMA RunsServed ==
  ASSUME StoresAreServed, service \in Service, service = "runs"
  PROVE  RunsAreServed
<1>1. DOMAIN Beginning(service) = {}
  BY Beginnings DEF BeginsFit
<1>2. \A d, n : Requests(service, d, n) \subseteq DriveRequests(n) \cup RunRequests(d, n)
  BY DEF StoresAreServed, StoreAsked
<1>. QED  BY <1>1, <1>2, OneAnswers DEF StoresAreServed, RunsAreServed

LEMMA SetupServed ==
  ASSUME StoresAreServed, service \in Service, service \in {"setup values", "setup targets"}
  PROVE  SetupIsServed
<1>1. SetupRowsFit(Beginning(service))
  BY Beginnings DEF BeginsFit
<1>2. \A d, n : Requests(service, d, n) \subseteq
        AskRequests \cup AnswerRequests(d) \cup ConfigureRequests \cup TargetRequests(d) \cup ConnectionRequests(d, n)
  BY DEF StoresAreServed, StoreAsked
<1>3. \A d : Unique(d) => OneDefault(d)
  BY DEF StoresAreServed, StoreUnique
<1>. QED  BY <1>1, <1>2, <1>3, OneAnswers DEF StoresAreServed, SetupIsServed

LEMMA DeliverablesServed ==
  ASSUME StoresAreServed, service \in Service, service = "deliverables"
  PROVE  DeliverablesAreServed
<1>1. DeliverableRowsFit(Beginning(service))
  BY Beginnings DEF BeginsFit
<1>2. \A d, n : Requests(service, d, n) \subseteq ChangeRequests \cup AssembleRequests \cup EndRequests(d)
  BY DEF StoresAreServed, StoreAsked
<1>. QED  BY <1>1, <1>2, OneAnswers DEF StoresAreServed, DeliverablesAreServed

LEMMA EndingsServed ==
  ASSUME StoresAreServed, service \in Service, service \in {"assumptions", "deliverables"}
  PROVE  AssumptionsAreServed
<1>1. StatesFit(Beginning(service))
  BY Beginnings DEF BeginsFit
<1>2. \A d, n : Requests(service, d, n) \subseteq
        AssumptionRequests(d, n) \cup ChangeRequests \cup AssembleRequests \cup EndRequests(d)
  BY DEF StoresAreServed, StoreAsked
<1>. QED  BY <1>1, <1>2, OneAnswers DEF StoresAreServed, AssumptionsAreServed

LEMMA SourcesServed ==
  ASSUME StoresAreServed, service \in Service, service = "sources"
  PROVE  SourcesAreServed
<1>1. SourceRowsFit(Beginning(service))
  BY Beginnings DEF BeginsFit
<1>2. \A d, n : Requests(service, d, n) \subseteq RegisterRequests \cup SourceRequests(d, n)
  BY DEF StoresAreServed, StoreAsked
<1>. QED  BY <1>1, <1>2, OneAnswers DEF StoresAreServed, SourcesAreServed

LEMMA SubmissionsServed ==
  ASSUME StoresAreServed, service \in Service, service = "submissions"
  PROVE  SubmissionsAreServed
<1>1. Kind("reading", Beginning(service)) = {}
  BY Beginnings DEF BeginsFit
<1>2. \A d, n : Requests(service, d, n) \subseteq
        DocumentRequests(n) \cup ObservationRequests(n) \cup TurnRequests(d, n)
          \cup CloseRequests(d, n) \cup ReviewRequests(n)
  BY DEF StoresAreServed, StoreAsked
<1>. QED  BY <1>1, <1>2, OneAnswers DEF StoresAreServed, SubmissionsAreServed

LEMMA ProjectsServed ==
  ASSUME StoresAreServed, service \in Service, service = "projects"
  PROVE  ProjectsAreServed
<1>1. ProjectRowsFit(Beginning(service))
  BY Beginnings DEF BeginsFit
<1>2. \A d, n : Requests(service, d, n) \subseteq
        CreateRequests(n) \cup ContentRequests(d, n) \cup DeletionRequests(d)
  BY DEF StoresAreServed, StoreAsked
<1>. QED  BY <1>1, <1>2, OneAnswers DEF StoresAreServed, ProjectsAreServed

LEMMA PublicationsServed ==
  ASSUME StoresAreServed, service \in Service, service = "publication"
  PROVE  PublicationsAreServed
<1>1. PublicationRowsFit(Beginning(service))
  BY Beginnings DEF BeginsFit
<1>2. \A d, n : Requests(service, d, n) \subseteq PublishRequests(d, n) \cup ConnectionRequests(d, n)
  BY DEF StoresAreServed, StoreAsked
<1>. QED  BY <1>1, <1>2, OneAnswers DEF StoresAreServed, PublicationsAreServed

LEMMA EvidenceServed ==
  ASSUME StoresAreServed, service \in Service, service = "evidence"
  PROVE  EvidenceIsServed
<1>1. \A d, n : Requests(service, d, n) \subseteq EvidenceRequests(d, n)
  BY DEF StoresAreServed, StoreAsked
<1>. QED  BY <1>1, OneAnswers DEF StoresAreServed, EvidenceIsServed

LEMMA GraphServed ==
  ASSUME StoresAreServed, service \in Service, service = "modules"
  PROVE  GraphIsServed
<1>1. IsFiniteSet(DOMAIN Beginning(service)) /\ Kind("edge", Beginning(service)) = {}
  BY Beginnings DEF BeginsFit
<1>2. IsFiniteSet(Kind("module", Beginning(service)))
  BY <1>1, FS_Subset DEF Kind
<1>3. \A d, n : Requests(service, d, n) \subseteq DefineRequests \cup RelateRequests(n) \cup ConfirmRequests
  BY DEF StoresAreServed, StoreAsked
<1>. QED  BY <1>1, <1>2, <1>3, OneAnswers DEF StoresAreServed, GraphIsServed

LEMMA ReadingServed ==
  ASSUME StoresAreServed, service \in Service, service = "classification"
  PROVE  ReadingIsServed
<1>1. Kind("span", Beginning(service)) = {} /\ Kind("update", Beginning(service)) = {}
  BY Beginnings DEF BeginsFit, Kind
<1>2. \A d, n : Requests(service, d, n) \subseteq ClassifyRequests(n) \cup SettleRequests(d)
  BY DEF StoresAreServed, StoreAsked
<1>3. \A v \in Version, m \in Message : \E S : Finds[v][m] \in Seq(S)
  BY StoresAssumption
<1>. QED  BY <1>1, <1>2, <1>3, OneAnswers DEF StoresAreServed, ReadingIsServed

\* The rows a service only reads.
ReadOnly(s) ==
  CASE s = "publication" -> {"project", "deliverable", "target"}
    [] s = "submissions" -> {"source"}
    [] OTHER             -> {}

\* The calls a service has in progress.
BelongsTo(s, call) ==
  CASE s \in {"setup values", "setup targets"} -> SettingUp(call)
    [] s = "modules"        -> Designing(call)
    [] s = "assumptions"    -> Assuming(call)
    [] s = "deliverables"   -> Delivering(call)
    [] s = "publication"    -> "op" \in DOMAIN call /\ (Publishing(call) \/ Connecting(call))
    [] s = "evidence"       -> Reconciling(call)
    [] s = "sources"        -> Sourcing(call)
    [] s = "submissions"    -> /\ "op" \in DOMAIN call /\ Submitting(call)
                               /\ call.op = "close session" => call.session[1] = "session"
    [] s = "projects"       -> HostingFits(call)
    [] s = "runs"           -> /\ "op" \in DOMAIN call /\ Running(call)
                               /\ call.op \in {"start run", "consume"} =>
                                    "answer" \in DOMAIN call /\ call.answer \in RunAnswers
    [] s = "classification" -> ReadingCallFits(call)

\* What a service only reads is as it was at first.
AsAtFirst(d) ==
  /\ \A r \in DOMAIN d \cup DOMAIN Beginning(service) :
       r[1] \in ReadOnly(service) => r \in DOMAIN d /\ r \in DOMAIN Beginning(service)
  /\ \A r \in DOMAIN d : r[1] \in ReadOnly(service) => d[r] = Beginning(service)[r]

\* Each service has the rows and the calls that are its own, and what it only
\* reads stays as it was.
Apart ==
  /\ CallsShaped /\ service \in Service
  /\ \A r \in DOMAIN tables : r[1] \in StoreKinds(service)
  /\ AsAtFirst(tables)
  /\ \A c \in Caller : calls[c].call # Nothing => BelongsTo(service, calls[c].call)

\* A decision of a service stays within it.
Within(s, o) ==
  o.verdict = "done" =>
    /\ \A r \in DOMAIN o.inserts : r[1] \in StoreKinds(s)
    /\ \A r \in DOMAIN o.inserts \cup DOMAIN o.updates \cup o.deletes : r[1] \notin ReadOnly(s)
    /\ o.then # Nothing => BelongsTo(s, o.then)
    /\ o.clash # Nothing => BelongsTo(s, o.clash)

LEMMA WritingWithin ==
  ASSUME NEW s, NEW ins, NEW ups, NEW then,
         \A r \in DOMAIN ins : r[1] \in StoreKinds(s) \ ReadOnly(s),
         \A r \in DOMAIN ups : r[1] \notin ReadOnly(s),
         then # Nothing => BelongsTo(s, then)
  PROVE  Within(s, Writes(ins, ups, then))
BY Decisions DEF Within

LEMMA SimplyWithin ==
  ASSUME NEW s
  PROVE  /\ Within(s, Refused) /\ Within(s, Same)
         /\ \A row, value, then :
              row[1] \in StoreKinds(s) \ ReadOnly(s) /\ (then # Nothing => BelongsTo(s, then)) =>
                Within(s, Writes(One(row, value), NoRows, then))
         /\ \A row, value, then :
              row[1] \notin ReadOnly(s) /\ (then # Nothing => BelongsTo(s, then)) =>
                Within(s, Writes(NoRows, One(row, value), then))
         /\ \A row, value, ups :
              row[1] \in StoreKinds(s) /\ ReadOnly(s) = {} => Within(s, Writes(One(row, value), ups, Nothing))
         /\ \A ups : ReadOnly(s) = {} => Within(s, Writes(NoRows, ups, Nothing))
         /\ \A next : BelongsTo(s, next) => Within(s, Goto(next))
<1>1. Within(s, Refused)
  BY Decisions DEF Within
<1>2. Within(s, Same)
  BY WritingWithin, Singles DEF Same
<1>3. ASSUME NEW row, NEW value, NEW then, then # Nothing => BelongsTo(s, then)
      PROVE  /\ row[1] \in StoreKinds(s) \ ReadOnly(s) => Within(s, Writes(One(row, value), NoRows, then))
             /\ row[1] \notin ReadOnly(s) => Within(s, Writes(NoRows, One(row, value), then))
  <2>. PICK one : one = One(row, value)
    OBVIOUS
  <2>1. DOMAIN one = {row} /\ DOMAIN NoRows = {}
    BY Singles
  <2>. QED  BY <1>3, <2>1, WritingWithin
<1>4. ASSUME NEW next, BelongsTo(s, next)
      PROVE  Within(s, Goto(next))
  BY <1>4, WritingWithin, Singles DEF Goto
<1>5. ASSUME NEW row, NEW value, NEW ups, row[1] \in StoreKinds(s), ReadOnly(s) = {}
      PROVE  Within(s, Writes(One(row, value), ups, Nothing))
  <2>. PICK one : one = One(row, value)
    OBVIOUS
  <2>1. DOMAIN one = {row}
    BY Singles
  <2>. QED  BY <1>5, <2>1, WritingWithin
<1>6. ASSUME NEW ups, ReadOnly(s) = {}
      PROVE  Within(s, Writes(NoRows, ups, Nothing))
  BY <1>6, WritingWithin, Singles
<1>. QED  BY <1>1, <1>2, <1>3, <1>4, <1>5, <1>6

LEMMA RunsStayWithin ==
  ASSUME NEW call, BelongsTo("runs", call), NEW seen
  PROVE  Within("runs", RunOutcome(call, seen))
<1>. DEFINE s == "runs"
<1>1. StoreKinds(s) = {"run", "result", "used"} /\ ReadOnly(s) = {}
  BY DEF StoreKinds, ReadOnly
<1>2. /\ "op" \in DOMAIN call /\ Running(call)
      /\ call.op \in {"start run", "consume"} => "answer" \in DOMAIN call /\ call.answer \in RunAnswers
  BY DEF BelongsTo
<1>3. ASSUME NEW next, "op" \in DOMAIN next, Running(next),
             next.op \in {"start run", "consume"} => "answer" \in DOMAIN next /\ next.answer \in RunAnswers
      PROVE  BelongsTo(s, next)
  BY <1>3 DEF BelongsTo
<1>. HIDE DEF s
<1>. PICK o : o = RunOutcome(call, seen)
  OBVIOUS
<1>4. CASE call.op = "start run"
  <2>1. ASSUME NEW run  PROVE BelongsTo(s, Drive(call, run))
    <3>1. PICK next : next = Drive(call, run)
      OBVIOUS
    <3>2. /\ DOMAIN next = DOMAIN call /\ next.answer = call.answer
          /\ next.op \in {"consume", call.answer}
      BY <1>2, <1>4, <3>1 DEF Drive
    <3>. QED  BY <1>2, <1>3, <1>4, <3>1, <3>2 DEF Running, RunAnswers
  <2>2. \/ o = Same
        \/ \E run : o = Goto(Drive(call, run))
        \/ \E value : o = Writes(One(RunRow(call.id), value), NoRows, Drive(call, RunRow(call.id)))
    BY <1>4 DEF RunOutcome, StartRun
  <2>. QED  BY <1>1, <2>1, <2>2, SimplyWithin DEF RunRow, s
<1>5. CASE call.op = "consume"
  <2>1. PICK next : next = [call EXCEPT !.op = call.answer]
    OBVIOUS
  <2>2. /\ DOMAIN next = DOMAIN call /\ next.op = call.answer
    BY <1>2, <1>5, <2>1
  <2>3. BelongsTo(s, next)
    BY <1>2, <1>3, <1>5, <2>2 DEF Running, RunAnswers
  <2>4. \E value : o = Writes(One(UsedRow(call.run, call.id), value), NoRows, next)
    BY <1>5, <2>1 DEF RunOutcome, Consume
  <2>. QED  BY <1>1, <2>3, <2>4, SimplyWithin DEF UsedRow, s
<1>6. CASE call.op = "follow"
  <2>1. PICK next : next = [call EXCEPT !.shown = seen[call.run],
          !.op = IF seen[call.run].status \in FinalStatus THEN "stream ended" ELSE "follow"]
    OBVIOUS
  <2>2. DOMAIN next = DOMAIN call /\ next.op \in {"stream ended", "follow"}
    BY <1>2, <2>1
  <2>3. BelongsTo(s, next)
    BY <1>2, <1>3, <2>2 DEF Running
  <2>4. o = Goto(next)
    BY <1>6, <2>1 DEF RunOutcome, Follow
  <2>. QED  BY <2>3, <2>4, SimplyWithin DEF s
<1>7. CASE call.op \notin {"start run", "consume", "follow"}
  <2>. PICK row : row = ResultRow(call.run, call.id)
    OBVIOUS
  <2>1. \/ o \in {Same, Refused}
        \/ \E ups : o = Writes(NoRows, ups, Nothing)
        \/ \E value, ups : o = Writes(One(row, value), ups, Nothing)
    BY <1>2, <1>7 DEF RunOutcome, Running, WriteResult, CompleteRun, FailRun, InterruptRun, ResumeRun, Moved
  <2>2. row[1] = "result"
    BY DEF ResultRow
  <2>. QED  BY <1>1, <2>1, <2>2, SimplyWithin DEF s
<1>. QED  BY <1>4, <1>5, <1>6, <1>7 DEF s

LEMMA SetupStaysWithin ==
  ASSUME NEW s \in {"setup values", "setup targets"}, NEW call, BelongsTo(s, call), NEW seen
  PROVE  Within(s, SetupOutcome(call, seen))
<1>1. StoreKinds(s) = {"question", "value", "connection", "target"} /\ ReadOnly(s) = {}
  BY DEF StoreKinds, ReadOnly
<1>2. SettingUp(call)
  BY DEF BelongsTo
<1>3. /\ \A f : Question(f)[1] = "question" /\ Configured(f)[1] = "value"
      /\ \A n : Connection(n)[1] = "connection" /\ Target(n)[1] = "target"
  BY DEF Question, Configured, Connection, Target
<1>. PICK o : o = SetupOutcome(call, seen)
  OBVIOUS
<1>. HIDE DEF SettingUp
<1>4. CASE call.op \in {"ask", "connect", "register"}
  <2>1. \/ o \in {Same, Refused}
        \/ \E value : \/ o = Insert(Question(call.field), value) \/ o = Insert(Connection(call.id), value)
                      \/ o = Insert(Target(call.name), value)
    BY <1>4 DEF SetupOutcome, Ask, RecordConnection, RegisterTarget
  <2>. QED  BY <1>1, <1>3, <2>1, SimplyWithin DEF Insert
<1>5. CASE call.op \in {"answer", "set value"}
  <2>. PICK row : row = Configured(call.field)
    OBVIOUS
  <2>1. \A by, state : \/ WriteValue(call, by, state, seen).inserts = NoRows
                       \/ \E new : WriteValue(call, by, state, seen).inserts = One(row, new)
    BY DEF WriteValue, One
  <2>2. \/ o = Refused
        \/ \E ups : o = Writes(NoRows, ups, Nothing)
        \/ \E by, state, ups : o = Writes(WriteValue(call, by, state, seen).inserts, ups, Nothing)
    BY <1>5 DEF SetupOutcome, Answer, SetValue
  <2>3. \/ o = Refused
        \/ \E ups : o = Writes(NoRows, ups, Nothing)
        \/ \E new, ups : o = Writes(One(row, new), ups, Nothing)
    BY <2>1, <2>2
  <2>4. row[1] = "value"
    BY <1>3
  <2>. QED  BY <1>1, <2>3, <2>4, SimplyWithin
<1>6. CASE call.op \in {"authorize", "set default"}
  <2>1. \/ o = Refused
        \/ \E ups : o = Writes(NoRows, ups, Nothing)
    BY <1>6 DEF SetupOutcome, AuthorizeConnection, SetDefault, Update
  <2>. QED  BY <1>1, <2>1, SimplyWithin
<1>. QED  BY <1>2, <1>4, <1>5, <1>6 DEF SettingUp

LEMMA GraphStaysWithin ==
  ASSUME NEW call, BelongsTo("modules", call), NEW seen
  PROVE  Within("modules", ModuleOutcome(call, seen))
<1>1. StoreKinds("modules") = {"module", "edge"} /\ ReadOnly("modules") = {}
  BY DEF StoreKinds, ReadOnly
<1>2. GraphGrows(ModuleOutcome(call, seen), Edges(seen))
  BY GraphDecision DEF BelongsTo
<1>3. \A n : ModuleRow(n)[1] = "module" /\ EdgeRow(n)[1] = "edge"
  BY DEF ModuleRow, EdgeRow
<1>. QED  BY <1>1, <1>2, <1>3, SimplyWithin DEF GraphGrows, Insert, Update

LEMMA AssumptionsStayWithin ==
  ASSUME NEW call, BelongsTo("assumptions", call), NEW seen
  PROVE  Within("assumptions", AssumptionOutcome(call, seen))
<1>. PICK o : o = AssumptionOutcome(call, seen)
  OBVIOUS
<1>1. "assumption" \in StoreKinds("assumptions") /\ ReadOnly("assumptions") = {}
  BY DEF StoreKinds, ReadOnly
<1>2. \/ o = Refused
      \/ \E value : o = Insert(AssumptionRow(call.id), value)
      \/ \E value : o = Update(call.row, value)
  BY DEF AssumptionOutcome, RecordAssumption, MoveAssumption
<1>. QED  BY <1>1, <1>2, SimplyWithin DEF AssumptionRow, Insert, Update

LEMMA DeliverablesStayWithin ==
  ASSUME NEW call, BelongsTo("deliverables", call), NEW seen
  PROVE  Within("deliverables", DeliverableOutcome(call, seen))
<1>. DEFINE s == "deliverables"
<1>. PICK o : o = DeliverableOutcome(call, seen)
  OBVIOUS
<1>1. "deliverable" \in StoreKinds(s) /\ ReadOnly(s) = {} /\ \A next : Delivering(next) => BelongsTo(s, next)
  BY DEF StoreKinds, ReadOnly, BelongsTo
<1>2. Delivering(call)
  BY DEF BelongsTo
<1>. HIDE DEF s
<1>3. ASSUME NEW op \in {"read confirmed", "read proposed", "read pins"}, NEW content
      PROVE  BelongsTo(s, Step(op, call, content))
  <2>. PICK next : next = Step(op, call, content)
    OBVIOUS
  <2>1. next.op = op
    BY DEF Step
  <2>2. Delivering(next)
    BY <2>1 DEF Delivering
  <2>. QED  BY <1>1, <2>2
<1>4. ASSUME NEW content, NEW pins
      PROVE  BelongsTo(s, [op |-> "record deliverable", content |-> content, pins |-> pins])
  <2>. PICK next : next = [op |-> "record deliverable", content |-> content, pins |-> pins]
    OBVIOUS
  <2>1. Delivering(next)
    BY DEF Delivering
  <2>. QED  BY <1>1, <2>1
<1>5. CASE call.op \in {"change", "replace", "withdraw"}
  <2>1. \/ o \in {Refused, Same}
        \/ \E ups : o = Writes(NoRows, ups, Nothing)
    BY <1>5 DEF DeliverableOutcome, Change, ReplaceDeliverable, WithdrawDeliverable, Update
  <2>. QED  BY <1>1, <2>1, SimplyWithin DEF s
<1>6. CASE call.op \in {"read revision", "read confirmed", "read proposed"}
  <2>1. \/ o \in {Refused, Same}
        \/ \E content : \E op \in {"read confirmed", "read proposed", "read pins"} : o = Goto(Step(op, call, content))
    BY <1>6 DEF DeliverableOutcome, ReadRevision, ReadConfirmed, ReadProposed
  <2>. QED  BY <1>3, <2>1, SimplyWithin DEF s
<1>7. CASE call.op = "read pins"
  <2>1. \E content, pins : o = Goto([op |-> "record deliverable", content |-> content, pins |-> pins])
    BY <1>7 DEF DeliverableOutcome, ReadPins
  <2>. QED  BY <1>4, <2>1, SimplyWithin DEF s
<1>8. CASE call.op = "record deliverable"
  <2>1. \/ o \in {Refused, Same}
        \/ \E value : o = Insert(DeliverableRow(call.content), value)
    BY <1>8 DEF DeliverableOutcome, RecordDeliverable
  <2>2. DeliverableRow(call.content)[1] = "deliverable"
    BY DEF DeliverableRow
  <2>. QED  BY <1>1, <2>1, <2>2, SimplyWithin DEF Insert, s
<1>. QED  BY <1>2, <1>5, <1>6, <1>7, <1>8 DEF Delivering, s

LEMMA SourcesStayWithin ==
  ASSUME NEW call, BelongsTo("sources", call), NEW seen
  PROVE  Within("sources", SourceOutcome(call, seen))
<1>. PICK o : o = SourceOutcome(call, seen)
  OBVIOUS
<1>1. "source" \in StoreKinds("sources") /\ ReadOnly("sources") = {}
  BY DEF StoreKinds, ReadOnly
<1>2. \/ o \in {Refused, Same}
      \/ \E row, value : o = Update(row, value)
      \/ \E value : o = Insert(SourceRow(call.location), value)
  BY DEF SourceOutcome, Register, Describe, StopReading, ResumeReading
<1>. QED  BY <1>1, <1>2, SimplyWithin DEF SourceRow, Insert, Update

LEMMA EvidenceStaysWithin ==
  ASSUME NEW call, BelongsTo("evidence", call), NEW seen
  PROVE  Within("evidence", EvidenceOutcome(call, seen))
<1>. DEFINE s == "evidence"
<1>. PICK o : o = EvidenceOutcome(call, seen)
  OBVIOUS
<1>1. StoreKinds(s) = {"evidence", "relation", "role", "event"} /\ ReadOnly(s) = {}
  BY DEF StoreKinds, ReadOnly
<1>2. Reconciling(call)
  BY DEF BelongsTo
<1>. HIDE DEF s
<1>3. CASE call.op = "reconcile"
  <2>1. SUFFICES ASSUME o \notin {Same, Refused}
                 PROVE  Within(s, o)
    BY SimplyWithin DEF s
  <2>. DEFINE edges == Plan(call.focus, seen)
              key   == EventRow(IF call.key = Nothing THEN <<"reconciliation", Digest(seen)>> ELSE call.key)
              roles == Roles(edges)
              changed == {i \in DOMAIN roles : MayAssign(i, roles[i], seen)}
              known == {i \in changed : RoleRow(i) \in DOMAIN seen}
              one == One(key, [print |-> Fingerprint(edges, seen)])
              missing == [r \in MissingEdges(edges, seen) |-> [resolved |-> FALSE]]
              given == [r \in {RoleRow(i) : i \in changed \ known} |-> [role |-> roles[r[2]]]]
              ins == Over(one, Over(missing, given))
              ups == [r \in {RoleRow(i) : i \in known} |-> [role |-> roles[r[2]]]]
  <2>2. o = Writes(ins, ups, Nothing)
    BY <1>3, <2>1 DEF EvidenceOutcome, Reconcile
  <2>3. \A r \in DOMAIN missing : r[1] = "relation"
    BY DEF MissingEdges, RelationRow
  <2>4. \A r \in DOMAIN given : r[1] = "role"
    <3>1. DOMAIN given = {RoleRow(i) : i \in changed \ known} /\ \A i : RoleRow(i)[1] = "role"
      BY DEF RoleRow
    <3>. QED  BY <3>1
  <2>5. DOMAIN one = {key} /\ key[1] = "event"
    BY Singles DEF EventRow
  <2>. HIDE DEF one, missing, given, edges, key, roles, changed, known, ups
  <2>6. DOMAIN ins = DOMAIN one \cup DOMAIN missing \cup DOMAIN given
    BY DEF Over
  <2>7. \A r \in DOMAIN ins : r[1] \in {"event", "relation", "role"}
    BY <2>3, <2>4, <2>5, <2>6
  <2>. HIDE DEF ins
  <2>. QED  BY <1>1, <2>2, <2>7, WritingWithin
<1>4. CASE call.op # "reconcile"
  <2>1. \/ o = Same
        \/ \E value : o = Insert(RoleRow(call.item), value)
        \/ \E ups : o = Writes(NoRows, ups, Nothing)
    BY <1>2, <1>4 DEF Reconciling, EvidenceOutcome, SetNoise, Judge, ResolveContradiction, Update
  <2>2. RoleRow(call.item)[1] = "role"
    BY DEF RoleRow
  <2>. QED  BY <1>1, <2>1, <2>2, SimplyWithin DEF Insert, s
<1>. QED  BY <1>3, <1>4 DEF s

LEMMA SubmissionsStayWithin ==
  ASSUME NEW call, BelongsTo("submissions", call), NEW seen
  PROVE  Within("submissions", SubmissionOutcome(call, seen))
<1>. DEFINE s == "submissions"
<1>. PICK o : o = SubmissionOutcome(call, seen)
  OBVIOUS
<1>1. /\ StoreKinds(s) = {"source", "session", "message", "reading", "review"} /\ ReadOnly(s) = {"source"}
  BY DEF StoreKinds, ReadOnly
<1>2. "op" \in DOMAIN call /\ Submitting(call) /\ (call.op = "close session" => call.session[1] = "session")
  BY DEF BelongsTo
<1>3. ASSUME NEW next, "op" \in DOMAIN next, Submitting(next), next.op # "close session"
      PROVE  BelongsTo(s, next)
  BY <1>3 DEF BelongsTo
<1>4. /\ \A n : SessionRow(n)[1] = "session" /\ MessageRow(n)[1] = "message"
      /\ \A n : ReadingRow(n)[1] = "reading" /\ ReviewRow(n)[1] = "review"
  BY DEF SessionRow, MessageRow, ReadingRow, ReviewRow
<1>. HIDE DEF s
<1>. DEFINE Onward == {"open session", "record message", "resolve replay", "enqueue", "accepted", "kept",
                       "enqueue review"}
<1>5. ASSUME NEW op \in Onward  PROVE BelongsTo(s, [call EXCEPT !.op = op])
  <2>. PICK next : next = [call EXCEPT !.op = op]
    OBVIOUS
  <2>1. DOMAIN next = DOMAIN call /\ next.op = op
    BY <1>2
  <2>. QED  BY <1>2, <1>3, <2>1 DEF Submitting
<1>6. ASSUME NEW session  PROVE BelongsTo(s, [call EXCEPT !.op = "record message", !.session = session])
  <2>. PICK next : next = [call EXCEPT !.op = "record message", !.session = session]
    OBVIOUS
  <2>1. DOMAIN next = DOMAIN call /\ next.op = "record message"
    BY <1>2
  <2>. QED  BY <1>2, <1>3, <2>1 DEF Submitting
<1>7. ASSUME NEW op \in Onward  PROVE BelongsTo(s, [call EXCEPT !.keys = Tail(@), !.op = op])
  <2>. PICK next : next = [call EXCEPT !.keys = Tail(@), !.op = op]
    OBVIOUS
  <2>1. DOMAIN next = DOMAIN call /\ next.op = op
    BY <1>2
  <2>. QED  BY <1>2, <1>3, <2>1 DEF Submitting
<1>8. ASSUME NEW missing  PROVE BelongsTo(s, [call EXCEPT !.op = "enqueue review", !.missing = missing])
  <2>. PICK next : next = [call EXCEPT !.op = "enqueue review", !.missing = missing]
    OBVIOUS
  <2>1. DOMAIN next = DOMAIN call /\ next.op = "enqueue review"
    BY <1>2
  <2>. QED  BY <1>2, <1>3, <2>1 DEF Submitting
<1>9. CASE call.op \in {"check source", "find session"}
  <2>1. \/ o \in {Same, Refused}
        \/ o = Goto([call EXCEPT !.op = "open session"])
        \/ \E session : o = Goto([call EXCEPT !.op = "record message", !.session = session])
    BY <1>9 DEF SubmissionOutcome, CheckSource, FindSession
  <2>. QED  BY <1>5, <1>6, <2>1, SimplyWithin DEF s
<1>10. CASE call.op = "open session"
  <2>. PICK next : next = [call EXCEPT !.op = "record message", !.session = SessionRow(call.id)]
    OBVIOUS
  <2>1. \E value : o = Writes(One(SessionRow(call.id), value), NoRows, next)
    BY <1>10 DEF SubmissionOutcome, OpenSession
  <2>2. BelongsTo(s, next) /\ SessionRow(call.id)[1] = "session"
    BY <1>4, <1>6
  <2>. QED  BY <1>1, <2>1, <2>2, SimplyWithin DEF s
<1>11. CASE call.op = "close session"
  <2>1. \E value : o = Writes(NoRows, One(call.session, value), Nothing)
    BY <1>11 DEF SubmissionOutcome, CloseSession, Update
  <2>. QED  BY <1>1, <1>2, <1>11, <2>1, SimplyWithin DEF s
<1>12. CASE call.op = "record message"
  <2>. PICK next, again, row : /\ next = ThenRead(call) /\ again = [call EXCEPT !.op = "resolve replay"]
                               /\ row = MessageRow(Key(call))
    OBVIOUS
  <2>1. BelongsTo(s, next) /\ BelongsTo(s, again)
    BY <1>5 DEF ThenRead
  <2>2. PICK value : o = [Writes(One(row, value), NoRows, next) EXCEPT !.clash = again]
    BY <1>12 DEF SubmissionOutcome, RecordMessage
  <2>3. PICK w : w = Writes(One(row, value), NoRows, next)
    OBVIOUS
  <2>4. /\ o.inserts = One(row, value) /\ o.updates = NoRows /\ o.deletes = {} /\ o.then = next /\ o.clash = again
    BY <2>2, <2>3 DEF Writes
  <2>5. PICK one : one = One(row, value)
    OBVIOUS
  <2>6. DOMAIN one = {row} /\ DOMAIN NoRows = {} /\ row[1] = "message"
    BY <1>4, <2>5, Singles
  <2>. QED  BY <1>1, <2>1, <2>4, <2>5, <2>6 DEF Within, s
<1>13. CASE call.op = "resolve replay"
  <2>1. \/ o = Refused
        \/ \E op \in Onward : o = Goto([call EXCEPT !.op = op])
    BY <1>13 DEF SubmissionOutcome, ResolveReplay, ThenRead
  <2>. QED  BY <1>5, <2>1, SimplyWithin DEF s
<1>14. CASE call.op = "enqueue"
  <2>. PICK op \in Onward : op = IF Len(call.keys) = 1 THEN "accepted" ELSE "record message"
    OBVIOUS
  <2>. PICK row, next : row = ReadingRow(Key(call)) /\ next = [call EXCEPT !.keys = Tail(@), !.op = op]
    OBVIOUS
  <2>1. o = Goto(next) \/ \E value : o = Writes(One(row, value), NoRows, next)
    BY <1>14 DEF SubmissionOutcome, Enqueue
  <2>2. BelongsTo(s, next) /\ row[1] = "reading"
    BY <1>4, <1>7
  <2>3. Within(s, Goto(next)) /\ \A value : Within(s, Writes(One(row, value), NoRows, next))
    <3>. HIDE DEF Onward
    <3>. QED  BY <1>1, <2>2, SimplyWithin
  <2>. QED  BY <2>1, <2>3 DEF s
<1>15. CASE call.op = "count outstanding"
  <2>1. \E missing : o = Goto([call EXCEPT !.op = "enqueue review", !.missing = missing])
    BY <1>15 DEF SubmissionOutcome, CountOutstanding
  <2>. QED  BY <1>8, <2>1, SimplyWithin DEF s
<1>16. CASE call.op = "enqueue review"
  <2>. PICK row, next : row = ReviewRow(call.keys) /\ next = [call EXCEPT !.op = "kept"]
    OBVIOUS
  <2>1. o = Goto(next) \/ \E value : o = Writes(One(row, value), NoRows, next)
    BY <1>16 DEF SubmissionOutcome, EnqueueReview
  <2>2. BelongsTo(s, next) /\ row[1] = "review"
    BY <1>4, <1>5
  <2>. QED  BY <1>1, <2>1, <2>2, SimplyWithin DEF s
<1>17. CASE call.op \in {"accepted", "kept"}
  BY <1>17, SimplyWithin DEF SubmissionOutcome, s
<1>. QED  BY <1>2, <1>9, <1>10, <1>11, <1>12, <1>13, <1>14, <1>15, <1>16, <1>17 DEF Submitting, s

LEMMA ProjectsStayWithin ==
  ASSUME NEW call, BelongsTo("projects", call), NEW seen
  PROVE  Within("projects", ProjectOutcome(call, seen))
<1>1. StoreKinds("projects") = {"project"} \cup Tables /\ ReadOnly("projects") = {}
  BY DEF StoreKinds, ReadOnly, Tables
<1>2. \A next : BelongsTo("projects", next) <=> HostingFits(next)
  BY DEF BelongsTo
<1>3. ProjectOutcome(call, seen).verdict = "done" => ProjectDecisionFits(ProjectOutcome(call, seen))
  BY <1>2, ProjectDecision
<1>. QED  BY <1>1, <1>2, <1>3 DEF Within, ProjectDecisionFits, RowRefers

LEMMA ClassificationStaysWithin ==
  ASSUME NEW call, BelongsTo("classification", call), NEW seen
  PROVE  Within("classification", ClassificationOutcome(call, seen))
<1>. DEFINE s == "classification"
<1>. PICK o : o = ClassificationOutcome(call, seen)
  OBVIOUS
<1>1. StoreKinds(s) = {"span", "update"} /\ ReadOnly(s) = {}
  BY DEF StoreKinds, ReadOnly
<1>2. \A next : BelongsTo(s, next) <=> ReadingCallFits(next)
  BY DEF BelongsTo
<1>. HIDE DEF s
<1>3. ReadingAnswers(o, call, seen)
  BY <1>2, ReadingDecision DEF s
<1>4. CASE o = Refused
  BY <1>4, SimplyWithin DEF s
<1>5. CASE Retires(o)
  <2>1. PICK ups, then : o = Writes(NoRows, ups, then) /\ (then = Nothing \/ ReadingCallFits(then))
    BY <1>5 DEF Retires
  <2>. QED  BY <1>1, <1>2, <2>1, WritingWithin, Singles DEF s
<1>6. CASE SettlesOne(o, call, seen)
  <2>1. PICK value : o = Writes(NoRows, One(call.row, value), Nothing)
    BY <1>6 DEF SettlesOne, Update
  <2>. QED  BY <1>1, <2>1, SimplyWithin DEF s
<1>7. CASE ReadsWhole(o, call, seen)
  <2>1. PICK read : /\ o = Writes(Over(read, Recorded(call, seen)), NoRows, Nothing) /\ call.op = "persist"
                    /\ DOMAIN read = {SpanRow(call.message, call.version, i) :
                                        i \in DOMAIN Finds[call.version][call.message]}
    BY <1>7 DEF ReadsWhole
  <2>2. PICK N \in Nat : N = Len(Finds[call.version][call.message]) /\ DOMAIN Finds[call.version][call.message] = 1 .. N
    BY <1>2, <2>1, StoresAssumption DEF ReadingCallFits, s
  <2>3. DOMAIN Recorded(call, seen) = RecordRows(call, N)
    BY <2>2, AllSpans DEF RecordsFit
  <2>. PICK records : records = Recorded(call, seen)
    OBVIOUS
  <2>4. PICK ins : ins = Over(read, records)
    OBVIOUS
  <2>5. DOMAIN ins = DOMAIN read \cup DOMAIN records
    BY <2>4 DEF Over
  <2>6. \A r \in DOMAIN ins : r[1] \in {"span", "update"}
    BY <2>1, <2>3, <2>5 DEF SpanRow, RecordRows, UpdateRow
  <2>. QED  BY <1>1, <2>1, <2>4, <2>6, WritingWithin, Singles DEF s
<1>. QED  BY <1>3, <1>4, <1>5, <1>6, <1>7 DEF ReadingAnswers, s

LEMMA PublicationsStayWithin ==
  ASSUME NEW call, BelongsTo("publication", call), NEW seen
  PROVE  /\ Connecting(call) => Within("publication", SetupOutcome(call, seen))
         /\ Publishing(call) => Within("publication", PublicationOutcome(call, seen))
<1>. DEFINE s == "publication"
<1>1. /\ {"connection", "file", "staged", "attempt"} \subseteq StoreKinds(s)
      /\ ReadOnly(s) = {"project", "deliverable", "target"}
  BY DEF StoreKinds, ReadOnly
<1>2. "op" \in DOMAIN call
  BY DEF BelongsTo
<1>3. ASSUME NEW next, "op" \in DOMAIN next, Publishing(next)
      PROVE  BelongsTo(s, next)
  BY <1>3 DEF BelongsTo
<1>4. /\ \A p, q : FileRow(p, q)[1] = "file" /\ StagedRow(p, q)[1] = "staged"
      /\ \A n : Connection(n)[1] = "connection" /\ AttemptRow(n)[1] = "attempt"
  BY DEF FileRow, StagedRow, Connection, AttemptRow
<1>. HIDE DEF s
<1>5. CASE Connecting(call)
  <2>. PICK o, row : o = SetupOutcome(call, seen) /\ row = IF call.op = "connect" THEN Connection(call.id) ELSE call.row
    OBVIOUS
  <2>1. row[1] = "connection" /\ call.op \in {"connect", "authorize"}
    BY <1>4, <1>5 DEF Connecting
  <2>2. o = Refused \/ \E value : o = Insert(row, value) \/ o = Update(row, value)
    BY <2>1 DEF SetupOutcome, RecordConnection, AuthorizeConnection
  <2>3. Within(s, Refused) /\ \A value : Within(s, Insert(row, value)) /\ Within(s, Update(row, value))
    BY <1>1, <2>1, SimplyWithin DEF Insert, Update
  <2>4. ~Publishing(call)
    BY <2>1 DEF Publishing
  <2>. QED  BY <2>2, <2>3, <2>4 DEF s
<1>6. CASE Publishing(call)
  <2>. PICK o : o = PublicationOutcome(call, seen)
    OBVIOUS
  <2>10. ~Connecting(call)
    BY <1>6 DEF Publishing, Connecting
  <2>. SUFFICES Within(s, o)
    BY <2>10 DEF s
  <2>. DEFINE Onward == {"authorize target", "render", "stage", "move", "record attempt"}
  <2>1. ASSUME NEW next, DOMAIN next = DOMAIN call, next.op \in Onward
        PROVE  BelongsTo(s, next)
    BY <1>2, <1>3, <2>1 DEF Publishing
  <2>2. ASSUME NEW op \in Onward  PROVE Within(s, Advance(call, op))
    <3>. PICK next : next = [call EXCEPT !.op = op]
      OBVIOUS
    <3>0. DOMAIN next = DOMAIN call /\ next.op \in Onward
      BY <1>2
    <3>1. BelongsTo(s, next)
      BY <2>1, <3>0
    <3>. QED  BY <3>1, SimplyWithin DEF Advance
  <2>3. ASSUME NEW why  PROVE Within(s, Fail(call, why))
    <3>. PICK next : next = [call EXCEPT !.op = "record attempt", !.state = why]
      OBVIOUS
    <3>0. DOMAIN next = DOMAIN call /\ next.op \in Onward
      BY <1>2
    <3>1. BelongsTo(s, next)
      BY <2>1, <3>0
    <3>. QED  BY <3>1, SimplyWithin DEF Fail
  <2>4. CASE call.op = "resolve"
    <3>. PICK target : target = Resolve(call.name, "deliverable", seen)
      OBVIOUS
    <3>. PICK next : next = [call EXCEPT !.op = "authorize target", !.target = target,
                              !.connection = seen[target].connection, !.prefix = seen[target].prefix]
      OBVIOUS
    <3>0. DOMAIN next = DOMAIN call /\ next.op \in Onward
      BY <1>2
    <3>1. BelongsTo(s, next)
      BY <2>1, <3>0
    <3>2. o = Fail(call, "failed") \/ o = Goto(next)
      BY <2>4 DEF PublicationOutcome, ResolveTarget
    <3>. QED  BY <2>3, <3>1, <3>2, SimplyWithin
  <2>5. CASE call.op = "authorize target"
    <3>1. o = Fail(call, "failed") \/ o = Advance(call, "render")
      BY <2>5 DEF PublicationOutcome, Permit
    <3>. QED  BY <2>2, <2>3, <3>1
  <2>6. CASE call.op = "render"
    <3>. PICK op \in Onward : op = IF Files(call.row) = {} THEN "record attempt" ELSE "stage"
      OBVIOUS
    <3>. PICK next : next = [call EXCEPT !.op = op, !.state = "published", !.left = Files(call.row)]
      OBVIOUS
    <3>0. DOMAIN next = DOMAIN call /\ next.op \in Onward
      BY <1>2
    <3>1. BelongsTo(s, next)
      BY <2>1, <3>0
    <3>2. o = Refused \/ o = Fail(call, "verification_failed") \/ o = Fail(call, "failed") \/ o = Goto(next)
      BY <2>6 DEF PublicationOutcome, Render
    <3>. QED  BY <2>3, <3>1, <3>2, SimplyWithin
  <2>7. CASE call.op = "stage"
    <3>. PICK next : next = [call EXCEPT !.op = "move"]
      OBVIOUS
    <3>0. DOMAIN next = DOMAIN call /\ next.op \in Onward
      BY <1>2
    <3>1. BelongsTo(s, next) /\ Beside(call)[1] = "staged"
      BY <1>4, <2>1, <3>0 DEF Beside
    <3>2. o = Fail(call, "failed") \/ \E value : o = Writes(NoRows, One(Beside(call), value), next)
      BY <2>7 DEF PublicationOutcome, Stage
    <3>3. \A value : Within(s, Writes(NoRows, One(Beside(call), value), next))
      BY <1>1, <3>1, SimplyWithin
    <3>. QED  BY <2>3, <3>2, <3>3
  <2>8. CASE call.op = "move"
    <3>. PICK op \in Onward : op = IF call.left = {FirstOf(call.left)} THEN "record attempt" ELSE "stage"
      OBVIOUS
    <3>. PICK next : next = [call EXCEPT !.left = @ \ {FirstOf(@)}, !.op = op]
      OBVIOUS
    <3>0. DOMAIN next = DOMAIN call /\ next.op \in Onward
      BY <1>2
    <3>1. BelongsTo(s, next)
      BY <2>1, <3>0
    <3>. PICK one, other : /\ one = One(Place(call), [bytes |-> seen[Beside(call)].bytes])
                           /\ other = One(Beside(call), [bytes |-> Nothing])
      OBVIOUS
    <3>. PICK ups : ups = Over(one, other)
      OBVIOUS
    <3>2. o = Refused \/ o = Writes(NoRows, ups, next)
      BY <2>8 DEF PublicationOutcome, Move
    <3>3. DOMAIN one = {Place(call)} /\ DOMAIN other = {Beside(call)} /\ DOMAIN ups = DOMAIN one \cup DOMAIN other
      BY Singles DEF Over
    <3>4. \A r \in DOMAIN ups : r[1] \in {"file", "staged"}
      BY <1>4, <3>3 DEF Place, Beside
    <3>5. Within(s, Writes(NoRows, ups, next))
      BY <1>1, <3>1, <3>4, WritingWithin, Singles
    <3>. QED  BY <3>2, <3>5, SimplyWithin
  <2>9. CASE call.op = "record attempt"
    <3>1. \E value : o = Insert(AttemptRow(call.id), value)
      BY <2>9 DEF PublicationOutcome, RecordAttempt
    <3>2. \A value : Within(s, Insert(AttemptRow(call.id), value))
      BY <1>1, <1>4, SimplyWithin DEF Insert
    <3>. QED  BY <3>1, <3>2
  <2>. QED  BY <1>6, <2>4, <2>5, <2>6, <2>7, <2>8, <2>9 DEF Publishing
<1>. QED  BY <1>5, <1>6

\* What a client may ask of a service is a call of that service.
LEMMA SubmissionsBelong ==
  ASSUME NEW d, NEW n, NEW call \in StoreAsked("submissions", d, n)
  PROVE  BelongsTo("submissions", call)
<1>1. SUFFICES "op" \in DOMAIN call /\ Submitting(call) /\ (call.op = "close session" => call.session[1] = "session")
  BY DEF BelongsTo
<1>2. CASE call \in DocumentRequests(n)
  <2>1. PICK document, m, p, l : call = Handed(n, document, m, p, l)
    BY <1>2 DEF DocumentRequests
  <2>2. "op" \in DOMAIN call /\ call.op \in {"open session", "check source"}
    BY <2>1 DEF Handed, Submission
  <2>. QED  BY <2>2 DEF Submitting
<1>3. CASE call \in ObservationRequests(n)
  <2>1. PICK k, p, i : call = Observed(n, k, p, i)
    BY <1>3 DEF ObservationRequests
  <2>2. "op" \in DOMAIN call /\ call.op = "find session"
    BY <2>1 DEF Observed, Submission
  <2>. QED  BY <2>2 DEF Submitting
<1>4. CASE call \in TurnRequests(d, n)
  <2>1. PICK k, p, r, i : call = Spoken(n, k, p, r, i)
    BY <1>4 DEF TurnRequests
  <2>2. "op" \in DOMAIN call /\ call.op = "record message"
    BY <2>1 DEF Spoken, Submission
  <2>. QED  BY <2>2 DEF Submitting
<1>5. CASE call \in CloseRequests(d, n)
  <2>1. PICK r \in Kind("session", d) :
          call = [Submission("close session", n, <<>>, Nothing, Nothing) EXCEPT !.session = r]
    BY <1>5 DEF CloseRequests
  <2>2. "op" \in DOMAIN call /\ call.op = "close session" /\ call.session = r
    BY <2>1 DEF Submission
  <2>. QED  BY <2>2 DEF Submitting, Kind
<1>6. CASE call \in ReviewRequests(n)
  <2>1. PICK k : call = Submission("count outstanding", n, k, Nothing, Nothing)
    BY <1>6 DEF ReviewRequests
  <2>2. "op" \in DOMAIN call /\ call.op = "count outstanding"
    BY <2>1 DEF Submission
  <2>. QED  BY <2>2 DEF Submitting
<1>. QED  BY <1>2, <1>3, <1>4, <1>5, <1>6 DEF StoreAsked

LEMMA RequestsBelong ==
  ASSUME NEW s \in Stored, NEW d, NEW n, NEW call \in StoreAsked(s, d, n)
  PROVE  BelongsTo(s, call)
<1>1. CASE s = "setup values"
  <2>1. call \in AskRequests \cup AnswerRequests(d) \cup ConfigureRequests
    BY <1>1 DEF StoreAsked
  <2>. QED  BY <1>1, <2>1 DEF AskRequests, AnswerRequests, ConfigureRequests, BelongsTo, SettingUp
<1>2. CASE s = "setup targets"
  <2>1. call \in TargetRequests(d) \cup ConnectionRequests(d, n)
    BY <1>2 DEF StoreAsked
  <2>. QED  BY <1>2, <2>1 DEF TargetRequests, ConnectionRequests, BelongsTo, SettingUp
<1>3. CASE s = "modules"
  <2>1. call \in DefineRequests \cup RelateRequests(n) \cup ConfirmRequests
    BY <1>3 DEF StoreAsked
  <2>. QED  BY <1>3, <2>1 DEF DefineRequests, RelateRequests, ConfirmRequests, BelongsTo, Designing
<1>4. CASE s = "assumptions"
  <2>1. EndingFits(call)
    BY <1>4, EndingRequestsFit DEF StoreAsked
  <2>2. call.op \notin {"change", "read revision", "read confirmed", "read proposed", "read pins",
                        "record deliverable", "replace", "withdraw"}
    <3>1. CASE call \in RecordRequests(n) \cup ToolRecordRequests(n)
      <4>1. PICK risk, origin : risk \in Risks /\ call = From(risk, origin, n)
        BY <3>1 DEF RecordRequests, ToolRecordRequests
      <4>2. risk.op = "assume" /\ "op" \in DOMAIN risk
        BY <4>1 DEF Risks
      <4>3. call.op = "assume"
        BY <4>1, <4>2 DEF From, Over
      <4>. QED  BY <4>3
    <3>2. CASE call \in AcceptRequests(d) \cup EndAssumptionRequests(d)
      BY <3>2 DEF AcceptRequests, EndAssumptionRequests
    <3>. QED  BY <1>4, <3>1, <3>2 DEF StoreAsked, AssumptionRequests
  <2>. QED  BY <1>4, <2>1, <2>2 DEF EndingFits, Delivering, BelongsTo
<1>5. CASE s = "deliverables"
  <2>1. call \in ChangeRequests \cup AssembleRequests \cup EndRequests(d)
    BY <1>5 DEF StoreAsked
  <2>. QED  BY <1>5, <2>1 DEF ChangeRequests, AssembleRequests, EndRequests, BelongsTo, Delivering
<1>6. CASE s = "publication"
  <2>1. call \in PublishRequests(d, n) \cup ConnectionRequests(d, n)
    BY <1>6 DEF StoreAsked
  <2>2. CASE call \in PublishRequests(d, n)
    BY <1>6, <2>2 DEF PublishRequests, BelongsTo, Publishing
  <2>3. CASE call \in ConnectionRequests(d, n)
    BY <1>6, <2>3 DEF ConnectionRequests, BelongsTo, Connecting, Kind
  <2>. QED  BY <2>1, <2>2, <2>3
<1>7. CASE s = "evidence"
  <2>1. call \in EvidenceRequests(d, n)
    BY <1>7 DEF StoreAsked
  <2>. QED  BY <1>7, <2>1 DEF EvidenceRequests, BelongsTo, Reconciling
<1>8. CASE s = "sources"
  <2>1. call \in RegisterRequests \cup SourceRequests(d, n)
    BY <1>8 DEF StoreAsked
  <2>. QED  BY <1>8, <2>1 DEF RegisterRequests, SourceRequests, BelongsTo, Sourcing
<1>9. CASE s = "submissions"
  BY <1>9, SubmissionsBelong
<1>10. CASE s = "projects"
  <2>1. call \in CreateRequests(n) \cup ContentRequests(d, n) \cup DeletionRequests(d)
    BY <1>10 DEF StoreAsked
  <2>2. HostingFits(call)
    BY <2>1 DEF CreateRequests, ContentRequests, DeletionRequests, HostingFits, Hosting, ContentOps
  <2>. QED  BY <1>10, <2>2 DEF BelongsTo
<1>11. CASE s = "runs"
  <2>1. call \in DriveRequests(n) \cup RunRequests(d, n)
    BY <1>11 DEF StoreAsked
  <2>. QED  BY <1>11, <2>1 DEF DriveRequests, RunRequests, BelongsTo, Running, RunAnswers
<1>12. CASE s = "classification"
  <2>1. call \in ClassifyRequests(n) \cup SettleRequests(d)
    BY <1>12 DEF StoreAsked
  <2>2. ReadingCallFits(call)
    BY <2>1 DEF ClassifyRequests, SettleRequests, ReadingCallFits, Classifying, ReadingFields, Kind
  <2>. QED  BY <1>12, <2>2 DEF BelongsTo
<1>. QED  BY <1>1, <1>2, <1>3, <1>4, <1>5, <1>6, <1>7, <1>8, <1>9, <1>10, <1>11, <1>12 DEF Stored

\* What a service decides stays within it.
LEMMA DecisionsStayWithin ==
  ASSUME StoresAreServed, service \in Service, NEW call, BelongsTo(service, call), NEW seen
  PROVE  Within(service, Outcome(call, seen))
<1>0. service \in Stored
  BY Beginnings
<1>1. Outcome(call, seen) = StoreOutcome(call, seen)
  BY DEF StoresAreServed
<1>2. CASE service \in {"setup values", "setup targets"}
  <2>1. SettingUp(call)
    BY <1>2 DEF BelongsTo
  <2>2. StoreOutcome(call, seen) = SetupOutcome(call, seen)
    BY <2>1, OneAnswers
  <2>3. Within(service, SetupOutcome(call, seen))
    BY <1>2, SetupStaysWithin
  <2>. QED  BY <1>1, <2>2, <2>3
<1>3. CASE service = "modules"
  <2>1. Designing(call)
    BY <1>3 DEF BelongsTo
  <2>. QED  BY <1>1, <1>3, <2>1, OneAnswers, GraphStaysWithin
<1>4. CASE service = "assumptions"
  <2>1. Assuming(call)
    BY <1>4 DEF BelongsTo
  <2>. QED  BY <1>1, <1>4, <2>1, OneAnswers, AssumptionsStayWithin
<1>5. CASE service = "deliverables"
  <2>1. Delivering(call)
    BY <1>5 DEF BelongsTo
  <2>. QED  BY <1>1, <1>5, <2>1, OneAnswers, DeliverablesStayWithin
<1>6. CASE service = "publication"
  <2>1. Publishing(call) \/ Connecting(call)
    BY <1>6 DEF BelongsTo
  <2>2. Connecting(call) => SettingUp(call)
    BY DEF Connecting, SettingUp
  <2>. QED  BY <1>1, <1>6, <2>1, <2>2, OneAnswers, PublicationsStayWithin
<1>7. CASE service = "evidence"
  <2>1. Reconciling(call)
    BY <1>7 DEF BelongsTo
  <2>. QED  BY <1>1, <1>7, <2>1, OneAnswers, EvidenceStaysWithin
<1>8. CASE service = "sources"
  <2>1. Sourcing(call)
    BY <1>8 DEF BelongsTo
  <2>. QED  BY <1>1, <1>8, <2>1, OneAnswers, SourcesStayWithin
<1>9. CASE service = "submissions"
  <2>1. Submitting(call)
    BY <1>9 DEF BelongsTo
  <2>. QED  BY <1>1, <1>9, <2>1, OneAnswers, SubmissionsStayWithin
<1>10. CASE service = "projects"
  <2>1. Hosting(call)
    BY <1>10 DEF BelongsTo, HostingFits
  <2>. QED  BY <1>1, <1>10, <2>1, OneAnswers, ProjectsStayWithin
<1>11. CASE service = "runs"
  <2>1. Running(call)
    BY <1>11 DEF BelongsTo
  <2>. QED  BY <1>1, <1>11, <2>1, OneAnswers, RunsStayWithin
<1>12. CASE service = "classification"
  <2>1. Classifying(call)
    BY <1>12 DEF BelongsTo, ReadingCallFits
  <2>. QED  BY <1>1, <1>12, <2>1, OneAnswers, ClassificationStaysWithin
<1>. QED  BY <1>0, <1>2, <1>3, <1>4, <1>5, <1>6, <1>7, <1>8, <1>9, <1>10, <1>11, <1>12 DEF Stored

LEMMA ApartAtFirst ==
  ASSUME Init
  PROVE  Apart
<1>1. CallsShaped /\ \A c \in Caller : calls[c].call = Nothing
  BY Fields DEF Init, CallsShaped
<1>2. \A r \in DOMAIN tables : r[1] \in StoreKinds(service)
  BY Beginnings DEF Init, BeginsFit
<1>. QED  BY <1>1, <1>2 DEF Init, Apart, AsAtFirst

LEMMA ApartStays ==
  ASSUME StoresAreServed, Apart, [Next]_vars
  PROVE  Apart' /\ service' = service
<1>1. CASE UNCHANGED vars
  BY <1>1 DEF Apart, AsAtFirst, CallsShaped, vars
<1>2. ASSUME NEW c \in Caller, Steps(c)
      PROVE  Apart' /\ service' = service
  <2>0. service' = service /\ CallsShaped' /\ service \in Service /\ service \in Stored
    BY <1>2, Beginnings DEF Steps, Apart
  <2>. DEFINE RowsApart == (\A r \in DOMAIN tables' : r[1] \in StoreKinds(service)) /\ AsAtFirst(tables')
              Ours == calls'[c].call # Nothing => BelongsTo(service, calls'[c].call)
  <2>. SUFFICES RowsApart /\ Ours
    BY <1>2, <2>0 DEF Apart, Steps, AsAtFirst
  <2>1. tables' = tables => RowsApart
    BY DEF Apart
  <2>2. ASSUME NEW call, Turns(c, call), call # Nothing => BelongsTo(service, call)
        PROVE  RowsApart /\ Ours
    BY <2>1, <2>2, Fields DEF Turns, Resumed
  <2>3. CASE \E call \in Requests(service, tables, made + 1) : Turns(c, call)
    <3>1. PICK call \in Requests(service, tables, made + 1) : Turns(c, call)
      BY <2>3
    <3>2. call \in StoreAsked(service, tables, made + 1)
      BY <2>0, <3>1 DEF StoresAreServed
    <3>3. BelongsTo(service, call)
      BY <2>0, <3>2, RequestsBelong
    <3>. QED  BY <2>2, <3>1, <3>3
  <2>4. CASE Turns(c, Nothing) \/ (calls[c].phase # "idle" /\ Turns(c, calls[c].call))
    BY <2>2, <2>4 DEF Apart
  <2>5. CASE GoesOn(c)
    BY <2>1, <2>5 DEF GoesOn, Apart
  <2>6. ASSUME Is(c, "deciding")  PROVE Within(service, Decided(c))
    <3>1. BelongsTo(service, calls[c].call)
      BY <2>6 DEF Apart, CallsShaped, Is
    <3>. QED  BY <2>0, <3>1, DecisionsStayWithin DEF Decided
  <2>7. CASE Is(c, "deciding") /\ Decided(c).verdict = "done" /\ Turns(c, Decided(c).clash)
    BY <2>2, <2>6, <2>7 DEF Within
  <2>8. CASE Commit(c) /\ calls'[c] = Resumed(Decided(c).then)
    <3>. PICK o : o = Decided(c)
      OBVIOUS
    <3>1. /\ tables' = Written(tables, o) /\ Within(service, o) /\ o.verdict = "done"
      BY <2>6, <2>8 DEF Commit
    <3>2. /\ DOMAIN tables' = DOMAIN o.inserts \cup (DOMAIN tables \ o.deletes)
          /\ \A r \in (DOMAIN tables \ o.deletes) \ DOMAIN o.inserts :
               r \notin DOMAIN o.updates => tables'[r] = tables[r]
      BY <3>1 DEF Written, Over
    <3>3. \A r \in DOMAIN tables' : r[1] \in StoreKinds(service)
      BY <3>1, <3>2 DEF Within, Apart
    <3>4. \A r \in DOMAIN tables : r[1] \in ReadOnly(service) => r \in DOMAIN tables' /\ tables'[r] = tables[r]
      BY <3>1, <3>2 DEF Within
    <3>5. \A r \in DOMAIN tables' : r[1] \in ReadOnly(service) => r \in DOMAIN tables
      BY <3>1, <3>2 DEF Within
    <3>6. AsAtFirst(tables')
      BY <3>4, <3>5 DEF Apart, AsAtFirst
    <3>7. Ours
      BY <2>8, <3>1, Fields DEF Within, Resumed
    <3>. QED  BY <3>3, <3>6, <3>7
  <2>. QED  BY <1>2, <2>3, <2>4, <2>5, <2>7, <2>8, Reading DEF Steps
<1>. QED  BY <1>1, <1>2, EveryStep DEF Apart

\* The invariant of the services together.
StoresFit ==
  /\ Apart
  /\ service = "runs" => RunsFit
  /\ service \in {"setup values", "setup targets"} => SetupFits
  /\ service = "deliverables" => DeliverablesFit
  /\ service \in {"assumptions", "deliverables"} => EndingsFit
  /\ service = "sources" => SourcesFit
  /\ service = "submissions" => SubmissionsFit
  /\ service = "projects" => ProjectsFit
  /\ service = "publication" => PublicationsFit
  /\ service = "evidence" => EvidenceFits
  /\ service = "modules" => GraphFits
  /\ service = "classification" => ReadingStateFits

LEMMA StoresFitAtFirst ==
  ASSUME StoresAreServed, Init
  PROVE  StoresFit
<1>1. Apart /\ service \in Service
  BY ApartAtFirst DEF Apart
<1>2. service = "runs" => RunsFit
  BY <1>1, RunsServed, RunsFitAtFirst
<1>3. service \in {"setup values", "setup targets"} => SetupFits
  BY <1>1, SetupServed, SetupFitsAtFirst
<1>4. service = "deliverables" => DeliverablesFit
  BY <1>1, DeliverablesServed, DeliverablesFitAtFirst
<1>5. service \in {"assumptions", "deliverables"} => EndingsFit
  BY <1>1, EndingsServed, EndingsFitAtFirst
<1>6. service = "sources" => SourcesFit
  BY <1>1, SourcesServed, SourcesFitAtFirst
<1>7. service = "submissions" => SubmissionsFit
  BY <1>1, SubmissionsServed, SubmissionsFitAtFirst
<1>8. service = "projects" => ProjectsFit
  BY <1>1, ProjectsServed, ProjectsFitAtFirst
<1>9. service = "publication" => PublicationsFit
  BY <1>1, PublicationsServed, PublicationsFitAtFirst
<1>10. service = "evidence" => EvidenceFits
  BY EvidenceFitsAtFirst
<1>11. service = "modules" => GraphFits
  BY <1>1, GraphServed, GraphFitsAtFirst
<1>12. service = "classification" => ReadingStateFits
  BY <1>1, ReadingServed, ReadingFitsAtFirst
<1>. QED  BY <1>1, <1>2, <1>3, <1>4, <1>5, <1>6, <1>7, <1>8, <1>9, <1>10, <1>11, <1>12 DEF StoresFit

LEMMA StoresStayFit ==
  ASSUME StoresAreServed, StoresFit, [Next]_vars
  PROVE  StoresFit'
<1>1. Apart' /\ service' = service /\ service \in Service
  BY ApartStays DEF StoresFit, Apart
<1>2. service = "runs" => RunsFit'
  BY <1>1, RunsServed, RunsStayFit DEF StoresFit
<1>3. service \in {"setup values", "setup targets"} => SetupFits'
  BY <1>1, SetupServed, SetupStaysFit DEF StoresFit
<1>4. service = "deliverables" => DeliverablesFit'
  BY <1>1, DeliverablesServed, DeliverablesStayFit DEF StoresFit
<1>5. service \in {"assumptions", "deliverables"} => EndingsFit'
  BY <1>1, EndingsServed, EndingsStayFit DEF StoresFit
<1>6. service = "sources" => SourcesFit'
  BY <1>1, SourcesServed, SourcesStayFit DEF StoresFit
<1>7. service = "submissions" => SubmissionsFit'
  BY <1>1, SubmissionsServed, SubmissionsStayFit DEF StoresFit
<1>8. service = "projects" => ProjectsFit'
  BY <1>1, ProjectsServed, ProjectsStayFit DEF StoresFit
<1>9. service = "publication" => PublicationsFit'
  BY <1>1, PublicationsServed, PublicationsStayFit DEF StoresFit
<1>10. service = "evidence" => EvidenceFits'
  BY <1>1, EvidenceServed, EvidenceStaysFit DEF StoresFit
<1>11. service = "modules" => GraphFits'
  BY <1>1, GraphServed, GraphStaysFit DEF StoresFit
<1>12. service = "classification" => ReadingStateFits'
  BY <1>1, ReadingServed, ReadingStaysFit DEF StoresFit
<1>. QED  BY <1>1, <1>2, <1>3, <1>4, <1>5, <1>6, <1>7, <1>8, <1>9, <1>10, <1>11, <1>12 DEF StoresFit

\* The rows and the calls that only one service has, or two.
LEMMA OwnRows ==
  ASSUME NEW s \in Stored, NEW d, \A r \in DOMAIN d : r[1] \in StoreKinds(s)
  PROVE  /\ s # "runs" => Kind("result", d) = {}
         /\ s \notin {"setup values", "setup targets"} => Kind("value", d) = {}
         /\ s \notin {"setup values", "setup targets", "publication"} => Kind("target", d) = {}
         /\ s \notin {"deliverables", "publication"} => Kind("deliverable", d) = {}
         /\ s \notin {"assumptions", "deliverables"} => Kind("assumption", d) = {}
         /\ s \notin {"sources", "submissions"} => Kind("source", d) = {}
         /\ s # "publication" => Kind("attempt", d) = {}
         /\ s # "evidence" => Kind("role", d) = {}
         /\ s # "modules" => Kind("module", d) = {} /\ Kind("edge", d) = {}
         /\ s # "classification" => Kind("span", d) = {} /\ Kind("update", d) = {}
<1>1. "publication" # s => "attempt" \notin StoreKinds(s)
  BY TablesAre DEF Stored, StoreKinds, Tables
<1>2. /\ s # "runs" => "result" \notin StoreKinds(s)
      /\ s \notin {"setup values", "setup targets"} => "value" \notin StoreKinds(s)
      /\ s \notin {"setup values", "setup targets", "publication"} => "target" \notin StoreKinds(s)
  BY TablesAre DEF Stored, StoreKinds, Tables
<1>3. /\ s \notin {"deliverables", "publication"} => "deliverable" \notin StoreKinds(s)
      /\ s \notin {"assumptions", "deliverables"} => "assumption" \notin StoreKinds(s)
      /\ s \notin {"sources", "submissions"} => "source" \notin StoreKinds(s)
  BY TablesAre DEF Stored, StoreKinds, Tables
<1>4. /\ s # "evidence" => "role" \notin StoreKinds(s)
      /\ s # "modules" => "module" \notin StoreKinds(s) /\ "edge" \notin StoreKinds(s)
      /\ s # "classification" => "span" \notin StoreKinds(s) /\ "update" \notin StoreKinds(s)
  BY TablesAre DEF Stored, StoreKinds, Tables
<1>. QED  BY <1>1, <1>2, <1>3, <1>4 DEF Kind

LEMMA OwnCalls ==
  ASSUME NEW s \in Stored, NEW call, BelongsTo(s, call)
  PROVE  /\ call.op = "stream ended" => s = "runs"
         /\ call.op = "accepted" => s = "submissions"
         /\ call.op = "delete project" => s = "projects"
BY DEF Stored, BelongsTo, SettingUp, Designing, Assuming, Delivering, Publishing, Connecting, Reconciling,
       Sourcing, Submitting, HostingFits, Hosting, Running, ReadingCallFits, Classifying

\* What a service only reads, each of its states has as the first.
LEMMA OnlyRead ==
  ASSUME Apart, NEW kind \in ReadOnly(service)
  PROVE  /\ Kind(kind, tables) = Kind(kind, Beginning(service))
         /\ \A r \in Kind(kind, tables) : tables[r] = Beginning(service)[r]
BY DEF Apart, AsAtFirst, Kind

LEMMA WhatIsOnlyReadStays ==
  ASSUME StoresAreServed, StoresFit, [Next]_vars, NEW kind \in ReadOnly(service)
  PROVE  /\ Kind(kind, tables') = Kind(kind, tables)
         /\ \A r \in Kind(kind, tables) : tables'[r] = tables[r]
<1>1. Apart /\ Apart' /\ service' = service
  BY ApartStays DEF StoresFit
<1>. QED  BY <1>1 DEF Apart, AsAtFirst, Kind

LEMMA OwnOnes ==
  ASSUME StoresFit
  PROVE  /\ service \in Service /\ service \in Stored /\ Apart
         /\ \A r \in DOMAIN tables : r[1] \in StoreKinds(service)
         /\ \A c \in Caller : calls[c].call # Nothing => BelongsTo(service, calls[c].call)
BY Beginnings DEF StoresFit, Apart

-----------------------------------------------------------------------------
(* What the services promise, whichever of them a behaviour is about       *)

\* Where stale reads are refused, a key has the results of one run, written once,
\* however many processes drive it, fail, are interrupted or resumed.
THEOREM ResultsAreOne ==
  ASSUME StoresAreServed
  PROVE  Spec => []OneResultPerKey
<1>1. ASSUME StoresFit  PROVE OneResultPerKey
  <2>1. CASE service = "runs"
    BY <1>1, <2>1, ResultsOfRuns DEF StoresFit
  <2>2. CASE service # "runs"
    BY <1>1, <2>2, OwnOnes, OwnRows DEF OneResultPerKey
  <2>. QED  BY <2>1, <2>2
<1>. QED  BY <1>1, StoresFitAtFirst, StoresStayFit, PTL DEF Spec

\* Where stale reads are refused, the last state a closed stream has shown is the
\* state its run stays in.
THEOREM StreamsEndTruly ==
  ASSUME StoresAreServed
  PROVE  Spec => []StreamShowsTheEnd
<1>1. ASSUME StoresFit  PROVE StreamShowsTheEnd
  <2>1. CASE service = "runs"
    BY <1>1, <2>1, StreamsOfRuns DEF StoresFit
  <2>2. CASE service # "runs"
    BY <1>1, <2>2, OwnOnes, OwnCalls DEF StreamShowsTheEnd
  <2>. QED  BY <2>1, <2>2
<1>. QED  BY <1>1, StoresFitAtFirst, StoresStayFit, PTL DEF Spec

\* Once a purpose has a default target it has exactly one for good, at either
\* isolation level and whoever moves it; a publication moves none.
THEOREM DefaultStays ==
  ASSUME StoresAreServed
  PROVE  Spec => DefaultIsKept
<1>1. ASSUME StoresFit, [Next]_vars  PROVE [DefaultsStay]_vars
  <2>1. CASE service \in {"setup values", "setup targets"}
    BY <1>1, <2>1, OwnOnes, SetupServed, DefaultsOfSetup DEF StoresFit
  <2>2. CASE service = "publication"
    <3>1. "target" \in ReadOnly(service)
      BY <2>2 DEF ReadOnly
    <3>2. SetupRowsFit(Beginning(service))
      BY <1>1, <2>2, OwnOnes, Beginnings DEF BeginsFit
    <3>3. \A p : /\ DefaultsOf(p, tables) = DefaultsOf(p, Beginning(service))
                 /\ DefaultsOf(p, tables') = DefaultsOf(p, tables)
      BY <1>1, <3>1, OnlyRead, OwnOnes, WhatIsOnlyReadStays DEF DefaultsOf
    <3>. QED  BY <3>2, <3>3, OneIsThere DEF DefaultsStay
  <2>3. CASE service \notin {"setup values", "setup targets", "publication"}
    <3>1. Kind("target", tables) = {}
      BY <1>1, <2>3, OwnOnes, OwnRows
    <3>. QED  BY <3>1 DEF DefaultsStay, DefaultsOf
  <2>. QED  BY <2>1, <2>2, <2>3
<1>. QED  BY <1>1, StoresFitAtFirst, StoresStayFit, PTL DEF Spec, DefaultIsKept, DefaultsStay

\* Where stale reads are refused, a value of a field and the person it is confirmed
\* by come from one call.
THEOREM ValuesAreWhole ==
  ASSUME StoresAreServed
  PROVE  Spec => ConfirmedAsWritten
<1>1. ASSUME StoresFit, [Next]_vars  PROVE [WrittenWhole]_vars
  <2>1. CASE service \in {"setup values", "setup targets"}
    BY <1>1, <2>1, OwnOnes, SetupServed, ValuesOfSetup DEF StoresFit
  <2>2. CASE service \notin {"setup values", "setup targets"}
    <3>1. /\ service \in Stored
          /\ \A r \in DOMAIN tables' : r[1] \in StoreKinds(service)
      BY <1>1, OwnOnes, ApartStays DEF Apart
    <3>2. Kind("value", tables') = {}
      BY <2>2, <3>1, OwnRows
    <3>. QED  BY <3>2 DEF WrittenWhole
  <2>. QED  BY <2>1, <2>2
<1>. QED  BY <1>1, StoresFitAtFirst, StoresStayFit, PTL DEF Spec, ConfirmedAsWritten, WrittenWhole

\* A deliverable that is not reported as stale says what the project says, at either
\* isolation level, however many assemblies and changes are in progress.
THEOREM StaleIsReported ==
  ASSUME StoresAreServed
  PROVE  Spec => []StalenessIsNoticed
<1>1. ASSUME StoresFit  PROVE StalenessIsNoticed
  <2>1. CASE service = "deliverables"
    BY <1>1, <2>1, StaleOnesTell DEF StoresFit, DeliverablesFit
  <2>2. CASE service = "publication"
    <3>1. DeliverableRowsFit(Beginning(service))
      BY <1>1, <2>2, OwnOnes, Beginnings DEF BeginsFit
    <3>2. "deliverable" \in ReadOnly(service) /\ "project" \in ReadOnly(service) /\ ProjectRow[1] = "project"
      BY <2>2 DEF ReadOnly, ProjectRow
    <3>3. /\ Kind("deliverable", tables) = Kind("deliverable", Beginning(service))
          /\ Kind("project", tables) = Kind("project", Beginning(service))
          /\ \A r \in Kind("project", tables) : tables[r] = Beginning(service)[r]
      BY <1>1, <3>2, OnlyRead, OwnOnes
    <3>4. ProjectRow \in DOMAIN tables /\ tables[ProjectRow] = Beginning(service)[ProjectRow]
      BY <3>1, <3>2, <3>3 DEF DeliverableRowsFit, Kind
    <3>5. DeliverableRowsFit(tables)
      BY <3>1, <3>3, <3>4 DEF DeliverableRowsFit
    <3>. QED  BY <3>5, StaleOnesTell
  <2>3. CASE service \notin {"deliverables", "publication"}
    BY <1>1, <2>3, OwnOnes, OwnRows DEF StalenessIsNoticed
  <2>. QED  BY <2>1, <2>2, <2>3
<1>. QED  BY <1>1, StoresFitAtFirst, StoresStayFit, PTL DEF Spec

\* When a submission is answered, every piece of it is recorded and waits to be
\* read, whatever became of earlier attempts and whether or not stale reads are refused.
THEOREM AcceptedStaysQueued ==
  ASSUME StoresAreServed
  PROVE  Spec => []AcceptedIsQueued
<1>1. ASSUME StoresFit  PROVE AcceptedIsQueued
  <2>1. CASE service = "submissions"
    BY <1>1, <2>1, AcceptedOnes DEF StoresFit
  <2>2. CASE service # "submissions"
    BY <1>1, <2>2, OwnOnes, OwnCalls DEF AcceptedIsQueued
  <2>. QED  BY <2>1, <2>2
<1>. QED  BY <1>1, StoresFitAtFirst, StoresStayFit, PTL DEF Spec

\* A deletion that meets no concurrent write is not stopped by what the project
\* holds and leaves no row of it, whatever was written there, and in which order,
\* before: at both isolation levels.
THEOREM DeletionsAreWhole ==
  ASSUME StoresAreServed
  PROVE  Spec => []NothingIsLeftBehind
<1>1. ASSUME StoresFit  PROVE NothingIsLeftBehind
  <2>1. CASE service = "projects"
    BY <1>1, <2>1, OwnOnes, ProjectsServed, DeletionsOfProjects DEF StoresFit
  <2>2. CASE service # "projects"
    <3>1. \A c \in Caller : Is(c, "deciding") => calls[c].call # Nothing
      BY <1>1 DEF StoresFit, Apart, CallsShaped, Is
    <3>. QED  BY <1>1, <2>2, <3>1, OwnOnes, OwnCalls DEF NothingIsLeftBehind
  <2>. QED  BY <2>1, <2>2
<1>. QED  BY <1>1, StoresFitAtFirst, StoresStayFit, PTL DEF Spec

\* An attempt recorded as published, by a target that gives each deliverable a
\* place of its own, left all its files there and each stays as the record says,
\* at both isolation levels, although no transaction guards the files.
THEOREM PublishedIsWhole ==
  ASSUME StoresAreServed
  PROVE  Spec => []PublishedStaysWhole
<1>1. ASSUME StoresFit  PROVE PublishedStaysWhole
  <2>1. CASE service = "publication"
    BY <1>1, <2>1, FilesOfPublications DEF StoresFit
  <2>2. CASE service # "publication"
    BY <1>1, <2>2, OwnOnes, OwnRows DEF PublishedStaysWhole
  <2>. QED  BY <2>1, <2>2
<1>. QED  BY <1>1, StoresFitAtFirst, StoresStayFit, PTL DEF Spec

\* Where stale reads are refused, the modules can always be put in a build order,
\* each after all it depends on, and each has one owner at most, however many
\* edges are added beside each other (relate of module_service.py, build_order and
\* would_cycle of domain/modules.py).
THEOREM GraphIsAnswered ==
  ASSUME StoresAreServed
  PROVE  Spec => []GraphAnswers
<1>1. ASSUME StoresFit  PROVE GraphAnswers
  <2>1. CASE service = "modules"
    BY <1>1, <2>1, AnswersOfGraph DEF StoresFit, GraphFits, GraphAnswers
  <2>2. CASE service # "modules"
    <3>1. Kind("module", tables) = {} /\ Kind("edge", tables) = {}
      BY <1>1, <2>2, OwnOnes, OwnRows
    <3>2. Edges(tables) = {} /\ IsFiniteSet(Kind("module", tables)) /\ \A m : Needs(m, {}) = {}
      BY <3>1, FS_EmptySet DEF Edges, Needs, Outgoing
    <3>3. GraphIsSound(tables)
      BY <3>2 DEF GraphIsSound, Grounded, OneOwner
    <3>. QED  BY <3>3, AnswersOfGraph
  <2>. QED  BY <2>1, <2>2
<1>. QED  BY <1>1, StoresFitAtFirst, StoresStayFit, PTL DEF Spec

\* A version reads a message once and whole at both isolation levels, however many
\* processes read it; and where stale reads are refused, each record names as
\* current what the last one of its subject before it reported, and each settlement
\* starts from where the one before it led (_persist and settle of
\* classification_service.py, latest_status of classification_repository.py).
THEOREM StatusesAreChained ==
  ASSUME StoresAreServed
  PROVE  Spec => []StatusesChain
<1>1. ASSUME StoresFit  PROVE StatusesChain
  <2>1. CASE service = "classification"
    BY <1>1, <2>1, ChainsOfRecords DEF StoresFit
  <2>2. CASE service # "classification"
    <3>1. Kind("span", tables) = {} /\ Kind("update", tables) = {}
      BY <1>1, <2>2, OwnOnes, OwnRows
    <3>2. ReadOnce
      BY <3>1 DEF ReadOnce, SpansOf
    <3>. QED  BY <3>1, <3>2 DEF StatusesChain
  <2>. QED  BY <2>1, <2>2
<1>. QED  BY <1>1, StoresFitAtFirst, StoresStayFit, PTL DEF Spec

\* Where stale reads are refused, an assumption that was rejected or retired and a
\* deliverable that was superseded or withdrawn stay as they are, by whom included;
\* a publication decides about none.
THEOREM EndsAreFinal ==
  ASSUME StoresAreServed
  PROVE  Spec => [][Serializable => EndsStand]_vars
<1>1. ASSUME StoresFit, [Next]_vars  PROVE [Serializable => EndsStand]_vars
  <2>1. CASE service \in {"assumptions", "deliverables"}
    BY <1>1, <2>1, OwnOnes, EndingsServed, EndsOfDecisions DEF StoresFit
  <2>2. CASE service = "publication"
    <3>1. "deliverable" \in ReadOnly(service) /\ Kind("assumption", tables) = {}
      BY <1>1, <2>2, OwnOnes, OwnRows DEF ReadOnly
    <3>. QED  BY <1>1, <3>1, WhatIsOnlyReadStays DEF EndsStand
  <2>3. CASE service \notin {"assumptions", "deliverables", "publication"}
    BY <1>1, <2>3, OwnOnes, OwnRows DEF EndsStand
  <2>. QED  BY <2>1, <2>2, <2>3
<1>. QED  BY <1>1, StoresFitAtFirst, StoresStayFit, PTL DEF Spec

\* Where stale reads are refused, the time a source was first retired is moved by
\* no call; reading the source again takes it back, and a submission only asks
\* whether the source is there.
THEOREM RetirementIsDatedOnce ==
  ASSUME StoresAreServed
  PROVE  Spec => [][Serializable => FirstRetirementStands]_vars
<1>1. ASSUME StoresFit, [Next]_vars  PROVE [Serializable => FirstRetirementStands]_vars
  <2>1. CASE service = "sources"
    BY <1>1, <2>1, OwnOnes, SourcesServed, RetirementsOfSources DEF StoresFit
  <2>2. CASE service = "submissions"
    <3>1. "source" \in ReadOnly(service)
      BY <2>2 DEF ReadOnly
    <3>. QED  BY <1>1, <3>1, WhatIsOnlyReadStays DEF FirstRetirementStands
  <2>3. CASE service \notin {"sources", "submissions"}
    BY <1>1, <2>3, OwnOnes, OwnRows DEF FirstRetirementStands
  <2>. QED  BY <2>1, <2>2, <2>3
<1>. QED  BY <1>1, StoresFitAtFirst, StoresStayFit, PTL DEF Spec

\* Where stale reads are refused, no pass over the evidence takes back what a
\* person called noise, one that was under way at the time included
\* (_persist_roles of reconciliation_service.py).
THEOREM NoiseIsFinal ==
  ASSUME StoresAreServed
  PROVE  Spec => [][Serializable => NoiseStands]_vars
<1>1. ASSUME StoresFit, [Next]_vars  PROVE [Serializable => NoiseStands]_vars
  <2>1. CASE service = "evidence"
    BY <1>1, <2>1, OwnOnes, EvidenceServed, NoiseOfEvidence DEF StoresFit
  <2>2. CASE service # "evidence"
    BY <1>1, <2>2, OwnOnes, OwnRows DEF NoiseStands
  <2>. QED  BY <2>1, <2>2
<1>. QED  BY <1>1, StoresFitAtFirst, StoresStayFit, PTL DEF Spec

\* What a person decided stands, whichever of the services it was decided in and
\* whatever was on its way at the time, where stale reads are refused.
THEOREM DecisionsAreFinal ==
  ASSUME StoresAreServed
  PROVE  Spec => DecisionsStand
<1>1. /\ [Serializable => EndsStand]_vars /\ [Serializable => FirstRetirementStands]_vars
      /\ [Serializable => NoiseStands]_vars
      => [Serializable => EndsStand /\ FirstRetirementStands /\ NoiseStands]_vars
  OBVIOUS
<1>. QED  BY <1>1, EndsAreFinal, RetirementIsDatedOnce, NoiseIsFinal, PTL DEF DecisionsStand
=============================================================================
