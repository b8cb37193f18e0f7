------------------------------ MODULE AgentRuns ------------------------------
(***************************************************************************)
(* Runs a process drives itself, without lease or fence (agents/roles.py   *)
(* over start_run, write_knowledge and their like in memory_service.py),   *)
(* and the stream on which a browser follows a run (api/events.py).        *)
(***************************************************************************)
EXTENDS Transactions

CONSTANT RunKey

RunRow(n)         == <<"run", n>>
ResultRow(run, n) == <<"result", run, n>>   \* what one write said the run produced
UsedRow(run, n)   == <<"used", run, n>>     \* what the run read of confirmed knowledge

\* Mutant of FinalStatus: a failed run is taken for a finished one.
FinalStatusOrFailed == {"succeeded", "failed", "cancelled", "abandoned"}
\* TERMINAL_STATUSES and _ALLOWED_TRANSITIONS of AgentRun
FinalStatus == {"succeeded", "cancelled", "abandoned"}
RunMoves == [pending |-> {"running", "cancelled"},
             running |-> {"succeeded", "failed", "interrupted", "cancelled"},
             interrupted |-> {"running", "abandoned"}, failed |-> {"running", "abandoned"},
             succeeded |-> {}, cancelled |-> {}, abandoned |-> {}]
IsResumable(run) == run.status \in {"interrupted", "failed"}

RunsUnder(key, d) == {r \in Kind("run", d) : d[r].key = key}
Latest(key, d)    == CHOOSE r \in RunsUnder(key, d) : \A s \in RunsUnder(key, d) : d[s].attempt <= d[r].attempt
\* UniqueConstraint("project_id", "idempotency_key", "attempt_number")
AttemptsDiffer(d) ==
  \A r, s \in Kind("run", d) : r # s => <<d[r].key, d[r].attempt>> # <<d[s].key, d[s].attempt>>

-----------------------------------------------------------------------------
(* _execute, a step for each transaction it makes                          *)

\* A key that names a finished run replays it; one that names a run in any other
\* state drives that run as if it had been started here.
Drive(call, run) ==
  [call EXCEPT !.run = run, !.op = IF call.role = "architecture" THEN "consume" ELSE call.answer]
StartRun(call, seen) ==
  IF RunsUnder(call.key, seen) = {}
  THEN Writes(One(RunRow(call.id), [key |-> call.key, status |-> "running", attempt |-> 1,
                                    checkpoint |-> Nothing]),
              NoRows, Drive(call, RunRow(call.id)))
  ELSE LET run == Latest(call.key, seen)
       IN IF seen[run].status \in FinalStatus THEN Same ELSE Goto(Drive(call, run))

\* The architecture role takes confirmed knowledge and nothing else.
Consume(call) ==
  Writes(One(UsedRow(call.run, call.id), [by |-> call.id]), NoRows, [call EXCEPT !.op = call.answer])

-----------------------------------------------------------------------------
(* What happens to a run                                                   *)

\* ensure_run_transition, and the save of what differs.
Moved(run, status, new, seen, inserts) ==
  IF run \in DOMAIN seen /\ status \in RunMoves[seen[run].status]
  THEN Writes(inserts, One(run, Changed([new EXCEPT !.status = status], seen[run])), Nothing)
  ELSE Refused

\* Mutant of WriteResult: the run is completed by a call of its own (complete_run = False).
WriteResultOnly(call, seen) == Insert(ResultRow(call.run, call.id), [by |-> call.id])
\* Knowledge and success are one commit.
WriteResult(call, seen) ==
  Moved(call.run, "succeeded", seen[call.run], seen,
        One(ResultRow(call.run, call.id), [by |-> call.id]))
CompleteRun(call, seen) == Moved(call.run, "succeeded", seen[call.run], seen, NoRows)
FailRun(call, seen)     == Moved(call.run, "failed", seen[call.run], seen, NoRows)
InterruptRun(call, seen) ==
  Moved(call.run, "interrupted", [seen[call.run] EXCEPT !.checkpoint = call.id], seen, NoRows)
ResumeRun(call, seen) ==
  Moved(call.run, "running",
        [seen[call.run] EXCEPT !.attempt = IF IsResumable(seen[call.run]) THEN @ + 1 ELSE @], seen, NoRows)

-----------------------------------------------------------------------------
(* The stream                                                              *)

\* The first state is sent at once, a later one when its fingerprint differs;
\* a final one closes the stream.  A stream that times out is abandoned, and the
\* browser opens another.
Follow(call, seen) ==
  Goto([call EXCEPT !.shown = seen[call.run],
          !.op = IF seen[call.run].status \in FinalStatus THEN "stream ended" ELSE "follow"])

-----------------------------------------------------------------------------
(* What a client may ask                                                   *)

DriveRequests(n) ==
  {q \in [op : {"start run"}, key : RunKey, id : {n}, role : {"requirements", "architecture"},
          answer : {"write result", "fail run", "complete run"}, run : {Nothing}] :
     q.answer = "complete run" => q.role = "architecture"}
RunRequests(d, n) ==
  [op : {"interrupt run", "resume run"}, run : Kind("run", d), id : {n}]
  \cup [op : {"follow"}, run : Kind("run", d), shown : {Nothing}]

Running(call) == call.op \in {"start run", "consume", "write result", "complete run", "fail run",
                              "interrupt run", "resume run", "follow", "stream ended"}
RunReads(call, d) ==
  CASE call.op = "start run"                   -> RunsUnder(call.key, d)
    [] call.op \in {"consume", "stream ended"} -> {}
    [] OTHER                                   -> {call.run}
RunOutcome(call, seen) ==
  CASE call.op = "start run"     -> StartRun(call, seen)
    [] call.op = "consume"       -> Consume(call)
    [] call.op = "write result"  -> WriteResult(call, seen)
    [] call.op = "complete run"  -> CompleteRun(call, seen)
    [] call.op = "fail run"      -> FailRun(call, seen)
    [] call.op = "interrupt run" -> InterruptRun(call, seen)
    [] call.op = "resume run"    -> ResumeRun(call, seen)
    [] call.op = "follow"        -> Follow(call, seen)
    [] call.op = "stream ended"  -> Same

-----------------------------------------------------------------------------
(* Properties *)

\* "One run and one result set per key": where stale reads are refused,
\* processes that drive one key together, each with an answer of its own, leave
\* the knowledge of one of them.
OneResultPerKey ==
  Serializable => \A r, s \in Kind("result", tables) :
    tables[r[2]].key = tables[s[2]].key => r = s

\* A stream that was closed because its run ended has shown how it ended: where
\* stale reads are refused, the last state on it is the state the run stays in.
StreamShowsTheEnd ==
  Serializable => \A c \in Caller :
    calls[c].call # Nothing /\ calls[c].call.op = "stream ended" =>
      tables[calls[c].call.run] = calls[c].call.shown
=============================================================================
