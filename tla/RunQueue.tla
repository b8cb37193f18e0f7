------------------------------ MODULE RunQueue ------------------------------
(***************************************************************************)
(* The durable run queue of the worker runtime: the agent_runs rows, the   *)
(* worker processes that claim, execute, checkpoint, fail and release them *)
(* (worker/runner.py over persistence/workspace_repositories.py), and the  *)
(* clients that submit runs (MemoryService.enqueue_run).                   *)
(*                                                                         *)
(* One action is one database transaction, except where READ COMMITTED     *)
(* lets other transactions commit between two statements of one            *)
(* transaction: there the transaction is two actions, the first of which   *)
(* leaves what it read in the process's local state.  What a step executes *)
(* is left open here (any outcome); module Extraction closes it.           *)
(***************************************************************************)
EXTENDS Integers, FiniteSets

CONSTANTS
  Worker,          \* worker processes, each with its own lease identity
  Client,          \* processes that submit runs
  NoWorker,        \* the NULL of the lease_owner column
  Key,             \* idempotency keys clients submit
  FollowUpKey,     \* idempotency keys of the runs a step may ask for
  NoKey,           \* a step that asks for no follow-up; the key of no run
  MaxRuns,         \* bound: rows ever inserted
  MaxSubmitted,    \* bound: rows inserted by clients
  LeaseTicks,      \* lease_seconds
  BackoffBase,     \* backoff_base_seconds
  MaxAttempts,     \* max_attempts
  MaxTime,         \* bound: the last instant of the clock
  FaultHorizon,    \* bound: no fault is injected after this instant
  MaxFaults,       \* bound: faults (crash, stop, raising step) injected
  Kinds,           \* the outcomes the executor at hand can produce
  Isolation        \* the isolation levels to consider

ASSUME ProcessAssumption == NoWorker \notin Worker
ASSUME KeyAssumption     == NoKey \notin Key \cup FollowUpKey
ASSUME BoundAssumption   ==
  /\ MaxRuns \in Nat \ {0} /\ MaxSubmitted \in Nat
  /\ LeaseTicks \in Nat \ {0} /\ BackoffBase \in Nat /\ MaxAttempts \in Nat \ {0}
  /\ MaxTime \in Nat /\ FaultHorizon \in Nat /\ MaxFaults \in Nat
ASSUME ExecutorAssumption  == Kinds \subseteq {"done", "more", "raised"}
ASSUME IsolationAssumption == Isolation \subseteq {"serializable", "read committed"}

Run    == 1 .. MaxRuns            \* a run is named by its place in created_at order
Status == {"pending", "running", "interrupted", "succeeded", "failed",
           "cancelled", "abandoned"}
Terminal  == {"succeeded", "cancelled", "abandoned"}
Never     == -1                   \* a NULL timestamp
Absent    == [status |-> "absent", key |-> NoKey, owner |-> NoWorker, token |-> 0,
              expires |-> Never, attempt |-> 1, nextAt |-> 0]

VARIABLES
  row,       \* Run -> the columns of its row
  now,       \* the clock every process reads
  worker,    \* Worker -> what the process holds in memory
  client,    \* Client -> what the submitting request holds in memory
  faults,    \* faults injected so far
  isolation  \* CockroachDB's isolation level or PostgreSQL's default, for good

vars == <<row, now, worker, client, faults, isolation>>

Serializable == isolation = "serializable"

-----------------------------------------------------------------------------
(* Rows *)

Present(r) == row[r].status # "absent"
IsNext(r)  == ~Present(r) /\ \A s \in Run : s < r => Present(s)
HasRoom    == \E r \in Run : ~Present(r)
\* Mutants of KeyTaken: the lookup ignores runs that are already finished; it
\* does not filter by key.
KeyInFlight(k) == \E r \in Run : /\ Present(r) /\ row[r].status \notin Terminal
                                /\ row[r].key = k
KeyTakenBySome(k) == \E r \in Run : Present(r)
KeyTaken(k) == \E r \in Run : Present(r) /\ row[r].key = k

\* UniqueConstraint("project_id", "idempotency_key", "attempt_number")
Collides(r, k, n) ==
  \E s \in Run \ {r} : Present(s) /\ row[s].key = k /\ row[s].attempt = n

NewRun(k, moment) == [Absent EXCEPT !.status = "pending", !.key = k, !.nextAt = moment]

\* Mutants of Claimable: finished runs are not filtered out; a failed run is
\* never picked up again.
ClaimableFinished(r, moment) ==
  /\ Present(r) /\ row[r].nextAt <= moment
  /\ row[r].status = "running" => row[r].expires # Never /\ row[r].expires <= moment
ClaimableNoRetry(r, moment) ==
  /\ row[r].status \in {"pending", "running"} /\ row[r].nextAt <= moment
  /\ row[r].status = "running" => row[r].expires # Never /\ row[r].expires <= moment

\* The WHERE clause of claim_next and the rows its loop does not skip.
Claimable(r, moment) ==
  /\ row[r].status \in {"pending", "running", "failed"}
  /\ row[r].nextAt <= moment
  /\ row[r].status = "running" => row[r].expires # Never /\ row[r].expires <= moment

-----------------------------------------------------------------------------
(* Workers *)

\* lease_expires_at
Until(moment) == moment + LeaseTicks

Phase == {"idle",        \* between two iterations of run_forever
          "claiming",    \* claim_next has read its candidates
          "claimed",     \* about to renew the lease before the next step
          "stepping",    \* the executor is running
          "returned",    \* the executor has returned or raised
          "committing",  \* save_fenced matched; its transaction is still open
          "releasing",   \* graceful shutdown: about to release the lease
          "down"}        \* no process

Outcome == [kind : {"done", "more", "raised"}, followUp : FollowUpKey \cup {NoKey}]
NoOutcome == [kind |-> "more", followUp |-> NoKey]

Idle == [phase |-> "idle", stopping |-> FALSE, moment |-> 0, cands |-> {},
         run |-> 1, token |-> 0, heartbeatAt |-> 0, attempt |-> 1, nextAt |-> 0,
         outcome |-> NoOutcome, insert |-> FALSE]

\* The process forgets the run and goes back to its loop.
Forget(w)  == [Idle EXCEPT !.stopping = worker[w].stopping]

\* Mutant of Fenced: the update matches the run without its owner and token.
FencedByNothing(w) == row[worker[w].run].expires > worker[w].heartbeatAt

\* `_fenced`: owner, token, and the expiry compared with the heartbeat the
\* worker loaded when it claimed the run.
Fenced(w) ==
  LET r == worker[w].run
  IN /\ row[r].owner = w
     /\ row[r].token = worker[w].token
     /\ row[r].expires > worker[w].heartbeatAt

\* A worker believes it owns its run from the claim until it lets go.
Believes(w) == worker[w].phase \in {"claimed", "stepping", "returned", "committing", "releasing"}

\* An open transaction that has updated a row makes other updates of it wait.
Locked(r) == \E v \in Worker : worker[v].phase = "committing" /\ worker[v].run = r

InPhase(w, p) == worker[w].phase = p
Goto(w, p)    == worker' = [worker EXCEPT ![w].phase = p]
LoseLease(w)  == worker' = [worker EXCEPT ![w] = Forget(w)] /\ UNCHANGED row

-----------------------------------------------------------------------------
(* Claiming.  The SELECT reads every candidate at one moment; the updates   *)
(* that follow compare only the lease token.                                *)

Candidate(r) == [run |-> r, token |-> row[r].token, attempt |-> row[r].attempt,
                 status |-> row[r].status, expires |-> row[r].expires]
Candidates(moment) == {Candidate(r) : r \in {s \in Run : Claimable(s, moment)}}

ClaimRead(w) ==
  /\ InPhase(w, "idle") /\ ~worker[w].stopping
  /\ Candidates(now) # {}
  /\ worker' = [worker EXCEPT ![w].phase = "claiming", ![w].moment = now,
                              ![w].cands = Candidates(now)]
  /\ UNCHANGED <<row, now, client, faults, isolation>>

IsFirst(w, c) == c \in worker[w].cands /\ \A d \in worker[w].cands : c.run <= d.run

\* Serializable isolation refuses to commit on a stale read.
Stale(c) == Serializable /\ Candidate(c.run) # c

NextToken(c) == c.token + 1

\* Mutant of Unclaimed: the update does not compare the token.
UnclaimedUnchecked(c) == TRUE
\* The compare-and-swap of the update: the row still has the token that was read.
Unclaimed(c) == row[c.run].token = c.token

ClaimWin(w) ==
  \E c \in worker[w].cands :
    LET r == c.run  moment == worker[w].moment
    IN /\ InPhase(w, "claiming") /\ IsFirst(w, c) /\ ~Locked(r) /\ ~Stale(c)
       /\ Unclaimed(c)
       /\ ~Collides(r, row[r].key, c.attempt + 1)
       /\ row' = [row EXCEPT ![r] =
                    [@ EXCEPT !.status = "running", !.owner = w, !.token = NextToken(c),
                              !.expires = Until(moment), !.attempt = c.attempt + 1]]
       /\ worker' = [worker EXCEPT ![w] =
                       [Forget(w) EXCEPT !.phase = "claimed", !.run = r,
                          !.token = NextToken(c), !.heartbeatAt = moment,
                          !.attempt = c.attempt + 1, !.nextAt = row[r].nextAt]]
       /\ UNCHANGED <<now, client, faults, isolation>>

\* The compare-and-swap matched no row: the loop tries its next candidate.
ClaimLose(w) ==
  \E c \in worker[w].cands :
    /\ InPhase(w, "claiming") /\ IsFirst(w, c) /\ ~Locked(c.run) /\ ~Stale(c)
    /\ ~Unclaimed(c)
    /\ worker' = [worker EXCEPT ![w] =
                    IF worker[w].cands = {c} THEN Forget(w)
                    ELSE [worker[w] EXCEPT !.cands = worker[w].cands \ {c}]]
    /\ UNCHANGED <<row, now, client, faults, isolation>>

\* SQLSTATE 40001: run_transaction starts the claim again.
ClaimRetry(w) ==
  \E c \in worker[w].cands :
    /\ InPhase(w, "claiming") /\ IsFirst(w, c) /\ Stale(c)
    /\ LET again == Candidates(worker[w].moment)
       IN worker' = [worker EXCEPT ![w] =
                       IF again = {} THEN Forget(w) ELSE [@ EXCEPT !.cands = again]]
    /\ UNCHANGED <<row, now, client, faults, isolation>>

\* The new attempt number is taken by another row of the same key, or the
\* retries are used up: the database's error leaves run_forever and ends the
\* process.
ClaimCollide(w) ==
  \E c \in worker[w].cands :
    /\ InPhase(w, "claiming") /\ IsFirst(w, c)
    /\ \/ Stale(c)
       \/ ~Locked(c.run) /\ Unclaimed(c) /\ Collides(c.run, row[c.run].key, c.attempt + 1)
    /\ worker' = [worker EXCEPT ![w] = [Idle EXCEPT !.phase = "down"]]
    /\ UNCHANGED <<row, now, client, faults, isolation>>

-----------------------------------------------------------------------------
(* Executing.  The lease is renewed before every step and never during one. *)

HeartbeatOk(w) ==
  /\ InPhase(w, "claimed") /\ Fenced(w)
  /\ row' = [row EXCEPT ![worker[w].run].expires = Until(now)]
  /\ Goto(w, "stepping")
  /\ UNCHANGED <<now, client, faults, isolation>>

HeartbeatLost(w) ==
  /\ InPhase(w, "claimed") /\ ~Fenced(w)
  /\ LoseLease(w)
  /\ UNCHANGED <<now, client, faults, isolation>>

\* The executor hands back an outcome; one that raises is a fault.
StepReturns(w, o) ==
  /\ InPhase(w, "stepping")
  /\ o.kind \in Kinds
  /\ o.followUp # NoKey => o.kind = "done" /\ HasRoom
  /\ worker' = [worker EXCEPT ![w].phase = "returned", ![w].outcome = o]
  /\ UNCHANGED <<row, now, client, isolation>>

CanFault == now <= FaultHorizon /\ faults < MaxFaults

Step(w) ==
  \E o \in Outcome :
    /\ StepReturns(w, o)
    /\ IF o.kind = "raised" THEN CanFault /\ faults' = faults + 1 ELSE UNCHANGED faults

\* save_fenced writes back the attempt number and the next attempt it loaded.
Saved(w, status, at) ==
  [row EXCEPT ![worker[w].run] =
     [@ EXCEPT !.status = status, !.attempt = worker[w].attempt, !.nextAt = at]]

Checkpoint(w) ==
  /\ InPhase(w, "returned") /\ worker[w].outcome.kind = "more"
  /\ IF Fenced(w)
     THEN /\ row' = Saved(w, "running", worker[w].nextAt)
          /\ Goto(w, IF worker[w].stopping THEN "releasing" ELSE "claimed")
     ELSE LoseLease(w)
  /\ UNCHANGED <<now, client, faults, isolation>>

Succeed(w) ==
  /\ InPhase(w, "returned")
  /\ worker[w].outcome.kind = "done" /\ worker[w].outcome.followUp = NoKey
  /\ IF Fenced(w)
     THEN /\ row' = Saved(w, "succeeded", worker[w].nextAt)
          /\ worker' = [worker EXCEPT ![w] = Forget(w)]
     ELSE LoseLease(w)
  /\ UNCHANGED <<now, client, faults, isolation>>

\* The first two statements of `_save` when the step asks for a follow-up:
\* the fenced update, then the lookup by key.
SaveBegin(w) ==
  /\ InPhase(w, "returned")
  /\ worker[w].outcome.kind = "done" /\ worker[w].outcome.followUp # NoKey
  /\ IF Fenced(w)
     THEN /\ worker' = [worker EXCEPT ![w].phase = "committing",
                          ![w].insert = ~KeyTaken(worker[w].outcome.followUp)]
          /\ UNCHANGED row
     ELSE LoseLease(w)
  /\ UNCHANGED <<now, client, faults, isolation>>

\* ... and its commit: success and follow-up land together or not at all.
SaveCommit(w) ==
  LET k == worker[w].outcome.followUp
      done == Saved(w, "succeeded", worker[w].nextAt)
  IN /\ InPhase(w, "committing")
     /\ ~(Serializable /\ worker[w].insert /\ KeyTaken(k))
     /\ IF worker[w].insert
        THEN /\ \A r \in Run : ~(Present(r) /\ row[r].key = k /\ row[r].attempt = 1)
             /\ \E r \in Run : IsNext(r) /\ row' = [done EXCEPT ![r] = NewRun(k, now)]
        ELSE row' = done
     /\ worker' = [worker EXCEPT ![w] = Forget(w)]
     /\ UNCHANGED <<now, client, faults, isolation>>

\* The insert violates the unique constraint, or the retries are used up:
\* nothing is written and the database's error ends the process.
SaveCollide(w) ==
  /\ InPhase(w, "committing") /\ worker[w].insert
  /\ \E r \in Run : Present(r) /\ row[r].key = worker[w].outcome.followUp
                              /\ (Serializable \/ row[r].attempt = 1)
  /\ worker' = [worker EXCEPT ![w] = [Idle EXCEPT !.phase = "down"]]
  /\ UNCHANGED <<row, now, client, faults, isolation>>

SaveRetry(w) ==
  /\ InPhase(w, "committing") /\ worker[w].insert /\ Serializable
  /\ KeyTaken(worker[w].outcome.followUp)
  /\ Goto(w, "returned")
  /\ UNCHANGED <<row, now, client, faults, isolation>>

Backoff(n) == BackoffBase * 2 ^ (n - 1)

\* A retry due after the last instant of the bounded clock is due at that instant.
RetryAt(n) == IF now + Backoff(n) \in 0 .. MaxTime THEN now + Backoff(n) ELSE MaxTime

\* `_fail`: retry after a backoff, or abandon once the budget is spent.
Fail(w) ==
  /\ InPhase(w, "returned") /\ worker[w].outcome.kind = "raised"
  /\ IF Fenced(w)
     THEN /\ row' = IF worker[w].attempt >= MaxAttempts
                    THEN Saved(w, "abandoned", worker[w].nextAt)
                    ELSE Saved(w, "failed", RetryAt(worker[w].attempt))
          /\ worker' = [worker EXCEPT ![w] = Forget(w)]
     ELSE LoseLease(w)
  /\ UNCHANGED <<now, client, faults, isolation>>

Release(w) ==
  /\ InPhase(w, "releasing")
  /\ IF Fenced(w) THEN row' = [row EXCEPT ![worker[w].run].expires = now]
                  ELSE UNCHANGED row
  /\ worker' = [worker EXCEPT ![w] = Forget(w)]
  /\ UNCHANGED <<now, client, faults, isolation>>

-----------------------------------------------------------------------------
(* Process control: a signal, the end of run_forever, a kill, a restart.    *)

RequestStop(w) ==
  /\ ~InPhase(w, "down") /\ ~worker[w].stopping /\ CanFault
  /\ worker' = [worker EXCEPT ![w].stopping = TRUE]
  /\ faults' = faults + 1
  /\ UNCHANGED <<row, now, client, isolation>>

Exit(w) ==
  /\ InPhase(w, "idle") /\ worker[w].stopping
  /\ worker' = [worker EXCEPT ![w] = [Idle EXCEPT !.phase = "down"]]
  /\ UNCHANGED <<row, now, client, faults, isolation>>

\* A kill at any point, the second signal and the shutdown deadline included.
Crash(w) ==
  /\ ~InPhase(w, "down") /\ CanFault
  /\ worker' = [worker EXCEPT ![w] = [Idle EXCEPT !.phase = "down"]]
  /\ faults' = faults + 1
  /\ UNCHANGED <<row, now, client, isolation>>

Restart(w) ==
  /\ InPhase(w, "down")
  /\ worker' = [worker EXCEPT ![w] = Idle]
  /\ UNCHANGED <<row, now, client, faults, isolation>>

-----------------------------------------------------------------------------
(* Submission: enqueue_run looks the key up, then inserts.                  *)

NoRequest == [phase |-> "idle", key |-> NoKey]
Submitted == {r \in Run : Present(r) /\ row[r].key \in Key}
Inserting == {c \in Client : client[c].phase = "inserting"}

EnqueueLookup(c, k) ==
  /\ client[c].phase = "idle" /\ ~KeyTaken(k)
  /\ Cardinality(Submitted) + Cardinality(Inserting) < MaxSubmitted
  /\ client' = [client EXCEPT ![c] = [phase |-> "inserting", key |-> k]]
  /\ UNCHANGED <<row, now, worker, faults, isolation>>

\* The insert commits, or the database refuses it: under serializable isolation
\* the request then finds the run, otherwise the caller sees an error.
EnqueueInsert(c) ==
  LET k == client[c].key
  IN /\ client[c].phase = "inserting"
     /\ client' = [client EXCEPT ![c] = NoRequest]
     /\ IF \/ Serializable /\ KeyTaken(k)
           \/ \E r \in Run : Present(r) /\ row[r].key = k /\ row[r].attempt = 1
        THEN UNCHANGED row
        ELSE \E r \in Run : IsNext(r) /\ row' = [row EXCEPT ![r] = NewRun(k, now)]
     /\ UNCHANGED <<now, worker, faults, isolation>>

Tick ==
  /\ now < MaxTime /\ now' = now + 1
  /\ UNCHANGED <<row, worker, client, faults, isolation>>

-----------------------------------------------------------------------------
Init ==
  /\ row = [r \in Run |-> Absent]
  /\ now = 0
  /\ worker = [w \in Worker |-> Idle]
  /\ client = [c \in Client |-> NoRequest]
  /\ faults = 0
  /\ isolation \in Isolation

Claim(w) == ClaimRead(w) \/ ClaimWin(w) \/ ClaimLose(w) \/ ClaimRetry(w) \/ ClaimCollide(w)
Settle(w) == \/ Checkpoint(w) \/ Succeed(w) \/ SaveBegin(w) \/ SaveCommit(w)
             \/ SaveCollide(w) \/ SaveRetry(w) \/ Fail(w) \/ Release(w)
Heartbeat(w) == HeartbeatOk(w) \/ HeartbeatLost(w)
Control(w) == RequestStop(w) \/ Exit(w) \/ Crash(w) \/ Restart(w)
Enqueue(c) == (\E k \in Key : EnqueueLookup(c, k)) \/ EnqueueInsert(c)

Next ==
  \/ \E w \in Worker : Claim(w) \/ Heartbeat(w) \/ Step(w) \/ Settle(w) \/ Control(w)
  \/ \E c \in Client : Enqueue(c)
  \/ Tick

Spec == Init /\ [][Next]_vars

Fairness ==
  /\ WF_vars(Tick)
  /\ \A w \in Worker :
       /\ WF_vars(Claim(w)) /\ WF_vars(Heartbeat(w)) /\ WF_vars(Step(w))
       /\ WF_vars(Settle(w)) /\ WF_vars(Exit(w)) /\ WF_vars(Restart(w))
  /\ \A c \in Client : WF_vars(EnqueueInsert(c))

-----------------------------------------------------------------------------
(* Types *)

RowType == [status : Status \cup {"absent"}, key : Key \cup FollowUpKey \cup {NoKey},
            owner : Worker \cup {NoWorker}, token : Nat, expires : Int,
            attempt : Nat \ {0}, nextAt : Nat]
CandidateType == [run : Run, token : Nat, attempt : Nat \ {0},
                  status : Status \cup {"absent"}, expires : Int]
WorkerType == [phase : Phase, stopping : BOOLEAN, moment : Nat,
               cands : SUBSET CandidateType, run : Run, token : Nat,
               heartbeatAt : Nat, attempt : Nat \ {0}, nextAt : Nat,
               outcome : Outcome, insert : BOOLEAN]
ClientType == [phase : {"idle", "inserting"}, key : Key \cup {NoKey}]

\* Every variable has its type.
TypeOK ==
  /\ row \in [Run -> RowType]
  /\ now \in Nat
  /\ worker \in [Worker -> WorkerType]
  /\ client \in [Client -> ClientType]
  /\ faults \in Nat
  /\ isolation \in Isolation

-----------------------------------------------------------------------------
(* Safety *)

Holds(w, r) == /\ Believes(w) /\ worker[w].run = r
               /\ row[r].owner = w /\ row[r].token = worker[w].token

\* Two workers that both believe they own a run never hold the same token of
\* it: at most one of them can pass the fence, however late the other wakes up
\* (the fencing token of Lease and claim_next's compare-and-swap).
TokensAreExclusive ==
  \A v, w \in Worker :
    v # w /\ Believes(v) /\ Believes(w) /\ worker[v].run = worker[w].run
      => worker[v].token # worker[w].token

\* The attempt number a run carries is the number of times it was claimed, plus
\* one: neither a checkpoint that writes back the number it loaded nor a claim
\* computed from an older read loses or repeats an attempt.
AttemptCountsClaims == \A r \in Run : row[r].attempt = row[r].token + 1

\* The expiry conjunct of `_fenced` never decides anything: whenever owner and
\* token match, the lease runs past the heartbeat the worker loaded when it
\* claimed, because the loaded heartbeat is never refreshed.  A lease that
\* expired long ago therefore still admits its owner's writes.
ExpiryNeverFences == \A w \in Worker : \A r \in Run :
  Holds(w, r) => row[r].expires > worker[w].heartbeatAt

\* A worker whose token was superseded changes no row, whatever it does next.
SupersededWritesNothing ==
  [][\A w \in Worker :
       (/\ Believes(w) /\ worker'[w] # worker[w]
        /\ row[worker[w].run].token # worker[w].token) => row' = row]_vars

\* When a step that asked for a follow-up succeeds, the follow-up is in the
\* queue in the same commit (`_save`), whoever inserted it first.
FollowUpLandsWithSuccess ==
  [][\A w \in Worker :
       LET r == worker[w].run  k == worker[w].outcome.followUp
       IN (/\ worker[w].phase \in {"returned", "committing"} /\ k # NoKey
           /\ worker'[w] # worker[w]
           /\ row[r].status # "succeeded" /\ row'[r].status = "succeeded")
             => \E s \in Run : row'[s].key = k]_vars

\* An idempotency key names at most one run (find_by_idempotency_key), where
\* stale reads are refused.
OneRunPerKey ==
  Serializable => \A r, s \in Run : Present(r) /\ Present(s) /\ row[r].key = row[s].key => r = s

-----------------------------------------------------------------------------
(* What the fence rests on: the facts that, together with the types, every   *)
(* step preserves (RunQueueProofs).                                          *)

\* A row nobody inserted was never claimed.
BlankUntilInserted == \A r \in Run : ~Present(r) => row[r].token = 0

\* A candidate is a row as it was at some earlier moment.
CandidatesAreOld ==
  \A w \in Worker : \A c \in worker[w].cands :
    c.token <= row[c.run].token /\ c.attempt = c.token + 1

\* A worker carries the token and the attempt number of one claim.
ClaimsAreCounted ==
  \A w \in Worker : Believes(w) =>
    worker[w].token > 0 /\ worker[w].attempt = worker[w].token + 1

\* An open save still has the row it matched.
CommitHoldsTheRow ==
  \A w \in Worker : InPhase(w, "committing") =>
    row[worker[w].run].token = worker[w].token

\* No process has read a later clock than the clock.
ClockIsAhead ==
  \A w \in Worker : worker[w].moment <= now /\ worker[w].heartbeatAt <= now

\* No worker is ahead of the row it works on: a token that was handed out is
\* the row's token or an older one, so a token is never handed out twice.
NoTokenFromTheFuture ==
  \A w \in Worker : Believes(w) => worker[w].token <= row[worker[w].run].token

\* What the tokens and the attempts preserve, taken together.
Tokens ==
  /\ BlankUntilInserted /\ CandidatesAreOld /\ ClaimsAreCounted
  /\ CommitHoldsTheRow /\ ClockIsAhead
  /\ AttemptCountsClaims /\ NoTokenFromTheFuture /\ TokensAreExclusive

-----------------------------------------------------------------------------
(* Liveness *)

\* Every run that was submitted is eventually finished for good, although
\* workers crash, stop, restart and raise: failed runs are retried after their
\* backoff, runs of dead workers are reclaimed after their lease.
EveryRunSettles ==
  \A r \in Run : Present(r) ~> row[r].status \in Terminal

-----------------------------------------------------------------------------
(* What the queue promises (LeaseQueue), read off the rows and the workers.  *)

AbstractPhase(status) ==
  CASE status = "absent"  -> "absent"
    [] status = "running" -> "held"
    [] status \in Terminal -> "over"
    [] OTHER -> "open"

Queue == INSTANCE LeaseQueue WITH
  Holder <- Worker,
  phase  <- [r \in Run |-> AbstractPhase(row[r].status)],
  token  <- [r \in Run |-> row[r].token],
  lease  <- [w \in Worker |-> IF Believes(w)
                               THEN [run |-> worker[w].run, token |-> worker[w].token]
                               ELSE [run |-> 0, token |-> 0]],
  exact  <- Serializable

\* Reads that another transaction overtakes, late saves, crashes, restarts and
\* retries never show: each step of the queue is a submission, a claim under a
\* token of its own, an end or a return by the holder of the latest token, a
\* lease let go, or nothing at all.
ImplementsLeaseQueue == Queue!Spec
=============================================================================
