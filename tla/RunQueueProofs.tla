--------------------------- MODULE RunQueueProofs ---------------------------
(***************************************************************************)
(* Theorems about the run queue, for any number of workers, clients, runs, *)
(* keys and faults and for both isolation levels: types and the fence, the *)
(* refinement of LeaseQueue, then keys and follow-ups.                     *)
(***************************************************************************)
(* Only ClaimWin moves a token; every other step leaves the tokens and the *)
(* attempts of the rows alone (RowsAreQuiet) and lets no worker believe    *)
(* something new (WorkersAreQuiet).                                        *)
(***************************************************************************)
EXTENDS RunQueue, TLAPS

-----------------------------------------------------------------------------
(* Types *)

LEMMA FirstRun == 1 \in Run /\ Run \subseteq Nat
BY BoundAssumption DEF Run

LEMMA IdleType == Idle \in WorkerType
BY FirstRun DEF Idle, WorkerType, Phase, Outcome, NoOutcome

LEMMA ForgetType ==
  ASSUME TypeOK, NEW w \in Worker
  PROVE  Forget(w) \in WorkerType
BY IdleType DEF Forget, TypeOK, WorkerType

LEMMA AbsentType == Absent \in RowType
BY DEF Absent, RowType, Never

LEMMA NewRunType ==
  ASSUME NEW k \in Key \cup FollowUpKey \cup {NoKey}, NEW moment \in Nat
  PROVE  NewRun(k, moment) \in RowType
BY AbsentType DEF NewRun, RowType, Status

LEMMA NoOutcomeType == NoOutcome \in Outcome
BY DEF NoOutcome, Outcome

LEMMA CandidatesType ==
  ASSUME TypeOK, NEW moment \in Nat
  PROVE  Candidates(moment) \subseteq CandidateType
BY DEF Candidates, Candidate, CandidateType, TypeOK, RowType

\* The columns a save writes, and those a claim writes.
LEMMA RowWritesType ==
  ASSUME NEW x \in RowType, NEW status \in Status, NEW n \in Nat \ {0}
  PROVE  /\ \A at \in Nat :
              [x EXCEPT !.status = status, !.attempt = n, !.nextAt = at] \in RowType
         /\ \A w \in Worker, t \in Nat, until \in Int :
              [x EXCEPT !.status = status, !.owner = w, !.token = t, !.expires = until,
                        !.attempt = n] \in RowType
<1>1. ASSUME NEW at \in Nat
      PROVE  [x EXCEPT !.status = status, !.attempt = n, !.nextAt = at] \in RowType
  BY DEF RowType
<1>2. ASSUME NEW w \in Worker, NEW t \in Nat, NEW until \in Int
      PROVE  [x EXCEPT !.status = status, !.owner = w, !.token = t, !.expires = until,
                       !.attempt = n] \in RowType
  BY DEF RowType
<1>. QED  BY <1>1, <1>2

LEMMA RowExpiresType ==
  ASSUME NEW x \in RowType, NEW until \in Int
  PROVE  [x EXCEPT !.expires = until] \in RowType
BY DEF RowType

LEMMA SavedType ==
  ASSUME TypeOK, NEW w \in Worker, NEW status \in Status, NEW at \in Nat
  PROVE  Saved(w, status, at) \in [Run -> RowType]
<1>1. worker[w].run \in Run /\ worker[w].attempt \in Nat \ {0}
  BY DEF TypeOK, WorkerType
<1>2. [row[worker[w].run] EXCEPT !.status = status, !.attempt = worker[w].attempt,
                                 !.nextAt = at] \in RowType
  BY <1>1, RowWritesType DEF TypeOK
<1>. QED  BY <1>1, <1>2 DEF Saved, TypeOK

LEMMA PhaseType ==
  ASSUME TypeOK, NEW w \in Worker, NEW p \in Phase
  PROVE  [worker EXCEPT ![w].phase = p] \in [Worker -> WorkerType]
BY DEF TypeOK, WorkerType

\* What a worker remembers of a claim.
LEMMA ClaimedType ==
  ASSUME TypeOK, NEW w \in Worker, NEW r \in Run, NEW t \in Nat, NEW m \in Nat,
         NEW n \in Nat \ {0}, NEW at \in Nat
  PROVE  [Forget(w) EXCEPT !.phase = "claimed", !.run = r, !.token = t,
            !.heartbeatAt = m, !.attempt = n, !.nextAt = at] \in WorkerType
BY ForgetType DEF WorkerType, Phase

\* A worker that only changes its phase and, when the step returns, its outcome.
LEMMA StepType ==
  ASSUME TypeOK, NEW w \in Worker, NEW p \in Phase, NEW o \in Outcome, NEW b \in BOOLEAN
  PROVE  /\ [worker EXCEPT ![w].phase = p, ![w].outcome = o] \in [Worker -> WorkerType]
         /\ [worker EXCEPT ![w].phase = p, ![w].insert = b] \in [Worker -> WorkerType]
         /\ [worker EXCEPT ![w].stopping = TRUE] \in [Worker -> WorkerType]
BY DEF TypeOK, WorkerType

LEMMA ClaimKeepsTypes ==
  ASSUME TypeOK, NEW w \in Worker, Claim(w)
  PROVE  TypeOK'
<1>1. CASE ClaimRead(w)
  <2>1. Candidates(now) \subseteq CandidateType /\ now \in Nat
    BY CandidatesType DEF TypeOK
  <2>2. [worker[w] EXCEPT !.phase = "claiming", !.moment = now, !.cands = Candidates(now)]
          \in WorkerType
    BY <2>1 DEF TypeOK, WorkerType, Phase
  <2>. QED  BY <1>1, <2>2 DEF ClaimRead, TypeOK
<1>2. CASE ClaimWin(w)
  <2>1. PICK c \in worker[w].cands : ClaimWin(w)!(c)
    BY <1>2 DEF ClaimWin
  <2>2. c \in CandidateType /\ worker[w].moment \in Nat
    BY DEF TypeOK, WorkerType
  <2>3. /\ c.run \in Run /\ NextToken(c) \in Nat /\ c.attempt + 1 \in Nat \ {0}
        /\ row[c.run] \in RowType /\ row[c.run].nextAt \in Nat
        /\ Until(worker[w].moment) \in Int
    BY <2>2, BoundAssumption DEF CandidateType, TypeOK, RowType, NextToken, Until
  <2>4. [row[c.run] EXCEPT !.status = "running", !.owner = w, !.token = NextToken(c),
           !.expires = Until(worker[w].moment), !.attempt = c.attempt + 1] \in RowType
    BY <2>3, RowWritesType DEF Status
  <2>5. [Forget(w) EXCEPT !.phase = "claimed", !.run = c.run, !.token = NextToken(c),
           !.heartbeatAt = worker[w].moment, !.attempt = c.attempt + 1,
           !.nextAt = row[c.run].nextAt] \in WorkerType
    BY <2>2, <2>3, ClaimedType
  <2>. QED  BY <2>1, <2>4, <2>5 DEF TypeOK
<1>3. CASE ClaimLose(w)
  <2>1. \A c : [worker[w] EXCEPT !.cands = worker[w].cands \ {c}] \in WorkerType
    BY DEF TypeOK, WorkerType
  <2>. QED  BY <1>3, <2>1, ForgetType DEF ClaimLose, TypeOK
<1>4. CASE ClaimRetry(w)
  <2>1. [worker[w] EXCEPT !.cands = Candidates(worker[w].moment)] \in WorkerType
    <3>1. Candidates(worker[w].moment) \subseteq CandidateType
      BY CandidatesType DEF TypeOK, WorkerType
    <3>. QED  BY <3>1 DEF TypeOK, WorkerType
  <2>. QED  BY <1>4, <2>1, ForgetType DEF ClaimRetry, TypeOK
<1>5. CASE ClaimCollide(w)
  <2>1. [Idle EXCEPT !.phase = "down"] \in WorkerType
    BY IdleType DEF WorkerType, Phase
  <2>. QED  BY <1>5, <2>1 DEF ClaimCollide, TypeOK
<1>. QED  BY <1>1, <1>2, <1>3, <1>4, <1>5 DEF Claim

LEMMA StepKeepsTypes ==
  ASSUME TypeOK, NEW w \in Worker, Heartbeat(w) \/ Step(w)
  PROVE  TypeOK'
<1>1. CASE HeartbeatOk(w)
  <2>1. worker[w].run \in Run /\ row[worker[w].run] \in RowType /\ Until(now) \in Int
    BY BoundAssumption DEF TypeOK, WorkerType, Until
  <2>2. [row[worker[w].run] EXCEPT !.expires = Until(now)] \in RowType
    BY <2>1, RowExpiresType
  <2>3. worker' \in [Worker -> WorkerType]
    BY <1>1, PhaseType DEF HeartbeatOk, Goto, Phase
  <2>. QED  BY <1>1, <2>1, <2>2, <2>3 DEF HeartbeatOk, TypeOK
<1>2. CASE HeartbeatLost(w)
  BY <1>2, ForgetType DEF HeartbeatLost, LoseLease, TypeOK
<1>3. CASE Step(w)
  <2>1. PICK o \in Outcome : Step(w)!(o)
    BY <1>3 DEF Step
  <2>2. worker' \in [Worker -> WorkerType]
    BY <2>1, StepType DEF StepReturns, Phase
  <2>3. faults' \in Nat
    BY <2>1 DEF TypeOK
  <2>. QED  BY <2>1, <2>2, <2>3 DEF StepReturns, TypeOK
<1>. QED  BY <1>1, <1>2, <1>3 DEF Heartbeat

LEMMA SettleKeepsTypes ==
  ASSUME TypeOK, NEW w \in Worker, Settle(w)
  PROVE  TypeOK'
<1>. DEFINE w0 == worker[w]
<1>0. /\ w0.run \in Run /\ w0.nextAt \in Nat /\ w0.outcome.followUp \in FollowUpKey \cup {NoKey}
      /\ [worker EXCEPT ![w] = Forget(w)] \in [Worker -> WorkerType]
  BY ForgetType DEF TypeOK, WorkerType, Outcome
<1>1. /\ Saved(w, "running", w0.nextAt) \in [Run -> RowType]
      /\ Saved(w, "succeeded", w0.nextAt) \in [Run -> RowType]
      /\ Saved(w, "abandoned", w0.nextAt) \in [Run -> RowType]
  BY <1>0, SavedType DEF Status
<1>2. CASE Checkpoint(w)
  <2>1. row' \in [Run -> RowType]
    BY <1>2, <1>1 DEF Checkpoint, LoseLease, TypeOK
  <2>2. worker' \in [Worker -> WorkerType]
    <3>1. (IF w0.stopping THEN "releasing" ELSE "claimed") \in Phase
      BY DEF Phase
    <3>. QED  BY <1>2, <1>0, <3>1, PhaseType DEF Checkpoint, LoseLease, Goto
  <2>. QED  BY <1>2, <2>1, <2>2 DEF Checkpoint, TypeOK
<1>3. CASE Succeed(w)
  BY <1>3, <1>0, <1>1 DEF Succeed, LoseLease, TypeOK
<1>4. CASE SaveBegin(w)
  <2>1. [worker EXCEPT ![w].phase = "committing",
           ![w].insert = ~KeyTaken(w0.outcome.followUp)] \in [Worker -> WorkerType]
    <3>1. (~KeyTaken(w0.outcome.followUp)) \in BOOLEAN
      BY DEF KeyTaken
    <3>. QED  BY <3>1, StepType, NoOutcomeType DEF Phase
  <2>. QED  BY <1>4, <1>0, <2>1 DEF SaveBegin, LoseLease, TypeOK
<1>5. CASE SaveCommit(w)
  <2>1. CASE w0.insert
    <3>1. PICK r \in Run : row' = [Saved(w, "succeeded", w0.nextAt) EXCEPT
                                     ![r] = NewRun(w0.outcome.followUp, now)]
      BY <1>5, <2>1 DEF SaveCommit
    <3>2. NewRun(w0.outcome.followUp, now) \in RowType
      BY <1>0, NewRunType DEF TypeOK
    <3>. QED  BY <1>5, <3>1, <3>2, <1>0, <1>1 DEF SaveCommit, TypeOK
  <2>2. CASE ~w0.insert
    BY <1>5, <2>2, <1>0, <1>1 DEF SaveCommit, TypeOK
  <2>. QED  BY <2>1, <2>2
<1>6. CASE SaveCollide(w)
  <2>1. [Idle EXCEPT !.phase = "down"] \in WorkerType
    BY IdleType DEF WorkerType, Phase
  <2>. QED  BY <1>6, <2>1 DEF SaveCollide, TypeOK
<1>7. CASE SaveRetry(w)
  BY <1>7, PhaseType DEF SaveRetry, Goto, Phase, TypeOK
<1>8. CASE Fail(w)
  <2>1. RetryAt(w0.attempt) \in Nat
    BY BoundAssumption DEF RetryAt
  <2>2. Saved(w, "failed", RetryAt(w0.attempt)) \in [Run -> RowType]
    BY <2>1, SavedType DEF Status
  <2>. QED  BY <1>8, <1>0, <1>1, <2>2 DEF Fail, LoseLease, TypeOK
<1>9. CASE Release(w)
  <2>1. [row[w0.run] EXCEPT !.expires = now] \in RowType
    BY <1>0, RowExpiresType DEF TypeOK
  <2>. QED  BY <1>9, <1>0, <2>1 DEF Release, TypeOK
<1>. QED
  BY <1>2, <1>3, <1>4, <1>5, <1>6, <1>7, <1>8, <1>9 DEF Settle

LEMMA OthersKeepTypes ==
  ASSUME TypeOK,
         (\E w \in Worker : Control(w)) \/ (\E c \in Client : Enqueue(c)) \/ Tick
  PROVE  TypeOK'
<1>1. ASSUME NEW w \in Worker, Control(w)  PROVE  TypeOK'
  <2>1. Idle \in WorkerType /\ [Idle EXCEPT !.phase = "down"] \in WorkerType
    BY IdleType DEF WorkerType, Phase
  <2>2. [worker EXCEPT ![w].stopping = TRUE] \in [Worker -> WorkerType]
    BY DEF TypeOK, WorkerType
  <2>3. CASE RequestStop(w)
    BY <2>3, <2>2 DEF RequestStop, TypeOK
  <2>4. CASE Exit(w) \/ Crash(w) \/ Restart(w)
    BY <2>4, <2>1 DEF Exit, Crash, Restart, TypeOK
  <2>. QED  BY <1>1, <2>3, <2>4 DEF Control
<1>2. ASSUME NEW c \in Client, NEW k \in Key, EnqueueLookup(c, k)  PROVE  TypeOK'
  BY <1>2 DEF EnqueueLookup, TypeOK, ClientType
<1>3. ASSUME NEW c \in Client, EnqueueInsert(c)  PROVE  TypeOK'
  <2>1. client' \in [Client -> ClientType]
    BY <1>3 DEF EnqueueInsert, NoRequest, ClientType, TypeOK
  <2>2. row' \in [Run -> RowType]
    <3>1. NewRun(client[c].key, now) \in RowType
      BY NewRunType DEF TypeOK, ClientType
    <3>. QED  BY <1>3, <3>1 DEF EnqueueInsert, TypeOK
  <2>. QED  BY <1>3, <2>1, <2>2 DEF EnqueueInsert, TypeOK
<1>4. ASSUME Tick  PROVE  TypeOK'
  BY <1>4 DEF Tick, TypeOK
<1>. QED  BY <1>1, <1>2, <1>3, <1>4 DEF Enqueue

LEMMA InitTypes == Init => TypeOK
<1>1. ASSUME Init  PROVE  TypeOK
  BY <1>1, AbsentType, IdleType DEF Init, TypeOK, ClientType, NoRequest
<1>. QED  BY <1>1

LEMMA NextKeepsTypes == TypeOK /\ [Next]_vars => TypeOK'
<1>. SUFFICES ASSUME TypeOK, [Next]_vars  PROVE  TypeOK'
  OBVIOUS
<1>1. CASE UNCHANGED vars
  BY <1>1 DEF vars, TypeOK
<1>2. CASE Next
  BY <1>2, ClaimKeepsTypes, StepKeepsTypes, SettleKeepsTypes, OthersKeepTypes DEF Next
<1>. QED  BY <1>1, <1>2

\* Every reachable state is well typed.
THEOREM TypesHold == Spec => []TypeOK
BY InitTypes, NextKeepsTypes, PTL DEF Spec

-----------------------------------------------------------------------------
(* The fence *)

RowsAreQuiet ==
  \A r \in Run : row'[r].token = row[r].token /\ row'[r].attempt = row[r].attempt

BlanksAreQuiet ==
  \A r \in Run : row'[r].status = "absent" => ~Present(r)

\* What a worker believes after the step it believed before.
SameClaim(w) ==
  /\ Believes(w)
  /\ worker'[w].run = worker[w].run /\ worker'[w].token = worker[w].token
  /\ worker'[w].attempt = worker[w].attempt
  /\ worker'[w].heartbeatAt = worker[w].heartbeatAt

Believing == {"claimed", "stepping", "returned", "committing", "releasing"}

WorkersAreQuiet ==
  \A w \in Worker :
    /\ worker'[w].cands \subseteq worker[w].cands
    /\ worker'[w].moment <= now /\ worker'[w].heartbeatAt <= now
    /\ worker'[w].phase \in Believing => SameClaim(w)
    /\ worker'[w].phase = "committing" =>
         worker[w].phase = "committing" \/ row[worker[w].run].token = worker[w].token

Quiet == RowsAreQuiet /\ BlanksAreQuiet /\ WorkersAreQuiet /\ now <= now'

LEMMA QuietKeepsTokens ==
  ASSUME TypeOK, TypeOK', Tokens, Quiet
  PROVE  Tokens'
<1>1. \A w \in Worker : worker[w].run \in Run /\ worker'[w].run \in Run
                        /\ worker[w].moment \in Nat /\ worker'[w].moment \in Nat
                        /\ worker[w].heartbeatAt \in Nat /\ worker'[w].heartbeatAt \in Nat
                        /\ worker[w].cands \subseteq CandidateType
  BY DEF TypeOK, WorkerType
<1>2. BlankUntilInserted'
  BY DEF Quiet, RowsAreQuiet, BlanksAreQuiet, Tokens, BlankUntilInserted, Present
<1>3. CandidatesAreOld'
  BY <1>1 DEF Quiet, RowsAreQuiet, WorkersAreQuiet, Tokens, CandidatesAreOld, CandidateType
<1>4. ClaimsAreCounted'
  BY DEF Quiet, WorkersAreQuiet, SameClaim, Tokens, ClaimsAreCounted, Believes, Believing
<1>5. CommitHoldsTheRow'
  BY <1>1 DEF Quiet, RowsAreQuiet, WorkersAreQuiet, SameClaim, Tokens, CommitHoldsTheRow,
              InPhase, Believing
<1>6. ClockIsAhead'
  BY <1>1 DEF Quiet, WorkersAreQuiet, ClockIsAhead, TypeOK
<1>7. AttemptCountsClaims'
  BY DEF Quiet, RowsAreQuiet, Tokens, AttemptCountsClaims
<1>8. NoTokenFromTheFuture'
  BY <1>1 DEF Quiet, RowsAreQuiet, WorkersAreQuiet, SameClaim, Tokens, NoTokenFromTheFuture,
              Believes, Believing
<1>9. TokensAreExclusive'
  BY DEF Quiet, WorkersAreQuiet, SameClaim, Tokens, TokensAreExclusive, Believes, Believing
<1>. QED  BY <1>2, <1>3, <1>4, <1>5, <1>6, <1>7, <1>8, <1>9 DEF Tokens

\* What the types say of the fields the steps below read.
LEMMA WorkerFields ==
  ASSUME TypeOK, NEW w \in Worker
  PROVE  /\ worker[w].run \in Run /\ worker[w].token \in Nat /\ worker[w].moment \in Nat
         /\ worker[w].heartbeatAt \in Nat /\ worker[w].cands \subseteq CandidateType
         /\ worker[w].phase \in Phase /\ now \in Nat
BY DEF TypeOK, WorkerType

\* A process that goes idle or down believes nothing.
LEMMA ForgettingIsQuiet ==
  ASSUME TypeOK, ClockIsAhead, NEW w \in Worker, NEW x \in {Forget(w), Idle, [Idle EXCEPT !.phase = "down"]},
         worker' = [worker EXCEPT ![w] = x]
  PROVE  WorkersAreQuiet
<1>1. x.cands = {} /\ x.moment = 0 /\ x.heartbeatAt = 0 /\ x.phase \in {"idle", "down"}
  BY DEF Forget, Idle
<1>2. worker'[w] = x /\ \A v \in Worker \ {w} : worker'[v] = worker[v]
  BY DEF TypeOK
<1>. QED
  BY <1>1, <1>2, WorkerFields DEF WorkersAreQuiet, SameClaim, Believing, Believes, ClockIsAhead

\* A step that keeps the claim and moves to another phase.
LEMMA MovingIsQuiet ==
  ASSUME TypeOK, ClockIsAhead, NEW w \in Worker, Believes(w),
         \A v \in Worker \ {w} : worker'[v] = worker[v],
         worker'[w].run = worker[w].run, worker'[w].token = worker[w].token,
         worker'[w].attempt = worker[w].attempt, worker'[w].cands = worker[w].cands,
         worker'[w].moment = worker[w].moment,
         worker'[w].heartbeatAt = worker[w].heartbeatAt,
         worker'[w].phase = "committing" => row[worker[w].run].token = worker[w].token
  PROVE  WorkersAreQuiet
BY WorkerFields DEF WorkersAreQuiet, SameClaim, Believing, Believes, ClockIsAhead

\* A save writes back the attempt of the claim it is fenced on.
LEMMA SavingIsQuiet ==
  ASSUME TypeOK, Tokens, NEW w \in Worker, NEW status \in Status, NEW at \in Nat,
         Believes(w), row[worker[w].run].token = worker[w].token,
         row' = Saved(w, status, at)
  PROVE  RowsAreQuiet /\ BlanksAreQuiet
<1>1. worker[w].attempt = row[worker[w].run].attempt
  BY WorkerFields DEF Tokens, ClaimsAreCounted, AttemptCountsClaims
<1>2. Present(worker[w].run)
  BY WorkerFields DEF Tokens, ClaimsAreCounted, BlankUntilInserted
<1>3. \A r \in Run : /\ row'[r].token = row[r].token
                     /\ row'[r].attempt = IF r = worker[w].run THEN worker[w].attempt
                                          ELSE row[r].attempt
                     /\ row'[r].status = "absent" => row[r].status = "absent"
  BY <1>2, WorkerFields DEF Saved, TypeOK, RowType, Present, Status
<1>. QED  BY <1>1, <1>3 DEF RowsAreQuiet, BlanksAreQuiet, Present

\* Steps after the claim.
LEMMA StepsAreQuiet ==
  ASSUME TypeOK, Tokens, NEW w \in Worker, Heartbeat(w) \/ Step(w)
  PROVE  Quiet
<1>0. ClockIsAhead
  BY DEF Tokens
<1>1. CASE HeartbeatOk(w)
  <2>1. RowsAreQuiet /\ BlanksAreQuiet
    BY <1>1 DEF HeartbeatOk, RowsAreQuiet, BlanksAreQuiet, TypeOK, RowType, Present
  <2>2. WorkersAreQuiet
    BY <1>0, <1>1, MovingIsQuiet DEF HeartbeatOk, Goto, InPhase, Believes, TypeOK, WorkerType
  <2>. QED  BY <1>1, <2>1, <2>2, WorkerFields DEF HeartbeatOk, Quiet
<1>2. CASE HeartbeatLost(w)
  <2>1. WorkersAreQuiet
    BY <1>0, <1>2, ForgettingIsQuiet DEF HeartbeatLost, LoseLease
  <2>. QED  BY <1>2, <2>1, WorkerFields
            DEF HeartbeatLost, LoseLease, Quiet, RowsAreQuiet, BlanksAreQuiet, Present
<1>3. CASE Step(w)
  <2>1. WorkersAreQuiet
    <3>1. PICK o \in Outcome : StepReturns(w, o)
      BY <1>3 DEF Step
    <3>2. worker' = [worker EXCEPT ![w].phase = "returned", ![w].outcome = o]
      BY <3>1 DEF StepReturns
    <3>3. /\ worker'[w].run = worker[w].run /\ worker'[w].token = worker[w].token
          /\ worker'[w].attempt = worker[w].attempt /\ worker'[w].cands = worker[w].cands
          /\ worker'[w].moment = worker[w].moment /\ worker'[w].phase = "returned"
          /\ worker'[w].heartbeatAt = worker[w].heartbeatAt
          /\ \A v \in Worker \ {w} : worker'[v] = worker[v]
      BY <3>2 DEF TypeOK, WorkerType
    <3>. QED  BY <1>0, <3>1, <3>3, MovingIsQuiet DEF StepReturns, InPhase, Believes
  <2>. QED  BY <1>3, <2>1, WorkerFields
            DEF Step, StepReturns, Quiet, RowsAreQuiet, BlanksAreQuiet, Present
<1>. QED  BY <1>1, <1>2, <1>3 DEF Heartbeat

LEMMA SettlingIsQuiet ==
  ASSUME TypeOK, Tokens, NEW w \in Worker, Settle(w)
  PROVE  Quiet
<1>. DEFINE w0 == worker[w]
<1>0. /\ ClockIsAhead /\ w0.run \in Run /\ w0.nextAt \in Nat
      /\ UNCHANGED row => RowsAreQuiet /\ BlanksAreQuiet
      /\ worker' = [worker EXCEPT ![w] = Forget(w)] => WorkersAreQuiet
      /\ now' = now => now <= now'
  <2>1. UNCHANGED row => RowsAreQuiet /\ BlanksAreQuiet
    BY DEF RowsAreQuiet, BlanksAreQuiet, Present
  <2>2. w0.run \in Run /\ w0.nextAt \in Nat /\ (now' = now => now <= now')
    BY DEF TypeOK, WorkerType
  <2>. QED  BY <2>1, <2>2, ForgettingIsQuiet DEF Tokens
<1>1. CASE Checkpoint(w)
  <2>1. CASE Fenced(w)
    <3>1. RowsAreQuiet /\ BlanksAreQuiet
      BY <1>0, <1>1, <2>1, SavingIsQuiet DEF Checkpoint, Fenced, InPhase, Believes, Status
    <3>2. WorkersAreQuiet
      BY <1>0, <1>1, <2>1, MovingIsQuiet
         DEF Checkpoint, Goto, InPhase, Believes, TypeOK, WorkerType
    <3>. QED  BY <1>0, <1>1, <3>1, <3>2 DEF Checkpoint, Quiet
  <2>. QED  BY <1>0, <1>1, <2>1 DEF Checkpoint, LoseLease, Quiet
<1>2. CASE Succeed(w)
  <2>1. Fenced(w) => RowsAreQuiet /\ BlanksAreQuiet
    BY <1>0, <1>2, SavingIsQuiet DEF Succeed, Fenced, InPhase, Believes, Status
  <2>. QED  BY <1>0, <1>2, <2>1 DEF Succeed, LoseLease, Quiet
<1>3. CASE SaveBegin(w)
  <2>1. Fenced(w) => WorkersAreQuiet
    BY <1>0, <1>3, MovingIsQuiet DEF SaveBegin, Fenced, InPhase, Believes, TypeOK, WorkerType
  <2>. QED  BY <1>0, <1>3, <2>1 DEF SaveBegin, LoseLease, Quiet
<1>4. CASE SaveCommit(w)
  <2>. DEFINE done == Saved(w, "succeeded", w0.nextAt)
  <2>1. row[w0.run].token = w0.token /\ Believes(w) /\ w0.token > 0
    BY <1>4 DEF SaveCommit, Tokens, CommitHoldsTheRow, ClaimsAreCounted, InPhase, Believes
  <2>2. row' = done => RowsAreQuiet /\ BlanksAreQuiet
    BY <1>0, <2>1, SavingIsQuiet DEF Status
  <2>3. ASSUME NEW r \in Run, IsNext(r), NEW k, row' = [done EXCEPT ![r] = NewRun(k, now)]
        PROVE  RowsAreQuiet /\ BlanksAreQuiet
    <3>1. row[r].token = 0 /\ row[r].attempt = 1 /\ r # w0.run /\ ~Present(r)
      BY <1>0, <2>1, <2>3 DEF IsNext, Tokens, BlankUntilInserted, AttemptCountsClaims
    <3>2. row'[r].token = 0 /\ row'[r].attempt = 1
      BY <2>3 DEF Saved, NewRun, Absent, TypeOK
    <3>3. w0.attempt = row[w0.run].attempt /\ Present(w0.run)
      BY <1>0, <2>1 DEF Tokens, ClaimsAreCounted, AttemptCountsClaims, BlankUntilInserted
    <3>4. \A s \in Run \ {r} : row'[s] = done[s]
      BY <2>3 DEF Saved, TypeOK
    <3>5. \A s \in Run : /\ done[s].token = row[s].token
                         /\ done[s].attempt = row[s].attempt
                         /\ done[s].status = "absent" => row[s].status = "absent"
      BY <1>0, <3>3 DEF Saved, TypeOK, RowType
    <3>. QED  BY <3>1, <3>2, <3>4, <3>5 DEF RowsAreQuiet, BlanksAreQuiet, Present
  <2>4. RowsAreQuiet /\ BlanksAreQuiet
    BY <1>4, <2>2, <2>3 DEF SaveCommit
  <2>. QED  BY <1>0, <1>4, <2>4 DEF SaveCommit, Quiet
<1>5. CASE SaveCollide(w)
  BY <1>0, <1>5, ForgettingIsQuiet DEF SaveCollide, Quiet
<1>6. CASE SaveRetry(w)
  <2>1. WorkersAreQuiet
    BY <1>0, <1>6, MovingIsQuiet DEF SaveRetry, Goto, InPhase, Believes, TypeOK, WorkerType
  <2>. QED  BY <1>0, <1>6, <2>1 DEF SaveRetry, Quiet
<1>7. CASE Fail(w)
  <2>1. RetryAt(w0.attempt) \in Nat
    BY BoundAssumption DEF RetryAt
  <2>2. Fenced(w) => RowsAreQuiet /\ BlanksAreQuiet
    BY <1>0, <1>7, <2>1, SavingIsQuiet DEF Fail, Fenced, InPhase, Believes, Status
  <2>. QED  BY <1>0, <1>7, <2>2 DEF Fail, LoseLease, Quiet
<1>8. CASE Release(w)
  <2>1. RowsAreQuiet /\ BlanksAreQuiet
    BY <1>0, <1>8 DEF Release, RowsAreQuiet, BlanksAreQuiet, TypeOK, RowType, Present
  <2>. QED  BY <1>0, <1>8, <2>1 DEF Release, Quiet
<1>. QED
  BY <1>1, <1>2, <1>3, <1>4, <1>5, <1>6, <1>7, <1>8 DEF Settle

LEMMA OthersAreQuiet ==
  ASSUME TypeOK, Tokens,
         (\E w \in Worker : Control(w)) \/ (\E c \in Client : Enqueue(c)) \/ Tick
  PROVE  Quiet
<1>0. ClockIsAhead /\ now \in Nat
  BY DEF Tokens, TypeOK
<1>1. ASSUME NEW w \in Worker, Control(w)  PROVE  Quiet
  <2>1. CASE RequestStop(w)
    <3>1. WorkersAreQuiet
      <4>1. /\ worker'[w].cands = worker[w].cands /\ worker'[w].moment = worker[w].moment
            /\ worker'[w].heartbeatAt = worker[w].heartbeatAt
            /\ worker'[w].phase = worker[w].phase /\ worker'[w].run = worker[w].run
            /\ worker'[w].token = worker[w].token /\ worker'[w].attempt = worker[w].attempt
            /\ \A v \in Worker \ {w} : worker'[v] = worker[v]
        BY <2>1 DEF RequestStop, TypeOK, WorkerType
      <4>. QED  BY <1>0, <4>1, WorkerFields
                DEF WorkersAreQuiet, SameClaim, Believing, Believes, ClockIsAhead
    <3>. QED  BY <1>0, <2>1, <3>1
              DEF RequestStop, Quiet, RowsAreQuiet, BlanksAreQuiet, Present
  <2>2. CASE Exit(w) \/ Crash(w) \/ Restart(w)
    BY <1>0, <2>2, ForgettingIsQuiet
       DEF Exit, Crash, Restart, Quiet, RowsAreQuiet, BlanksAreQuiet, Present
  <2>. QED  BY <1>1, <2>1, <2>2 DEF Control
<1>2. UNCHANGED worker => WorkersAreQuiet
  BY <1>0, WorkerFields DEF WorkersAreQuiet, SameClaim, Believing, Believes, ClockIsAhead
<1>3. ASSUME NEW c \in Client, Enqueue(c)  PROVE  Quiet
  <2>1. RowsAreQuiet /\ BlanksAreQuiet
    <3>1. ASSUME NEW r \in Run, IsNext(r), NEW k, row' = [row EXCEPT ![r] = NewRun(k, now)]
          PROVE  RowsAreQuiet /\ BlanksAreQuiet
      <4>1. row[r].token = 0 /\ row[r].attempt = 1 /\ ~Present(r)
        BY <3>1 DEF IsNext, Tokens, BlankUntilInserted, AttemptCountsClaims
      <4>2. row'[r].token = 0 /\ row'[r].attempt = 1
        BY <3>1 DEF NewRun, Absent, TypeOK
      <4>. QED  BY <3>1, <4>1, <4>2 DEF RowsAreQuiet, BlanksAreQuiet, Present, TypeOK
    <3>. QED  BY <1>3, <3>1
              DEF Enqueue, EnqueueLookup, EnqueueInsert, RowsAreQuiet, BlanksAreQuiet, Present
  <2>. QED  BY <1>0, <1>2, <1>3, <2>1 DEF Enqueue, EnqueueLookup, EnqueueInsert, Quiet
<1>4. ASSUME Tick  PROVE  Quiet
  BY <1>0, <1>2, <1>4 DEF Tick, Quiet, RowsAreQuiet, BlanksAreQuiet, Present
<1>. QED  BY <1>1, <1>3, <1>4

\* What a worker reads to choose from.
LEMMA CandidatesAreCounted ==
  ASSUME TypeOK, AttemptCountsClaims, NEW moment \in Nat, NEW c \in Candidates(moment)
  PROVE  c.token <= row[c.run].token /\ c.attempt = c.token + 1
BY DEF Candidates, Candidate, AttemptCountsClaims, TypeOK, RowType

\* Reading candidates, again or for the first time.
LEMMA ReadingKeepsTokens ==
  ASSUME TypeOK, Tokens, NEW w \in Worker, NEW moment \in Nat, moment <= now,
         ~Believes(w), UNCHANGED <<row, now>>,
         \A v \in Worker \ {w} : worker'[v] = worker[v],
         worker'[w].phase \in {"claiming", "idle"}, worker'[w].moment <= now,
         worker'[w].heartbeatAt <= now,
         worker'[w].cands \subseteq Candidates(moment)
  PROVE  Tokens'
<1>1. CandidatesAreOld'
  <2>1. \A c \in Candidates(moment) : c.token <= row[c.run].token /\ c.attempt = c.token + 1
    BY CandidatesAreCounted DEF Tokens
  <2>. QED  BY <2>1 DEF Tokens, CandidatesAreOld
<1>2. BlankUntilInserted' /\ AttemptCountsClaims'
  BY DEF Tokens, BlankUntilInserted, AttemptCountsClaims, Present
<1>3. ClaimsAreCounted' /\ NoTokenFromTheFuture'
  BY DEF Tokens, ClaimsAreCounted, NoTokenFromTheFuture, Believes
<1>4. TokensAreExclusive'
  BY DEF Tokens, TokensAreExclusive, Believes
<1>5. CommitHoldsTheRow' /\ ClockIsAhead'
  BY DEF Tokens, CommitHoldsTheRow, ClockIsAhead, InPhase
<1>. QED  BY <1>1, <1>2, <1>3, <1>4, <1>5 DEF Tokens

\* The one step that moves a token: the winner's is new, and nobody else has it.
LEMMA WinningKeepsTokens ==
  ASSUME TypeOK, Tokens, NEW w \in Worker, ClaimWin(w)
  PROVE  Tokens'
<1>1. PICK c \in worker[w].cands : ClaimWin(w)!(c)
  BY DEF ClaimWin
<1>. DEFINE r == c.run
            t == c.token + 1
<1>2. /\ r \in Run /\ c.token \in Nat /\ row[r].token = c.token /\ c.attempt = t
      /\ worker[w].moment \in Nat /\ worker[w].moment <= now /\ now \in Nat
  BY <1>1, WorkerFields
     DEF CandidateType, Tokens, CandidatesAreOld, Unclaimed, ClockIsAhead
<1>3. /\ row'[r].token = t /\ row'[r].attempt = t + 1 /\ row'[r].status = "running"
      /\ \A s \in Run \ {r} : row'[s] = row[s]
  BY <1>1, <1>2 DEF NextToken, TypeOK, RowType
<1>4. /\ worker'[w].phase = "claimed" /\ worker'[w].run = r /\ worker'[w].token = t
      /\ worker'[w].attempt = t + 1 /\ worker'[w].cands = {} /\ worker'[w].moment = 0
      /\ worker'[w].heartbeatAt = worker[w].moment
      /\ \A v \in Worker \ {w} : worker'[v] = worker[v]
  BY <1>1, <1>2 DEF NextToken, Forget, Idle, TypeOK, WorkerType
<1>5. now' = now /\ ~Locked(r)
  BY <1>1
<1>6. \A s \in Run : /\ row[s].token \in Nat /\ row'[s].token \in Nat
                     /\ row[s].token <= row'[s].token
  BY <1>2, <1>3 DEF TypeOK, RowType
<1>7. BlankUntilInserted' /\ AttemptCountsClaims'
  BY <1>2, <1>3 DEF Tokens, BlankUntilInserted, AttemptCountsClaims, Present
<1>8. CandidatesAreOld'
  <2>1. ASSUME NEW v \in Worker, v # w, NEW d \in worker[v].cands
        PROVE  d.token <= row'[d.run].token /\ d.attempt = d.token + 1
    <3>1. d.run \in Run /\ d.token \in Nat
      BY WorkerFields DEF CandidateType
    <3>2. d.token <= row[d.run].token /\ d.attempt = d.token + 1
      BY DEF Tokens, CandidatesAreOld
    <3>. QED  BY <3>1, <3>2, <1>6, <1>3
  <2>. QED  BY <2>1, <1>4 DEF CandidatesAreOld
<1>9. ClaimsAreCounted'
  BY <1>2, <1>4 DEF Tokens, ClaimsAreCounted, Believes
<1>10. NoTokenFromTheFuture'
  <2>1. ASSUME NEW v \in Worker, v # w, Believes(v)
        PROVE  worker[v].token <= row'[worker[v].run].token
    BY <2>1, <1>6, WorkerFields DEF Tokens, NoTokenFromTheFuture
  <2>. QED  BY <2>1, <1>3, <1>4, <1>2 DEF NoTokenFromTheFuture, Believes
<1>11. TokensAreExclusive'
  <2>1. ASSUME NEW v \in Worker, v # w, Believes(v), worker[v].run = r
        PROVE  worker[v].token # t
    BY <2>1, <1>2, WorkerFields DEF Tokens, NoTokenFromTheFuture
  <2>. QED  BY <2>1, <1>4 DEF Tokens, TokensAreExclusive, Believes
<1>12. CommitHoldsTheRow'
  <2>1. ASSUME NEW v \in Worker, v # w, worker[v].phase = "committing"
        PROVE  row'[worker[v].run].token = worker[v].token
    BY <2>1, <1>3, <1>5, WorkerFields DEF Tokens, CommitHoldsTheRow, InPhase, Locked
  <2>. QED  BY <2>1, <1>4 DEF CommitHoldsTheRow, InPhase
<1>13. ClockIsAhead'
  BY <1>2, <1>4, <1>5 DEF Tokens, ClockIsAhead
<1>. QED  BY <1>7, <1>8, <1>9, <1>10, <1>11, <1>12, <1>13 DEF Tokens

LEMMA ClaimKeepsTokens ==
  ASSUME TypeOK, TypeOK', Tokens, NEW w \in Worker, Claim(w)
  PROVE  Tokens'
<1>0. ClockIsAhead /\ now \in Nat /\ worker[w].moment \in Nat /\ worker[w].moment <= now
  BY WorkerFields DEF Tokens, ClockIsAhead
<1>1. CASE ClaimRead(w)
  <2>1. /\ worker'[w].phase = "claiming" /\ worker'[w].moment = now
        /\ worker'[w].heartbeatAt = worker[w].heartbeatAt
        /\ worker'[w].cands = Candidates(now)
        /\ \A v \in Worker \ {w} : worker'[v] = worker[v]
    BY <1>1 DEF ClaimRead, TypeOK, WorkerType
  <2>2. ~Believes(w) /\ UNCHANGED <<row, now>> /\ worker[w].heartbeatAt <= now /\ now <= now
    BY <1>0, <1>1 DEF ClaimRead, InPhase, Believes, ClockIsAhead
  <2>. QED  BY <1>0, <2>1, <2>2, ReadingKeepsTokens
<1>2. CASE ClaimWin(w)
  BY <1>2, WinningKeepsTokens
<1>3. CASE ClaimLose(w)
  <2>1. WorkersAreQuiet
    <3>1. PICK c \in worker[w].cands : ClaimLose(w)!(c)
      BY <1>3 DEF ClaimLose
    <3>2. CASE worker[w].cands = {c}
      BY <1>0, <3>1, <3>2, ForgettingIsQuiet
    <3>3. CASE worker[w].cands # {c}
      <4>1. /\ worker'[w].phase = "claiming" /\ worker'[w].moment = worker[w].moment
            /\ worker'[w].heartbeatAt = worker[w].heartbeatAt
            /\ worker'[w].cands \subseteq worker[w].cands
            /\ \A v \in Worker \ {w} : worker'[v] = worker[v]
        BY <3>1, <3>3 DEF InPhase, TypeOK, WorkerType
      <4>. QED  BY <1>0, <4>1 DEF WorkersAreQuiet, SameClaim, Believing, Believes, ClockIsAhead
    <3>. QED  BY <3>2, <3>3
  <2>. QED  BY <1>0, <1>3, <2>1, QuietKeepsTokens
            DEF ClaimLose, Quiet, RowsAreQuiet, BlanksAreQuiet, Present
<1>4. CASE ClaimRetry(w)
  <2>1. /\ worker'[w].phase \in {"claiming", "idle"} /\ worker'[w].moment <= now
        /\ worker'[w].heartbeatAt <= now
        /\ worker'[w].cands \subseteq Candidates(worker[w].moment)
        /\ \A v \in Worker \ {w} : worker'[v] = worker[v]
    BY <1>0, <1>4 DEF ClaimRetry, InPhase, Forget, Idle, ClockIsAhead, TypeOK, WorkerType
  <2>2. ~Believes(w) /\ UNCHANGED <<row, now>>
    BY <1>4 DEF ClaimRetry, InPhase, Believes
  <2>. QED  BY <1>0, <2>1, <2>2, ReadingKeepsTokens
<1>5. CASE ClaimCollide(w)
  <2>1. WorkersAreQuiet
    BY <1>0, <1>5, ForgettingIsQuiet DEF ClaimCollide
  <2>. QED  BY <1>0, <1>5, <2>1, QuietKeepsTokens
            DEF ClaimCollide, Quiet, RowsAreQuiet, BlanksAreQuiet, Present
<1>. QED  BY <1>1, <1>2, <1>3, <1>4, <1>5 DEF Claim

LEMMA NextKeepsTokens == TypeOK /\ TypeOK' /\ Tokens /\ [Next]_vars => Tokens'
<1>. SUFFICES ASSUME TypeOK, TypeOK', Tokens, [Next]_vars  PROVE  Tokens'
  OBVIOUS
<1>1. CASE UNCHANGED vars
  BY <1>1 DEF vars, Tokens, BlankUntilInserted, CandidatesAreOld, ClaimsAreCounted,
              CommitHoldsTheRow, ClockIsAhead, AttemptCountsClaims, NoTokenFromTheFuture,
              TokensAreExclusive, Believes, InPhase, Present
<1>2. CASE Next
  BY <1>2, QuietKeepsTokens, ClaimKeepsTokens, StepsAreQuiet, SettlingIsQuiet, OthersAreQuiet
     DEF Next
<1>. QED  BY <1>1, <1>2

LEMMA InitTokens == Init => Tokens
<1>. SUFFICES ASSUME Init  PROVE  Tokens
  OBVIOUS
<1>1. \A w \in Worker : /\ worker[w].phase = "idle" /\ worker[w].cands = {}
                        /\ worker[w].moment = 0 /\ worker[w].heartbeatAt = 0
  BY DEF Init, Idle
<1>2. \A r \in Run : row[r].token = 0 /\ row[r].attempt = 1
  BY DEF Init, Absent
<1>. QED  BY <1>1, <1>2
          DEF Init, Tokens, BlankUntilInserted, CandidatesAreOld, ClaimsAreCounted,
              CommitHoldsTheRow, ClockIsAhead, AttemptCountsClaims, NoTokenFromTheFuture,
              TokensAreExclusive, Believes, InPhase

LEMMA TokensHold == Spec => [](TypeOK /\ Tokens)
<1>1. Init => TypeOK /\ Tokens
  BY InitTypes, InitTokens
<1>2. TypeOK /\ Tokens /\ [Next]_vars => TypeOK' /\ Tokens'
  BY NextKeepsTypes, NextKeepsTokens
<1>. QED  BY <1>1, <1>2, PTL DEF Spec

-----------------------------------------------------------------------------
(* The theorems *)

\* Two workers that believe they own the same run hold different tokens of it.
THEOREM TokensStayExclusive == Spec => []TokensAreExclusive
BY TokensHold, PTL DEF Tokens

\* A token handed out is never ahead of its row, so it is handed out once.
THEOREM TokensComeFromTheRow == Spec => []NoTokenFromTheFuture
BY TokensHold, PTL DEF Tokens

\* Attempts are counted exactly, whatever the interleaving of claims and saves.
THEOREM AttemptsAreCounted == Spec => []AttemptCountsClaims
BY TokensHold, PTL DEF Tokens

\* A step of one process leaves the memory of the others alone.
LEMMA OthersKeepTheirMemory ==
  ASSUME TypeOK, NEW v \in Worker, NEW w \in Worker, v # w,
         Claim(v) \/ Heartbeat(v) \/ Step(v) \/ Settle(v) \/ Control(v)
  PROVE  worker'[w] = worker[w]
<1>1. ASSUME Claim(v)  PROVE  worker'[w] = worker[w]
  BY <1>1 DEF Claim, ClaimRead, ClaimWin, ClaimLose, ClaimRetry, ClaimCollide, TypeOK
<1>2. ASSUME Heartbeat(v) \/ Step(v)  PROVE  worker'[w] = worker[w]
  BY <1>2 DEF Heartbeat, HeartbeatOk, HeartbeatLost, Goto, LoseLease, Step, StepReturns, TypeOK
<1>3. ASSUME Settle(v)  PROVE  worker'[w] = worker[w]
  <2>1. CASE Checkpoint(v)
    BY <2>1 DEF Checkpoint, Goto, LoseLease, TypeOK
  <2>2. CASE Succeed(v) \/ Fail(v) \/ Release(v)
    BY <2>2 DEF Succeed, Fail, Release, LoseLease, TypeOK
  <2>3. CASE SaveBegin(v)
    BY <2>3 DEF SaveBegin, LoseLease, TypeOK
  <2>4. CASE SaveCommit(v) \/ SaveCollide(v) \/ SaveRetry(v)
    BY <2>4 DEF SaveCommit, SaveCollide, SaveRetry, Goto, TypeOK
  <2>. QED  BY <1>3, <2>1, <2>2, <2>3, <2>4 DEF Settle
<1>4. ASSUME Control(v)  PROVE  worker'[w] = worker[w]
  BY <1>4 DEF Control, RequestStop, Exit, Crash, Restart, TypeOK
<1>. QED  BY <1>1, <1>2, <1>3, <1>4

LEMMA SupersededStep ==
  ASSUME TypeOK, Tokens, [Next]_vars, NEW w \in Worker,
         Believes(w), worker'[w] # worker[w],
         row[worker[w].run].token # worker[w].token
  PROVE  row' = row
<1>1. ~Fenced(w) /\ ~InPhase(w, "committing")
  BY DEF Fenced, Tokens, CommitHoldsTheRow
<1>2. Claim(w) \/ Heartbeat(w) \/ Step(w) \/ Settle(w) \/ Control(w)
  <2>1. worker' # worker
    OBVIOUS
  <2>. QED  BY <2>1, OthersKeepTheirMemory DEF Next, vars, Enqueue, EnqueueLookup, EnqueueInsert, Tick
<1>3. CASE Claim(w)
  BY <1>3 DEF Claim, ClaimRead, ClaimWin, ClaimLose, ClaimRetry, ClaimCollide, InPhase, Believes
<1>4. CASE Heartbeat(w) \/ Step(w)
  BY <1>1, <1>4 DEF Heartbeat, HeartbeatOk, HeartbeatLost, LoseLease, Step, StepReturns
<1>5. CASE Settle(w)
  BY <1>1, <1>5 DEF Settle, Checkpoint, Succeed, SaveBegin, SaveCommit, SaveCollide, SaveRetry,
                    Fail, Release, LoseLease
<1>6. CASE Control(w)
  BY <1>6 DEF Control, RequestStop, Exit, Crash, Restart
<1>. QED  BY <1>2, <1>3, <1>4, <1>5, <1>6

\* A worker whose token was superseded changes no row, whatever it does next.
THEOREM SupersededStaysSilent == Spec => SupersededWritesNothing
<1>. DEFINE Silent ==
       \A w \in Worker :
         (/\ Believes(w) /\ worker'[w] # worker[w]
          /\ row[worker[w].run].token # worker[w].token) => row' = row
<1>1. TypeOK /\ Tokens /\ [Next]_vars => [Silent]_vars
  BY SupersededStep
<1>. QED  BY <1>1, TokensHold, PTL DEF Spec, SupersededWritesNothing

-----------------------------------------------------------------------------
(* The expiry of the fence *)

\* A row whose lease a step leaves as it was, renews past the present, or leaves
\* without an owner that believes in it.
LeaseIsQuiet(r) ==
  \/ row'[r].owner = row[r].owner /\ row'[r].expires = row[r].expires
  \/ row'[r].expires > now
  \/ row'[r].owner = NoWorker
  \/ worker'[row'[r].owner].phase = "idle"

LEMMA QuietKeepsExpiry ==
  ASSUME TypeOK, TypeOK', Tokens, Quiet, ExpiryNeverFences, \A r \in Run : LeaseIsQuiet(r)
  PROVE  ExpiryNeverFences'
<1>. SUFFICES ASSUME NEW w \in Worker, NEW r \in Run, Holds(w, r)'
              PROVE  row'[r].expires > worker'[w].heartbeatAt
  BY DEF ExpiryNeverFences
<1>1. SameClaim(w) /\ worker'[w].run = r /\ row'[r].owner = w /\ row'[r].token = worker'[w].token
  BY DEF Holds, Believes, Quiet, WorkersAreQuiet, Believing
<1>2. worker'[w].heartbeatAt = worker[w].heartbeatAt /\ worker[w].heartbeatAt <= now
      /\ worker[w].heartbeatAt \in Nat /\ now \in Nat /\ row'[r].expires \in Int
  BY <1>1, WorkerFields DEF SameClaim, Tokens, ClockIsAhead, TypeOK, RowType
<1>3. CASE row'[r].owner = row[r].owner /\ row'[r].expires = row[r].expires
  BY <1>1, <1>2, <1>3 DEF Holds, SameClaim, Quiet, RowsAreQuiet, ExpiryNeverFences
<1>4. CASE row'[r].expires > now
  BY <1>2, <1>4
<1>5. row'[r].owner # NoWorker /\ worker'[row'[r].owner].phase # "idle"
  BY <1>1, ProcessAssumption DEF Holds, Believes
<1>. QED  BY <1>3, <1>4, <1>5 DEF LeaseIsQuiet

\* Saves and insertions.
LEMMA WritesKeepLeases ==
  ASSUME TypeOK
  PROVE  /\ UNCHANGED row => \A r \in Run : LeaseIsQuiet(r)
         /\ \A w \in Worker : \A status, at :
              row' = Saved(w, status, at) => \A r \in Run : LeaseIsQuiet(r)
         /\ \A w \in Worker, s \in Run : \A status, at, k :
              row' = [Saved(w, status, at) EXCEPT ![s] = NewRun(k, now)]
                => \A r \in Run : LeaseIsQuiet(r)
         /\ \A s \in Run : \A k :
              row' = [row EXCEPT ![s] = NewRun(k, now)] => \A r \in Run : LeaseIsQuiet(r)
<1>1. UNCHANGED row => \A r \in Run : LeaseIsQuiet(r)
  BY DEF LeaseIsQuiet
<1>2. ASSUME NEW w \in Worker, NEW status, NEW at, NEW r \in Run
      PROVE  /\ Saved(w, status, at)[r].owner = row[r].owner
             /\ Saved(w, status, at)[r].expires = row[r].expires
  BY DEF Saved, TypeOK, RowType
<1>3. ASSUME NEW w \in Worker, NEW status, NEW at, NEW k, NEW s \in Run, NEW r \in Run,
             row' = [Saved(w, status, at) EXCEPT ![s] = NewRun(k, now)]
      PROVE  LeaseIsQuiet(r)
  <2>1. r = s => row'[r].owner = NoWorker
    BY <1>3 DEF NewRun, Absent, Saved, TypeOK
  <2>2. r # s => row'[r] = Saved(w, status, at)[r]
    BY <1>3 DEF Saved, TypeOK
  <2>. QED  BY <1>2, <2>1, <2>2 DEF LeaseIsQuiet
<1>4. ASSUME NEW k, NEW s \in Run, NEW r \in Run, row' = [row EXCEPT ![s] = NewRun(k, now)]
      PROVE  LeaseIsQuiet(r)
  <2>1. r = s => row'[r].owner = NoWorker
    BY <1>4 DEF NewRun, Absent, TypeOK
  <2>2. r # s => row'[r] = row[r]
    BY <1>4 DEF TypeOK
  <2>. QED  BY <2>1, <2>2 DEF LeaseIsQuiet
<1>5. ASSUME NEW w \in Worker, NEW status, NEW at, NEW r \in Run, row' = Saved(w, status, at)
      PROVE  LeaseIsQuiet(r)
  BY <1>2, <1>5 DEF LeaseIsQuiet
<1>. QED  BY <1>1, <1>3, <1>4, <1>5

LEMMA WinningKeepsExpiry ==
  ASSUME TypeOK, TypeOK', Tokens, ExpiryNeverFences, NEW w \in Worker, ClaimWin(w)
  PROVE  ExpiryNeverFences'
<1>1. PICK c \in worker[w].cands : ClaimWin(w)!(c)
  BY DEF ClaimWin
<1>2. c.run \in Run /\ worker[w].moment \in Nat
  BY WorkerFields DEF CandidateType
<1>3. /\ row'[c.run].owner = w /\ row'[c.run].expires = worker[w].moment + LeaseTicks
      /\ \A s \in Run \ {c.run} : row'[s] = row[s]
  BY <1>1, <1>2 DEF Until, TypeOK, RowType
<1>4. /\ worker'[w].run = c.run /\ worker'[w].heartbeatAt = worker[w].moment
      /\ \A v \in Worker \ {w} : worker'[v] = worker[v]
  BY <1>1, <1>2 DEF Forget, Idle, TypeOK, WorkerType
<1>. SUFFICES ASSUME NEW v \in Worker, NEW r \in Run, Holds(v, r)'
              PROVE  row'[r].expires > worker'[v].heartbeatAt
  BY DEF ExpiryNeverFences
<1>5. CASE r = c.run
  BY <1>2, <1>3, <1>4, <1>5, BoundAssumption DEF Holds
<1>6. CASE r # c.run
  BY <1>3, <1>4, <1>6 DEF Holds, Believes, ExpiryNeverFences
<1>. QED  BY <1>5, <1>6

LEMMA NextKeepsExpiry ==
  TypeOK /\ TypeOK' /\ Tokens /\ ExpiryNeverFences /\ [Next]_vars => ExpiryNeverFences'
<1>. SUFFICES ASSUME TypeOK, TypeOK', Tokens, ExpiryNeverFences, [Next]_vars
              PROVE  ExpiryNeverFences'
  OBVIOUS
<1>1. ASSUME NEW w \in Worker, Claim(w)  PROVE  ExpiryNeverFences'
  <2>1. CASE ClaimWin(w)
    BY <2>1, WinningKeepsExpiry
  <2>2. CASE ClaimRead(w) \/ ClaimLose(w) \/ ClaimRetry(w) \/ ClaimCollide(w)
    <3>1. UNCHANGED row /\ ~Believes(w)
      BY <2>2 DEF ClaimRead, ClaimLose, ClaimRetry, ClaimCollide, InPhase, Believes
    <3>2. worker'[w].phase \in {"claiming", "idle", "down"}
      BY <2>2 DEF ClaimRead, ClaimLose, ClaimRetry, ClaimCollide, InPhase, Forget, Idle,
                  TypeOK, WorkerType
    <3>3. \A v \in Worker \ {w} : worker'[v] = worker[v]
      BY <1>1, OthersKeepTheirMemory
    <3>. QED  BY <3>1, <3>2, <3>3 DEF ExpiryNeverFences, Holds, Believes
  <2>. QED  BY <1>1, <2>1, <2>2 DEF Claim
<1>2. ASSUME NEW w \in Worker, Heartbeat(w) \/ Step(w)  PROVE  ExpiryNeverFences'
  <2>1. CASE HeartbeatOk(w)
    <3>1. \A r \in Run : \/ row'[r] = row[r]
                         \/ row'[r].expires = now + LeaseTicks
      BY <2>1, WorkerFields DEF HeartbeatOk, Until, TypeOK, RowType
    <3>2. \A r \in Run : LeaseIsQuiet(r)
      BY <3>1, BoundAssumption DEF LeaseIsQuiet, TypeOK
    <3>. QED  BY <1>2, <3>2, StepsAreQuiet, QuietKeepsExpiry
  <2>2. CASE HeartbeatLost(w) \/ Step(w)
    <3>1. UNCHANGED row
      BY <2>2 DEF HeartbeatLost, LoseLease, Step, StepReturns
    <3>. QED  BY <1>2, <3>1, WritesKeepLeases, StepsAreQuiet, QuietKeepsExpiry
  <2>. QED  BY <1>2, <2>1, <2>2 DEF Heartbeat
<1>3. ASSUME NEW w \in Worker, Settle(w)  PROVE  ExpiryNeverFences'
  <2>1. \A r \in Run : LeaseIsQuiet(r)
    <3>1. CASE Release(w)
      <4>1. worker'[w].phase = "idle"
        BY <3>1 DEF Release, Forget, Idle, TypeOK
      <4>2. \A r \in Run : row'[r] = row[r] \/ row'[r].owner = w
        BY <3>1 DEF Release, Fenced, TypeOK, RowType
      <4>. QED  BY <4>1, <4>2 DEF LeaseIsQuiet
    <3>2. CASE SaveCommit(w)
      BY <3>2, WritesKeepLeases DEF SaveCommit
    <3>3. CASE Checkpoint(w) \/ Succeed(w) \/ SaveBegin(w) \/ SaveCollide(w) \/ SaveRetry(w)
      BY <3>3, WritesKeepLeases
         DEF Checkpoint, Succeed, SaveBegin, SaveCollide, SaveRetry, LoseLease
    <3>4. CASE Fail(w)
      <4>1. \E status, at : row' = Saved(w, status, at) \/ row' = row
        BY <3>4 DEF Fail, LoseLease
      <4>. QED  BY <4>1, WritesKeepLeases
    <3>. QED  BY <1>3, <3>1, <3>2, <3>3, <3>4 DEF Settle
  <2>. QED  BY <1>3, <2>1, SettlingIsQuiet, QuietKeepsExpiry
<1>4. ASSUME (\E w \in Worker : Control(w)) \/ (\E c \in Client : Enqueue(c)) \/ Tick
      PROVE  ExpiryNeverFences'
  <2>1. \A r \in Run : LeaseIsQuiet(r)
    <3>1. \/ UNCHANGED row
          \/ \E s \in Run : \E k : row' = [row EXCEPT ![s] = NewRun(k, now)]
      BY <1>4 DEF Control, RequestStop, Exit, Crash, Restart, Enqueue, EnqueueLookup,
                  EnqueueInsert, Tick
    <3>. QED  BY <3>1, WritesKeepLeases
  <2>. QED  BY <1>4, <2>1, OthersAreQuiet, QuietKeepsExpiry
<1>5. CASE UNCHANGED vars
  BY <1>5 DEF vars, ExpiryNeverFences, Holds, Believes
<1>. QED  BY <1>1, <1>2, <1>3, <1>4, <1>5 DEF Next

\* Whenever owner and token match, the lease outlives the loaded heartbeat: the
\* third conjunct of `_fenced` never refuses a write.
THEOREM ExpiryIsNoFence == Spec => []ExpiryNeverFences
<1>1. Init => ExpiryNeverFences
  BY DEF Init, ExpiryNeverFences, Holds, Believes, Idle
<1>. QED  BY <1>1, NextKeepsExpiry, TokensHold, TypesHold, PTL DEF Spec

-----------------------------------------------------------------------------
(* The refinement of LeaseQueue, and keys and follow-ups                   *)
(*                                                                         *)
(* Two facts are needed beside the tokens: a run is running while somebody *)
(* holds its latest token, and a candidate is a row that was there and     *)
(* could be claimed.  A row never loses its key and never goes away; where *)
(* stale reads are refused, a row appears only under a key no row has.     *)

HolderRuns ==
  \A w \in Worker : Believes(w) /\ row[worker[w].run].token = worker[w].token
    => row[worker[w].run].status = "running"

CandidatesWerePresent ==
  \A w \in Worker : \A c \in worker[w].cands :
    Present(c.run) /\ c.status \in {"pending", "running", "failed"}

Held == HolderRuns /\ CandidatesWerePresent

Lease(w) == IF Believes(w) THEN [run |-> worker[w].run, token |-> worker[w].token]
            ELSE [run |-> 0, token |-> 0]

-----------------------------------------------------------------------------
(* The invariant *)

\* A step that changes no status but that of absent rows, and lets no worker
\* believe something new, keeps it.
LEMMA QuietKeepsHeld ==
  ASSUME TypeOK, TypeOK', Tokens, Held, Quiet,
         \A r \in Run : Present(r) => row'[r].status = row[r].status
  PROVE  Held'
<1>1. \A w \in Worker : worker[w].run \in Run /\ worker'[w].run \in Run
                        /\ worker[w].token \in Nat /\ worker'[w].cands \subseteq CandidateType
  BY DEF TypeOK, WorkerType
<1>2. HolderRuns'
  <2>. SUFFICES ASSUME NEW w \in Worker, worker'[w].phase \in Believing,
                       row'[worker'[w].run].token = worker'[w].token
                PROVE  row'[worker'[w].run].status = "running"
    BY DEF HolderRuns, Believes, Believing
  <2>1. /\ Believes(w) /\ worker'[w].run = worker[w].run /\ worker'[w].token = worker[w].token
        /\ row[worker[w].run].token = worker[w].token
    BY <1>1 DEF Quiet, WorkersAreQuiet, RowsAreQuiet, SameClaim
  <2>2. Present(worker[w].run) /\ row[worker[w].run].status = "running"
    BY <1>1, <2>1 DEF Held, HolderRuns, Present
  <2>. QED  BY <1>1, <2>1, <2>2
<1>3. CandidatesWerePresent'
  <2>. SUFFICES ASSUME NEW w \in Worker, NEW c \in worker'[w].cands
                PROVE  row'[c.run].status # "absent" /\ c.status \in {"pending", "running", "failed"}
    BY DEF CandidatesWerePresent, Present
  <2>1. c \in worker[w].cands /\ c.run \in Run
    BY <1>1 DEF Quiet, WorkersAreQuiet, CandidateType
  <2>2. Present(c.run) /\ c.status \in {"pending", "running", "failed"}
    BY <2>1 DEF Held, CandidatesWerePresent
  <2>. QED  BY <2>1, <2>2 DEF Present
<1>. QED  BY <1>2, <1>3 DEF Held

\* A save changes the status of the saver's own run only, and the saver keeps
\* the run only where it leaves it running.
LEMMA SavingKeepsHeld ==
  ASSUME TypeOK, TypeOK', Tokens, Held, Quiet, NEW w \in Worker,
         Believes(w), row[worker[w].run].token = worker[w].token,
         \A r \in Run \ {worker[w].run} : Present(r) => row'[r].status = row[r].status,
         \/ worker'[w].phase = "idle"
         \/ row'[worker[w].run].status = "running"
  PROVE  Held'
<1>1. \A v \in Worker : worker[v].run \in Run /\ worker'[v].run \in Run
                        /\ worker[v].token \in Nat /\ worker'[v].cands \subseteq CandidateType
  BY DEF TypeOK, WorkerType
<1>2. HolderRuns'
  <2>. SUFFICES ASSUME NEW v \in Worker, worker'[v].phase \in Believing,
                       row'[worker'[v].run].token = worker'[v].token
                PROVE  row'[worker'[v].run].status = "running"
    BY DEF HolderRuns, Believes, Believing
  <2>1. /\ Believes(v) /\ worker'[v].run = worker[v].run /\ worker'[v].token = worker[v].token
        /\ row[worker[v].run].token = worker[v].token
    BY <1>1 DEF Quiet, WorkersAreQuiet, RowsAreQuiet, SameClaim
  <2>2. CASE v = w
    BY <2>1, <2>2 DEF Believing
  <2>3. CASE v # w
    <3>1. worker[v].run # worker[w].run
      BY <2>1, <2>3 DEF Tokens, TokensAreExclusive
    <3>2. Present(worker[v].run) /\ row[worker[v].run].status = "running"
      BY <1>1, <2>1 DEF Held, HolderRuns, Present
    <3>. QED  BY <1>1, <2>1, <3>1, <3>2
  <2>. QED  BY <2>2, <2>3
<1>3. CandidatesWerePresent'
  <2>. SUFFICES ASSUME NEW v \in Worker, NEW c \in worker'[v].cands
                PROVE  row'[c.run].status # "absent" /\ c.status \in {"pending", "running", "failed"}
    BY DEF CandidatesWerePresent, Present
  <2>1. c \in worker[v].cands /\ c.run \in Run
    BY <1>1 DEF Quiet, WorkersAreQuiet, CandidateType
  <2>2. Present(c.run) /\ c.status \in {"pending", "running", "failed"}
    BY <2>1 DEF Held, CandidatesWerePresent
  <2>. QED  BY <2>1, <2>2 DEF Quiet, BlanksAreQuiet, Present
<1>. QED  BY <1>2, <1>3 DEF Held

\* A new candidate is a claimable row; the winner's run is running and everybody
\* else who believes in it has an older token.
LEMMA ReadingKeepsHeld ==
  ASSUME TypeOK, TypeOK', Held, NEW w \in Worker, NEW moment \in Nat, ~Believes(w), UNCHANGED row,
         \A v \in Worker \ {w} : worker'[v] = worker[v],
         worker'[w].phase \in {"claiming", "idle"},
         worker'[w].cands \subseteq Candidates(moment)
  PROVE  Held'
<1>1. \A c \in Candidates(moment) : Present(c.run) /\ c.status \in {"pending", "running", "failed"}
  BY DEF Candidates, Candidate, Claimable, Present
<1>2. CandidatesWerePresent'
  BY <1>1 DEF Held, CandidatesWerePresent, Present
<1>3. HolderRuns'
  BY DEF Held, HolderRuns, Believes
<1>. QED  BY <1>2, <1>3 DEF Held

LEMMA WinningKeepsHeld ==
  ASSUME TypeOK, Tokens, Held, NEW w \in Worker, ClaimWin(w)
  PROVE  Held'
<1>1. PICK c \in worker[w].cands : ClaimWin(w)!(c)
  BY DEF ClaimWin
<1>. DEFINE r == c.run
            t == c.token + 1
<1>2. r \in Run /\ c.token \in Nat /\ row[r].token = c.token
  BY <1>1, WorkerFields DEF CandidateType, Unclaimed
<1>3. /\ row'[r].token = t /\ row'[r].status = "running"
      /\ \A s \in Run \ {r} : row'[s] = row[s]
  BY <1>1, <1>2 DEF NextToken, TypeOK, RowType
<1>4. /\ worker'[w].run = r /\ worker'[w].cands = {}
      /\ \A v \in Worker \ {w} : worker'[v] = worker[v]
  BY <1>1, <1>2 DEF NextToken, Forget, Idle, TypeOK, WorkerType
<1>5. CandidatesWerePresent'
  <2>1. ASSUME NEW v \in Worker, v # w, NEW d \in worker[v].cands
        PROVE  row'[d.run].status # "absent" /\ d.status \in {"pending", "running", "failed"}
    BY <1>3, <2>1, WorkerFields DEF Held, CandidatesWerePresent, Present, CandidateType
  <2>. QED  BY <2>1, <1>4 DEF CandidatesWerePresent, Present
<1>6. HolderRuns'
  <2>1. ASSUME NEW v \in Worker, v # w, Believes(v), row'[worker[v].run].token = worker[v].token
        PROVE  row'[worker[v].run].status = "running"
    <3>1. CASE worker[v].run = r
      BY <1>3, <3>1
    <3>2. CASE worker[v].run # r
      BY <1>3, <2>1, <3>2, WorkerFields DEF Held, HolderRuns
    <3>. QED  BY <3>1, <3>2
  <2>. QED  BY <2>1, <1>3, <1>4 DEF HolderRuns, Believes
<1>. QED  BY <1>5, <1>6 DEF Held

LEMMA ClaimKeepsHeld ==
  ASSUME TypeOK, TypeOK', Tokens, Held, NEW w \in Worker, Claim(w)
  PROVE  Held'
<1>0. worker[w].moment \in Nat /\ now \in Nat
  BY WorkerFields
<1>1. CASE ClaimRead(w)
  <2>1. /\ worker'[w].phase = "claiming" /\ worker'[w].cands = Candidates(now)
        /\ \A v \in Worker \ {w} : worker'[v] = worker[v]
    BY <1>1 DEF ClaimRead, TypeOK, WorkerType
  <2>2. ~Believes(w) /\ UNCHANGED row
    BY <1>1 DEF ClaimRead, InPhase, Believes
  <2>. QED  BY <1>0, <2>1, <2>2, ReadingKeepsHeld
<1>2. CASE ClaimWin(w)
  BY <1>2, WinningKeepsHeld
<1>3. CASE ClaimRetry(w)
  <2>1. /\ worker'[w].phase \in {"claiming", "idle"}
        /\ worker'[w].cands \subseteq Candidates(worker[w].moment)
        /\ \A v \in Worker \ {w} : worker'[v] = worker[v]
    BY <1>3 DEF ClaimRetry, InPhase, Forget, Idle, TypeOK, WorkerType
  <2>2. ~Believes(w) /\ UNCHANGED row
    BY <1>3 DEF ClaimRetry, InPhase, Believes
  <2>. QED  BY <1>0, <2>1, <2>2, ReadingKeepsHeld
<1>4. CASE ClaimLose(w) \/ ClaimCollide(w)
  <2>1. /\ worker'[w].phase \in {"idle", "claiming", "down"}
        /\ worker'[w].cands \subseteq worker[w].cands
        /\ \A v \in Worker \ {w} : worker'[v] = worker[v]
    BY <1>4 DEF ClaimLose, ClaimCollide, InPhase, Forget, Idle, TypeOK, WorkerType
  <2>2. UNCHANGED row
    BY <1>4 DEF ClaimLose, ClaimCollide
  <2>3. HolderRuns' /\ CandidatesWerePresent'
    BY <2>1, <2>2 DEF Held, HolderRuns, CandidatesWerePresent, Believes, Present
  <2>. QED  BY <2>3 DEF Held
<1>. QED  BY <1>1, <1>2, <1>3, <1>4 DEF Claim

\* What a save leaves of the rows and of the saver.
LEMMA SettlingKeepsHeld ==
  ASSUME TypeOK, TypeOK', Tokens, Held, NEW w \in Worker, Settle(w)
  PROVE  Held'
<1>. DEFINE own == worker[w].run
            Mine == /\ Believes(w) /\ row[own].token = worker[w].token
                    /\ \A r \in Run \ {own} : Present(r) => row'[r].status = row[r].status
            Same == \A r \in Run : Present(r) => row'[r].status = row[r].status
<1>0. Quiet /\ own \in Run
  BY SettlingIsQuiet, WorkerFields
<1>1. ASSUME UNCHANGED row  PROVE  Held'
  <2>1. Same
    BY <1>1
  <2>. QED  BY <1>0, <2>1, QuietKeepsHeld
<1>2. ASSUME NEW status \in Status, NEW at \in Nat, row' = Saved(w, status, at),
             Fenced(w), Believes(w), worker'[w].phase = "idle" \/ status = "running"
      PROVE  Held'
  <2>1. /\ row'[own].status = status
        /\ \A r \in Run \ {own} : row'[r].status = row[r].status
    BY <1>0, <1>2 DEF Saved, TypeOK, RowType
  <2>2. row[own].token = worker[w].token
    BY <1>2 DEF Fenced
  <2>. QED  BY <1>0, <1>2, <2>1, <2>2, SavingKeepsHeld
<1>3. worker[w].nextAt \in Nat /\ RetryAt(worker[w].attempt) \in Nat
  BY BoundAssumption DEF TypeOK, WorkerType, RetryAt
<1>4. CASE Checkpoint(w)
  <2>. QED  BY <1>1, <1>2, <1>3, <1>4 DEF Checkpoint, InPhase, Believes, Status, LoseLease
<1>5. CASE Succeed(w)
  <2>1. worker'[w].phase = "idle"
    BY <1>5 DEF Succeed, LoseLease, Forget, Idle, TypeOK
  <2>. QED  BY <1>1, <1>2, <1>3, <1>5, <2>1 DEF Succeed, InPhase, Believes, Status, LoseLease
<1>6. CASE Fail(w)
  <2>1. worker'[w].phase = "idle"
    BY <1>6 DEF Fail, LoseLease, Forget, Idle, TypeOK
  <2>. QED  BY <1>1, <1>2, <1>3, <1>6, <2>1 DEF Fail, InPhase, Believes, Status, LoseLease
<1>7. CASE SaveBegin(w) \/ SaveCollide(w) \/ SaveRetry(w)
  BY <1>1, <1>7 DEF SaveBegin, SaveCollide, SaveRetry, LoseLease
<1>8. CASE Release(w)
  <2>1. Same
    BY <1>0, <1>8 DEF Release, TypeOK, RowType
  <2>. QED  BY <1>0, <2>1, QuietKeepsHeld
<1>9. CASE SaveCommit(w)
  <2>1. /\ InPhase(w, "committing") /\ worker'[w].phase = "idle"
        /\ \/ row' = Saved(w, "succeeded", worker[w].nextAt)
           \/ \E r \in Run : IsNext(r) /\ row' = [Saved(w, "succeeded", worker[w].nextAt)
                                                 EXCEPT ![r] = NewRun(worker[w].outcome.followUp, now)]
    BY <1>9 DEF SaveCommit, Forget, Idle, TypeOK
  <2>2. Believes(w) /\ row[own].token = worker[w].token
    BY <2>1 DEF Believes, InPhase, Tokens, CommitHoldsTheRow
  <2>3. \A r \in Run \ {own} : Present(r) => row'[r].status = row[r].status
    BY <1>0, <2>1 DEF Saved, IsNext, TypeOK, RowType
  <2>. QED  BY <1>0, <2>1, <2>2, <2>3, SavingKeepsHeld
<1>. QED  BY <1>4, <1>5, <1>6, <1>7, <1>8, <1>9 DEF Settle

LEMMA NextKeepsHeld == TypeOK /\ TypeOK' /\ Tokens /\ Held /\ [Next]_vars => Held'
<1>. SUFFICES ASSUME TypeOK, TypeOK', Tokens, Held, [Next]_vars  PROVE  Held'
  OBVIOUS
<1>1. CASE UNCHANGED vars
  BY <1>1 DEF vars, Held, HolderRuns, CandidatesWerePresent, Believes, Present
<1>2. ASSUME NEW w \in Worker, Heartbeat(w) \/ Step(w) \/ Control(w)  PROVE  Held'
  <2>1. Quiet
    BY <1>2, StepsAreQuiet, OthersAreQuiet
  <2>2. \A r \in Run : row'[r].status = row[r].status
    BY <1>2, WorkerFields DEF Heartbeat, HeartbeatOk, HeartbeatLost, LoseLease, Step, StepReturns,
       Control, RequestStop, Exit, Crash, Restart, TypeOK, RowType
  <2>. QED  BY <2>1, <2>2, QuietKeepsHeld
<1>3. ASSUME (\E c \in Client : Enqueue(c)) \/ Tick  PROVE  Held'
  <2>1. Quiet
    BY <1>3, OthersAreQuiet
  <2>2. \A r \in Run : Present(r) => row'[r].status = row[r].status
    BY <1>3 DEF Enqueue, EnqueueLookup, EnqueueInsert, IsNext, Tick, TypeOK
  <2>. QED  BY <2>1, <2>2, QuietKeepsHeld
<1>. QED  BY <1>1, <1>2, <1>3, ClaimKeepsHeld, SettlingKeepsHeld DEF Next

LEMMA HeldHolds == Spec => [](TypeOK /\ Tokens /\ Held)
<1>1. Init => Held
  BY DEF Init, Held, HolderRuns, CandidatesWerePresent, Idle, Believes
<1>2. TypeOK /\ TypeOK' /\ Tokens /\ Held /\ [Next]_vars => Held'
  BY NextKeepsHeld
<1>. QED  BY <1>1, <1>2, TokensHold, PTL DEF Spec

-----------------------------------------------------------------------------
(* The steps, read in LeaseQueue *)

SameRows   == \A r \in Run : /\ row'[r].token = row[r].token
                            /\ AbstractPhase(row'[r].status) = AbstractPhase(row[r].status)
OthersKeep(w) == \A v \in Worker \ {w} : worker'[v] = worker[v]

LEMMA LeaseIsReal ==
  ASSUME TypeOK, NEW w \in Worker, Believes(w)
  PROVE  Lease(w) # [run |-> 0, token |-> 0] /\ Lease(w) = [run |-> worker[w].run, token |-> worker[w].token]
<1>1. worker[w].run \in Nat /\ worker[w].run # 0
  BY WorkerFields, FirstRun, BoundAssumption DEF Run
<1>. QED  BY <1>1 DEF Lease

\* A step that leaves tokens and phases alone and by which a worker learns
\* nothing new stutters, or lets the worker's lease go.
LEMMA QuietStep ==
  ASSUME TypeOK, Quiet, SameRows, NEW w \in Worker, OthersKeep(w), isolation' = isolation
  PROVE  UNCHANGED Queue!vars \/ Queue!Abandon(w)
<1>1. \A v \in Worker \ {w} : Lease(v)' = Lease(v)
  BY DEF OthersKeep, Lease, Believes
<1>2. /\ [r \in Run |-> AbstractPhase(row[r].status)]' = [r \in Run |-> AbstractPhase(row[r].status)]
      /\ [r \in Run |-> row[r].token]' = [r \in Run |-> row[r].token]
      /\ Serializable' = Serializable
  BY DEF SameRows, Serializable
<1>3. CASE worker'[w].phase \in Believing
  <2>1. \A v \in Worker : Lease(v)' = Lease(v)
    BY <1>1, <1>3 DEF Quiet, WorkersAreQuiet, SameClaim, Lease, Believes, Believing
  <2>. QED  BY <1>2, <2>1 DEF Queue!vars, Lease
<1>4. CASE worker'[w].phase \notin Believing
  <2>1. Lease(w)' = [run |-> 0, token |-> 0]
    BY <1>4 DEF Lease, Believes, Believing
  <2>2. CASE Believes(w)
    <3>1. Queue!Believes(w)
      BY <2>2, LeaseIsReal DEF Queue!Believes, Queue!NoLease, Lease
    <3>. QED  BY <1>1, <1>2, <2>1, <3>1 DEF Queue!Abandon, Queue!Drop, Queue!NoLease, Lease
  <2>3. CASE ~Believes(w)
    <3>1. \A v \in Worker : Lease(v)' = Lease(v)
      BY <1>1, <2>1, <2>3 DEF Lease
    <3>. QED  BY <1>2, <3>1 DEF Queue!vars, Lease
  <2>. QED  BY <2>2, <2>3
<1>. QED  BY <1>3, <1>4

LEMMA InsertStep ==
  ASSUME TypeOK, NEW r \in Run, ~Present(r), NEW k, NEW moment, row[r].token = 0,
         row' = [row EXCEPT ![r] = NewRun(k, moment)], UNCHANGED <<worker, isolation>>
  PROVE  Queue!Submit(r)
<1>1. row'[r].status = "pending" /\ row'[r].token = 0 /\ \A s \in Run \ {r} : row'[s] = row[s]
  BY DEF NewRun, Absent, TypeOK
<1>2. AbstractPhase(row[r].status) = "absent" /\ AbstractPhase("pending") = "open"
  BY DEF AbstractPhase, Present, Terminal
<1>3. [s \in Run |-> AbstractPhase(row[s].status)]'
        = [[s \in Run |-> AbstractPhase(row[s].status)] EXCEPT ![r] = "open"]
  <2>1. /\ AbstractPhase(row[r].status)' = "open"
        /\ \A s \in Run \ {r} : AbstractPhase(row[s].status)' = AbstractPhase(row[s].status)
    BY <1>1 DEF AbstractPhase, Terminal
  <2>. QED  BY <2>1
<1>4. [s \in Run |-> row[s].token]' = [s \in Run |-> row[s].token]
  BY <1>1
<1>. QED  BY <1>2, <1>3, <1>4 DEF Queue!Submit, Believes, Serializable

\* The winner's token is the next one and, where stale reads are refused, the
\* run was as the winner read it.
LEMMA WinningStep ==
  ASSUME TypeOK, Held, NEW w \in Worker, ClaimWin(w)
  PROVE  \E r \in Run : Queue!Claim(w, r)
<1>1. PICK c \in worker[w].cands : ClaimWin(w)!(c)
  BY DEF ClaimWin
<1>. DEFINE r == c.run
            t == c.token + 1
<1>2. /\ r \in Run /\ c.token \in Nat /\ row[r].token = c.token
      /\ Present(r) /\ c.status \in {"pending", "running", "failed"}
  BY <1>1, WorkerFields DEF CandidateType, Unclaimed, Held, CandidatesWerePresent
<1>3. /\ row'[r].token = t /\ row'[r].status = "running"
      /\ \A s \in Run \ {r} : row'[s] = row[s]
  BY <1>1, <1>2 DEF NextToken, TypeOK, RowType
<1>4. /\ worker'[w].run = r /\ worker'[w].token = t /\ worker'[w].phase = "claimed"
      /\ \A v \in Worker \ {w} : worker'[v] = worker[v]
  BY <1>1, <1>2 DEF NextToken, Forget, Idle, TypeOK, WorkerType
<1>5. AbstractPhase(row[r].status) # "absent"
  BY <1>2 DEF AbstractPhase, Present, Terminal
<1>6. Serializable => AbstractPhase(row[r].status) # "over"
  <2>1. Serializable => row[r].status = c.status
    BY <1>1 DEF Stale, Candidate
  <2>. QED  BY <1>2, <2>1 DEF AbstractPhase, Terminal
<1>7. [s \in Run |-> AbstractPhase(row[s].status)]'
        = [[s \in Run |-> AbstractPhase(row[s].status)] EXCEPT ![r] = "held"]
  <2>1. /\ AbstractPhase(row[r].status)' = "held"
        /\ \A s \in Run \ {r} : AbstractPhase(row[s].status)' = AbstractPhase(row[s].status)
    BY <1>3 DEF AbstractPhase, Terminal
  <2>. QED  BY <2>1
<1>8. [s \in Run |-> row[s].token]' = [[s \in Run |-> row[s].token] EXCEPT ![r] = @ + 1]
  BY <1>2, <1>3
<1>9. Lease(w) = [run |-> 0, token |-> 0] /\ Lease(w)' = [run |-> r, token |-> t]
      /\ \A v \in Worker \ {w} : Lease(v)' = Lease(v)
  BY <1>1, <1>4 DEF Lease, Believes, InPhase
<1>10. [v \in Worker |-> Lease(v)]' = [[v \in Worker |-> Lease(v)] EXCEPT ![w] =
          [run |-> r, token |-> [s \in Run |-> row[s].token][r] + 1]]
  BY <1>2, <1>9
<1>11. Serializable' = Serializable
  BY <1>1 DEF Serializable
<1>. QED  BY <1>2, <1>5, <1>6, <1>7, <1>8, <1>9, <1>10, <1>11
          DEF Queue!Claim, Queue!Believes, Queue!NoLease, Lease

\* A save that ends the run or gives it back, with or without a follow-up.
LEMMA SavingStep ==
  ASSUME TypeOK, Held, NEW w \in Worker, NEW status \in Terminal \cup {"failed"}, NEW at \in Nat,
         Believes(w), row[worker[w].run].token = worker[w].token,
         OthersKeep(w), worker'[w].phase = "idle", isolation' = isolation,
         \/ row' = Saved(w, status, at)
         \/ /\ status = "succeeded"
            /\ \E r \in Run, k \in FollowUpKey \cup {NoKey} :
                 /\ IsNext(r) /\ row[r].token = 0
                 /\ row' = [Saved(w, status, at) EXCEPT ![r] = NewRun(k, now)]
  PROVE  Queue!PutBack(w) \/ Queue!End(w)
<1>. DEFINE own == worker[w].run
            Phases == [s \in Run |-> AbstractPhase(row[s].status)]
            Counts == [s \in Run |-> row[s].token]
            Leases == [v \in Worker |-> Lease(v)]
<1>1. own \in Run /\ row[own].status = "running" /\ Present(own)
  BY WorkerFields DEF Held, HolderRuns, Present
<1>2. Phases[own] = "held"
  BY <1>1 DEF AbstractPhase, Terminal
<1>3. /\ Leases' = [Leases EXCEPT ![w] = [run |-> 0, token |-> 0]]
      /\ Leases[w] = [run |-> own, token |-> worker[w].token]
      /\ Leases[w] # [run |-> 0, token |-> 0]
      /\ Serializable' = Serializable
  <2>1. Lease(w)' = [run |-> 0, token |-> 0] /\ \A v \in Worker \ {w} : Lease(v)' = Lease(v)
    BY DEF OthersKeep, Lease, Believes
  <2>. QED  BY <2>1, LeaseIsReal DEF Serializable
<1>4. CASE row' = Saved(w, status, at)
  <2>1. /\ row'[own].status = status /\ row'[own].token = row[own].token
        /\ \A s \in Run \ {own} : row'[s] = row[s]
    BY <1>1, <1>4 DEF Saved, TypeOK, RowType
  <2>2. Counts' = Counts
    BY <1>1, <2>1
  <2>3. Phases' = [Phases EXCEPT ![own] = IF status = "failed" THEN "open" ELSE "over"]
    <3>1. \A s \in Run : AbstractPhase(row[s].status)' =
            IF s # own THEN AbstractPhase(row[s].status)
            ELSE IF status = "failed" THEN "open" ELSE "over"
      BY <2>1 DEF AbstractPhase, Terminal
    <3>. QED  BY <3>1
  <2>. QED  BY <1>1, <1>2, <1>3, <2>2, <2>3
            DEF Queue!PutBack, Queue!End, Queue!Current, Queue!Believes, Queue!Drop, Queue!NoLease, Lease
<1>5. ASSUME status = "succeeded", NEW r \in Run, NEW k, IsNext(r), row[r].token = 0,
             row' = [Saved(w, status, at) EXCEPT ![r] = NewRun(k, now)]
      PROVE  Queue!End(w)
  <2>1. r # own /\ row[r].status = "absent"
    BY <1>1, <1>5 DEF IsNext, Present
  <2>2. /\ row'[own].status = "succeeded" /\ row'[own].token = row[own].token
        /\ row'[r].status = "pending" /\ row'[r].token = 0
        /\ \A s \in Run \ {own, r} : row'[s] = row[s]
    <3>. DEFINE S == Saved(w, status, at)
    <3>1. /\ S \in [Run -> RowType] /\ S[own].status = status /\ S[own].token = row[own].token
          /\ \A s \in Run \ {own} : S[s] = row[s]
      <4>1. status \in Status
        BY DEF Status, Terminal
      <4>2. S \in [Run -> RowType]
        BY <4>1, SavedType
      <4>. QED  BY <1>1, <1>5, <4>2 DEF Saved, TypeOK, RowType
    <3>2. NewRun(k, now).status = "pending" /\ NewRun(k, now).token = 0
      BY DEF NewRun, Absent
    <3>. HIDE DEF S
    <3>. QED  BY <1>1, <1>5, <2>1, <3>1, <3>2 DEF S
  <2>3. Counts' = Counts
    BY <1>5, <2>2
  <2>4. Phases[r] = "absent"
    BY <1>5, <2>1 DEF AbstractPhase, Terminal
  <2>5. Phases' = [Phases EXCEPT ![own] = "over", ![r] = "open"]
    <3>1. \A s \in Run : AbstractPhase(row[s].status)' =
            IF s = own THEN "over" ELSE IF s = r THEN "open" ELSE AbstractPhase(row[s].status)
      BY <2>2 DEF AbstractPhase, Terminal
    <3>. QED  BY <2>1, <3>1
  <2>. QED  BY <1>1, <1>2, <1>3, <2>3, <2>4, <2>5
            DEF Queue!End, Queue!Current, Queue!Believes, Queue!Drop, Queue!NoLease, Lease
<1>. QED  BY <1>4, <1>5

LEMMA WorkerStep ==
  ASSUME TypeOK, Tokens, Held, NEW w \in Worker,
         Claim(w) \/ Heartbeat(w) \/ Step(w) \/ Settle(w) \/ Control(w)
  PROVE  Queue!Next \/ UNCHANGED Queue!vars
<1>0. OthersKeep(w) /\ worker[w].nextAt \in Nat /\ RetryAt(worker[w].attempt) \in Nat
  BY OthersKeepTheirMemory, BoundAssumption DEF OthersKeep, TypeOK, WorkerType, RetryAt
<1>1. ASSUME Quiet, SameRows, isolation' = isolation  PROVE  Queue!Next \/ UNCHANGED Queue!vars
  BY <1>0, <1>1, QuietStep DEF Queue!Next
<1>2. ASSUME NEW status \in Terminal \cup {"failed"}, NEW at \in Nat, row' = Saved(w, status, at),
             Fenced(w), Believes(w), worker'[w].phase = "idle", isolation' = isolation
      PROVE  Queue!Next
  BY <1>0, <1>2, SavingStep DEF Fenced, Queue!Next
<1>3. UNCHANGED row => SameRows
  BY DEF SameRows
<1>4. CASE Claim(w)
  <2>1. CASE ClaimWin(w)
    BY <2>1, WinningStep DEF Queue!Next
  <2>2. CASE ClaimRead(w) \/ ClaimLose(w) \/ ClaimRetry(w) \/ ClaimCollide(w)
    <3>1. /\ UNCHANGED <<row, isolation>> /\ ~Believes(w)
          /\ worker'[w].phase \in {"claiming", "idle", "down"}
      BY <2>2 DEF ClaimRead, ClaimLose, ClaimRetry, ClaimCollide, InPhase, Believes, Forget, Idle,
         TypeOK, WorkerType
    <3>2. \A v \in Worker : Lease(v)' = Lease(v)
      BY <1>0, <3>1 DEF OthersKeep, Lease, Believes
    <3>. QED  BY <3>1, <3>2 DEF Queue!vars, Lease, Serializable
  <2>. QED  BY <1>4, <2>1, <2>2 DEF Claim
<1>5. CASE Heartbeat(w) \/ Step(w) \/ Control(w)
  <2>1. Quiet
    BY <1>5, StepsAreQuiet, OthersAreQuiet
  <2>2. SameRows /\ isolation' = isolation
    <3>1. isolation' = isolation /\ \A r \in Run : row'[r].status = row[r].status
      BY <1>5, WorkerFields DEF Heartbeat, HeartbeatOk, HeartbeatLost, LoseLease, Step, StepReturns,
         Control, RequestStop, Exit, Crash, Restart, TypeOK, RowType
    <3>. QED  BY <2>1, <3>1 DEF SameRows, Quiet, RowsAreQuiet
  <2>. QED  BY <1>1, <2>1, <2>2
<1>6. CASE Settle(w)
  <2>0. Quiet /\ worker[w].run \in Run
    BY <1>6, SettlingIsQuiet, WorkerFields
  <2>1. CASE Checkpoint(w) /\ Fenced(w)
    <3>1. Believes(w) /\ row[worker[w].run].token = worker[w].token /\ isolation' = isolation
      BY <2>1 DEF Checkpoint, Fenced, InPhase, Believes
    <3>2. row[worker[w].run].status = "running"
      BY <3>1 DEF Held, HolderRuns
    <3>3. \A r \in Run : row'[r].status = row[r].status
      <4>1. row' = Saved(w, "running", worker[w].nextAt)
        BY <2>1 DEF Checkpoint
      <4>2. /\ row'[worker[w].run].status = "running"
            /\ \A r \in Run \ {worker[w].run} : row'[r] = row[r]
        BY <2>0, <4>1 DEF Saved, TypeOK
      <4>. QED  BY <3>2, <4>2
    <3>4. SameRows
      BY <2>0, <3>3 DEF SameRows, Quiet, RowsAreQuiet
    <3>. QED  BY <1>1, <2>0, <3>1, <3>4
  <2>2. CASE Succeed(w) /\ Fenced(w)
    <3>1. worker'[w].phase = "idle" /\ Believes(w) /\ isolation' = isolation
      BY <2>2 DEF Succeed, Forget, Idle, InPhase, Believes, TypeOK
    <3>. QED  BY <1>0, <1>2, <2>2, <3>1 DEF Succeed, Terminal
  <2>3. CASE Fail(w) /\ Fenced(w)
    <3>1. worker'[w].phase = "idle" /\ Believes(w) /\ isolation' = isolation
      BY <2>3 DEF Fail, Forget, Idle, InPhase, Believes, TypeOK
    <3>. QED  BY <1>0, <1>2, <2>3, <3>1 DEF Fail, Terminal
  <2>4. CASE SaveBegin(w) \/ SaveCollide(w) \/ SaveRetry(w)
             \/ ((Checkpoint(w) \/ Succeed(w) \/ Fail(w)) /\ ~Fenced(w))
    <3>1. UNCHANGED <<row, isolation>>
      BY <2>4 DEF SaveBegin, SaveCollide, SaveRetry, Checkpoint, Succeed, Fail, LoseLease
    <3>. QED  BY <1>1, <1>3, <2>0, <3>1
  <2>5. CASE Release(w)
    <3>1. isolation' = isolation /\ \A r \in Run : row'[r].status = row[r].status
      BY <2>0, <2>5 DEF Release, TypeOK, RowType
    <3>2. SameRows
      BY <2>0, <3>1 DEF SameRows, Quiet, RowsAreQuiet
    <3>. QED  BY <1>1, <2>0, <3>1, <3>2
  <2>6. CASE SaveCommit(w)
    <3>. DEFINE k == worker[w].outcome.followUp
                done == Saved(w, "succeeded", worker[w].nextAt)
    <3>1. /\ worker'[w].phase = "idle" /\ isolation' = isolation /\ Believes(w)
          /\ row[worker[w].run].token = worker[w].token /\ k \in FollowUpKey \cup {NoKey}
          /\ row' = done \/ \E r \in Run : IsNext(r) /\ row' = [done EXCEPT ![r] = NewRun(k, now)]
      BY <2>6 DEF SaveCommit, Forget, Idle, InPhase, Believes, Tokens, CommitHoldsTheRow,
         TypeOK, WorkerType, Outcome
    <3>2. \A r \in Run : IsNext(r) => row[r].token = 0
      BY DEF Tokens, BlankUntilInserted, IsNext
    <3>3. "succeeded" \in Terminal
      BY DEF Terminal
    <3>4. Queue!PutBack(w) \/ Queue!End(w)
      BY <1>0, <3>1, <3>2, <3>3, SavingStep
    <3>. QED  BY <3>4 DEF Queue!Next
  <2>. QED  BY <1>6, <2>1, <2>2, <2>3, <2>4, <2>5, <2>6 DEF Settle
<1>. QED  BY <1>4, <1>5, <1>6

LEMMA ClientStep ==
  ASSUME TypeOK, Tokens, NEW c \in Client, Enqueue(c)
  PROVE  Queue!Next \/ UNCHANGED Queue!vars
<1>1. UNCHANGED <<worker, isolation>>
  BY DEF Enqueue, EnqueueLookup, EnqueueInsert
<1>2. CASE UNCHANGED row
  BY <1>1, <1>2 DEF Queue!vars, Believes, Serializable
<1>3. ASSUME NEW r \in Run, IsNext(r), NEW k, row' = [row EXCEPT ![r] = NewRun(k, now)]
      PROVE  Queue!Next
  <2>1. row[r].token = 0 /\ ~Present(r)
    BY <1>3 DEF Tokens, BlankUntilInserted, IsNext
  <2>2. Queue!Submit(r)
    BY <1>1, <1>3, <2>1, InsertStep
  <2>. QED  BY <2>2 DEF Queue!Next
<1>. QED  BY <1>2, <1>3 DEF Enqueue, EnqueueLookup, EnqueueInsert

LEMMA NextIsAllowed ==
  TypeOK /\ Tokens /\ Held /\ [Next]_vars => [Queue!Next]_(Queue!vars)
<1>. SUFFICES ASSUME TypeOK, Tokens, Held, [Next]_vars
              PROVE  Queue!Next \/ UNCHANGED Queue!vars
  OBVIOUS
<1>1. CASE UNCHANGED vars \/ Tick
  BY <1>1 DEF vars, Tick, Queue!vars, Believes, Serializable
<1>. QED  BY <1>1, WorkerStep, ClientStep DEF Next

LEMMA InitIsAllowed == Init => Queue!Init
<1>. SUFFICES ASSUME Init  PROVE  Queue!Init
  OBVIOUS
<1>1. \A w \in Worker : ~Believes(w)
  BY DEF Init, Idle, Believes
<1>2. \A r \in Run : row[r].token = 0 /\ AbstractPhase(row[r].status) = "absent"
  BY DEF Init, Absent, AbstractPhase, Terminal
<1>. QED  BY <1>1, <1>2 DEF Queue!Init, Queue!NoLease, Serializable

\* Whatever the number of workers, runs, keys and faults, and under both
\* isolation levels, the statements of worker/runner.py and its repository
\* implement LeaseQueue: every claim has a token of its own, and only the
\* holder of the latest one ends a run or gives it back.
THEOREM LeaseQueueIsImplemented == Spec => ImplementsLeaseQueue
<1>. QED  BY InitIsAllowed, NextIsAllowed, HeldHolds, PTL DEF Spec, ImplementsLeaseQueue, Queue!Spec

-----------------------------------------------------------------------------
(* Keys and follow-ups *)

KeysStay ==
  \A r \in Run : Present(r) => row'[r].status # "absent" /\ row'[r].key = row[r].key

Appears(r) == ~Present(r) /\ row'[r].status # "absent"

NewKeysAreFree ==
  Serializable => \A r \in Run : Appears(r) =>
    /\ \A s \in Run : Present(s) => row[s].key # row'[r].key
    /\ \A s \in Run : Appears(s) => s = r

KeyStep == KeysStay /\ NewKeysAreFree /\ isolation' = isolation

\* A step that writes no key and inserts no row.
LEMMA KeepingKeys ==
  ASSUME isolation' = isolation,
         \A r \in Run : /\ row'[r].key = row[r].key
                        /\ row'[r].status = "absent" <=> row[r].status = "absent"
  PROVE  KeyStep
BY DEF KeyStep, KeysStay, NewKeysAreFree, Appears, Present

\* A step that inserts one row.
LEMMA AddingKey ==
  ASSUME TypeOK, isolation' = isolation, NEW r \in Run, ~Present(r), NEW k,
         Serializable => ~KeyTaken(k), row'[r].key = k,
         \A s \in Run \ {r} : /\ row'[s].key = row[s].key
                              /\ row'[s].status = "absent" <=> row[s].status = "absent"
  PROVE  KeyStep
BY DEF KeyStep, KeysStay, NewKeysAreFree, Appears, Present, KeyTaken

\* What a save leaves of the rows: their keys, and which of them exist.
LEMMA SavedKeepsKeys ==
  ASSUME TypeOK, Tokens, NEW w \in Worker, NEW status \in Status, NEW at, Believes(w),
         row[worker[w].run].token = worker[w].token
  PROVE  \A r \in Run :
           /\ Saved(w, status, at)[r].key = row[r].key
           /\ Saved(w, status, at)[r].status = "absent" <=> row[r].status = "absent"
<1>1. Present(worker[w].run)
  BY WorkerFields DEF Tokens, ClaimsAreCounted, BlankUntilInserted
<1>. QED  BY <1>1, WorkerFields DEF Saved, TypeOK, RowType, Present, Status

LEMMA ClaimingKeepsKeys ==
  ASSUME TypeOK, Held, NEW w \in Worker, Claim(w)
  PROVE  KeyStep
<1>1. CASE ClaimWin(w)
  <2>1. PICK c \in worker[w].cands : ClaimWin(w)!(c)
    BY <1>1 DEF ClaimWin
  <2>2. c.run \in Run /\ Present(c.run)
    BY WorkerFields DEF CandidateType, Held, CandidatesWerePresent
  <2>3. \A r \in Run : /\ row'[r].key = row[r].key
                       /\ row'[r].status = "absent" <=> row[r].status = "absent"
    BY <2>1, <2>2 DEF TypeOK, RowType, Present
  <2>. QED  BY <2>1, <2>3, KeepingKeys
<1>2. CASE UNCHANGED <<row, isolation>>
  BY <1>2, KeepingKeys
<1>. QED  BY <1>1, <1>2 DEF Claim, ClaimRead, ClaimLose, ClaimRetry, ClaimCollide

LEMMA SettlingKeepsKeys ==
  ASSUME TypeOK, Tokens, NEW w \in Worker, Settle(w)
  PROVE  KeyStep
<1>. DEFINE w0 == worker[w]
            Kept == \A r \in Run : /\ row'[r].key = row[r].key
                                   /\ row'[r].status = "absent" <=> row[r].status = "absent"
<1>0. /\ isolation' = isolation /\ w0.run \in Run
      /\ UNCHANGED row => Kept
  BY WorkerFields DEF Settle, Checkpoint, Succeed, SaveBegin, SaveCommit, SaveCollide, SaveRetry,
                      Fail, Release
<1>1. \A status \in Status : \A due :
         Believes(w) /\ row[w0.run].token = w0.token /\ row' = Saved(w, status, due) => Kept
  BY SavedKeepsKeys
<1>2. CASE SaveCommit(w)
  <2>. DEFINE done == Saved(w, "succeeded", w0.nextAt)
              k == w0.outcome.followUp
  <2>1. Believes(w) /\ row[w0.run].token = w0.token /\ "succeeded" \in Status
    BY <1>2 DEF SaveCommit, InPhase, Believes, Tokens, CommitHoldsTheRow, Status
  <2>2. CASE row' = done
    BY <1>0, <1>1, <2>1, <2>2, KeepingKeys
  <2>3. ASSUME NEW r \in Run, IsNext(r), row' = [done EXCEPT ![r] = NewRun(k, now)],
               Serializable => ~KeyTaken(k)
        PROVE  KeyStep
    <3>1. row'[r].key = k /\ \A s \in Run \ {r} : row'[s] = done[s]
      BY <2>3 DEF Saved, NewRun, Absent, TypeOK
    <3>2. \A s \in Run \ {r} : /\ row'[s].key = row[s].key
                               /\ row'[s].status = "absent" <=> row[s].status = "absent"
      BY <2>1, <3>1, SavedKeepsKeys
    <3>3. ~Present(r)
      BY <2>3 DEF IsNext
    <3>. QED  BY <1>0, <2>3, <3>1, <3>2, <3>3, AddingKey
  <2>. QED  BY <1>2, <2>2, <2>3 DEF SaveCommit
<1>3. CASE Release(w)
  <2>1. Kept
    BY <1>0, <1>3 DEF Release, TypeOK, RowType
  <2>. QED  BY <1>0, <2>1, KeepingKeys
<1>4. CASE Checkpoint(w)
  <2>1. Kept
    BY <1>0, <1>1, <1>4 DEF Checkpoint, LoseLease, Fenced, InPhase, Believes, Status
  <2>. QED  BY <1>0, <2>1, KeepingKeys
<1>5. CASE Succeed(w)
  <2>1. Kept
    BY <1>0, <1>1, <1>5 DEF Succeed, LoseLease, Fenced, InPhase, Believes, Status
  <2>. QED  BY <1>0, <2>1, KeepingKeys
<1>6. CASE Fail(w)
  <2>1. Kept
    BY <1>0, <1>1, <1>6 DEF Fail, LoseLease, Fenced, InPhase, Believes, Status
  <2>. QED  BY <1>0, <2>1, KeepingKeys
<1>7. CASE SaveBegin(w) \/ SaveCollide(w) \/ SaveRetry(w)
  <2>1. Kept
    BY <1>0, <1>7 DEF SaveBegin, SaveCollide, SaveRetry, LoseLease
  <2>. QED  BY <1>0, <2>1, KeepingKeys
<1>. QED  BY <1>2, <1>3, <1>4, <1>5, <1>6, <1>7 DEF Settle

LEMMA NextKeepsKeys == TypeOK /\ Tokens /\ Held /\ [Next]_vars => KeyStep
<1>. SUFFICES ASSUME TypeOK, Tokens, Held, [Next]_vars  PROVE  KeyStep
  OBVIOUS
<1>1. CASE UNCHANGED <<row, isolation>>
  BY <1>1, KeepingKeys
<1>2. ASSUME NEW w \in Worker, HeartbeatOk(w)  PROVE  KeyStep
  <2>1. \A r \in Run : /\ row'[r].key = row[r].key
                       /\ row'[r].status = "absent" <=> row[r].status = "absent"
    BY <1>2, WorkerFields DEF HeartbeatOk, TypeOK, RowType
  <2>. QED  BY <1>2, <2>1, KeepingKeys DEF HeartbeatOk
<1>3. ASSUME NEW w \in Worker, HeartbeatLost(w) \/ Step(w) \/ Control(w)  PROVE  KeyStep
  BY <1>1, <1>3 DEF HeartbeatLost, LoseLease, Step, StepReturns, Control, RequestStop, Exit,
                    Crash, Restart
<1>4. ASSUME NEW c \in Client, Enqueue(c)  PROVE  KeyStep
  <2>. DEFINE k == client[c].key
  <2>1. CASE ~UNCHANGED row
    <3>1. /\ isolation' = isolation
          /\ Serializable => ~KeyTaken(k)
      BY <1>4, <2>1 DEF Enqueue, EnqueueLookup, EnqueueInsert
    <3>2. PICK r \in Run : IsNext(r) /\ row' = [row EXCEPT ![r] = NewRun(k, now)]
      BY <1>4, <2>1 DEF Enqueue, EnqueueLookup, EnqueueInsert
    <3>3. /\ row'[r].key = k
          /\ \A s \in Run \ {r} : row'[s] = row[s]
      BY <3>2 DEF NewRun, Absent, TypeOK
    <3>. QED  BY <3>1, <3>2, <3>3, AddingKey DEF IsNext
  <2>2. CASE UNCHANGED row
    BY <1>1, <1>4, <2>2 DEF Enqueue, EnqueueLookup, EnqueueInsert
  <2>. QED  BY <2>1, <2>2
<1>. QED
  BY <1>1, <1>2, <1>3, <1>4, ClaimingKeepsKeys, SettlingKeepsKeys
     DEF Next, Tick, vars, Heartbeat

-----------------------------------------------------------------------------
(* One run per key *)

LEMMA KeyStepKeepsOneRun == OneRunPerKey /\ KeyStep => OneRunPerKey'
<1>. SUFFICES ASSUME OneRunPerKey, KeyStep, Serializable,
                     NEW r \in Run, NEW s \in Run,
                     row'[r].status # "absent", row'[s].status # "absent",
                     row'[r].key = row'[s].key
              PROVE  r = s
  BY DEF OneRunPerKey, KeyStep, Serializable, Present
<1>1. CASE Present(r) /\ Present(s)
  BY <1>1 DEF OneRunPerKey, KeyStep, KeysStay
<1>2. CASE ~Present(r) \/ ~Present(s)
  BY <1>2 DEF KeyStep, KeysStay, NewKeysAreFree, Appears
<1>. QED  BY <1>1, <1>2

\* Under serializable isolation an idempotency key never names two runs,
\* however lookups, inserts and follow-up saves interleave.
THEOREM KeysNameOneRun == Spec => []OneRunPerKey
<1>1. Init => OneRunPerKey
  BY DEF Init, OneRunPerKey, Present, Absent
<1>2. TypeOK /\ Tokens /\ Held /\ OneRunPerKey /\ [Next]_vars => OneRunPerKey'
  BY NextKeepsKeys, KeyStepKeepsOneRun
<1>. QED  BY <1>1, <1>2, HeldHolds, PTL DEF Spec

-----------------------------------------------------------------------------
(* Follow-ups *)

\* A save that found its follow-up queued when it began still finds it.
FollowUpsStay ==
  \A w \in Worker : InPhase(w, "committing") /\ ~worker[w].insert
    => \E r \in Run : Present(r) /\ row[r].key = worker[w].outcome.followUp

\* A worker that is committing after a step was committing before it with the
\* same decision, or decides now.
LEMMA DecidingToInsert ==
  ASSUME TypeOK, NEW w \in Worker, NEW v \in Worker,
         Claim(v) \/ Heartbeat(v) \/ Step(v) \/ Settle(v) \/ Control(v),
         worker'[w].phase = "committing", ~worker'[w].insert
  PROVE  \/ /\ worker[w].phase = "committing" /\ ~worker[w].insert
            /\ worker'[w].outcome.followUp = worker[w].outcome.followUp
         \/ KeyTaken(worker'[w].outcome.followUp)
<1>1. CASE v # w
  BY <1>1, OthersKeepTheirMemory
<1>2. CASE v = w
  <2>1. worker'[w] \notin {Idle, [Idle EXCEPT !.phase = "down"], Forget(w)}
    <3>1. Idle.phase = "idle" /\ Forget(w).phase = "idle"
          /\ [Idle EXCEPT !.phase = "down"].phase = "down"
      BY DEF Idle, Forget
    <3>. QED  BY <3>1
  <2>2. ~Claim(w)
    <3>1. ~ClaimRead(w)
      BY DEF ClaimRead, TypeOK, WorkerType
    <3>2. ~ClaimWin(w)
      <4>1. ASSUME NEW c \in worker[w].cands,
                   worker' = [worker EXCEPT ![w] =
                                [Forget(w) EXCEPT !.phase = "claimed", !.run = c.run,
                                   !.token = NextToken(c), !.heartbeatAt = worker[w].moment,
                                   !.attempt = c.attempt + 1, !.nextAt = row[c.run].nextAt]]
            PROVE  FALSE
        BY <4>1 DEF Forget, Idle, TypeOK
      <4>. QED  BY <4>1 DEF ClaimWin
    <3>3. ~ClaimLose(w) /\ ~ClaimRetry(w) /\ ~ClaimCollide(w)
      <4>1. \A s : [worker[w] EXCEPT !.cands = s].phase = worker[w].phase
        BY DEF TypeOK, WorkerType
      <4>2. \A x : worker' = [worker EXCEPT ![w] = x] => worker'[w] = x
        BY DEF TypeOK
      <4>3. CASE ClaimLose(w)
        <5>1. PICK c \in worker[w].cands : ClaimLose(w)!(c)
          BY <4>3 DEF ClaimLose
        <5>2. \/ worker'[w] = Forget(w)
              \/ worker'[w] = [worker[w] EXCEPT !.cands = worker[w].cands \ {c}]
          BY <4>2, <5>1
        <5>. QED  BY <2>1, <4>1, <5>1, <5>2 DEF InPhase
      <4>4. CASE ClaimRetry(w)
        <5>. DEFINE again == Candidates(worker[w].moment)
        <5>1. \/ worker'[w] = Forget(w)
              \/ worker'[w] = [worker[w] EXCEPT !.cands = again]
          BY <4>2, <4>4 DEF ClaimRetry
        <5>. QED  BY <2>1, <4>1, <4>4, <5>1 DEF InPhase, ClaimRetry
      <4>5. CASE ClaimCollide(w)
        BY <2>1, <4>2, <4>5 DEF ClaimCollide
      <4>. QED  BY <4>3, <4>4, <4>5
    <3>. QED  BY <3>1, <3>2, <3>3 DEF Claim
  <2>3. ~Heartbeat(w) /\ ~Step(w)
    BY <2>1 DEF Heartbeat, HeartbeatOk, HeartbeatLost, Step, StepReturns, Goto, LoseLease, TypeOK,
                WorkerType
  <2>4. CASE Settle(w)
    <3>1. CASE SaveBegin(w)
      BY <2>1, <3>1 DEF SaveBegin, LoseLease, TypeOK, WorkerType
    <3>2. ~Checkpoint(w) /\ ~Succeed(w) /\ ~Fail(w) /\ ~Release(w)
      BY <2>1 DEF Checkpoint, Succeed, Fail, Release, Goto, LoseLease, TypeOK, WorkerType
    <3>3. ~SaveCommit(w) /\ ~SaveCollide(w) /\ ~SaveRetry(w)
      BY <2>1 DEF SaveCommit, SaveCollide, SaveRetry, Goto, TypeOK, WorkerType
    <3>. QED  BY <2>4, <3>1, <3>2, <3>3 DEF Settle
  <2>5. CASE Control(w)
    <3>1. RequestStop(w)
      BY <2>1, <2>5 DEF Control, Exit, Crash, Restart, TypeOK
    <3>. QED  BY <3>1 DEF RequestStop, TypeOK, WorkerType
  <2>. QED  BY <1>2, <2>2, <2>3, <2>4, <2>5
<1>. QED  BY <1>1, <1>2

LEMMA NextKeepsFollowUps ==
  TypeOK /\ Tokens /\ Held /\ FollowUpsStay /\ [Next]_vars => FollowUpsStay'
<1>. SUFFICES ASSUME TypeOK, Tokens, Held, FollowUpsStay, [Next]_vars,
                     NEW w \in Worker, worker'[w].phase = "committing", ~worker'[w].insert
              PROVE  \E r \in Run : /\ row'[r].status # "absent"
                                    /\ row'[r].key = worker'[w].outcome.followUp
  BY DEF FollowUpsStay, InPhase, Present
<1>1. KeysStay
  BY NextKeepsKeys DEF KeyStep
<1>2. \/ /\ worker[w].phase = "committing" /\ ~worker[w].insert
         /\ worker'[w].outcome.followUp = worker[w].outcome.followUp
      \/ KeyTaken(worker'[w].outcome.followUp)
  <2>1. CASE UNCHANGED worker
    BY <2>1
  <2>2. ASSUME NEW v \in Worker,
               Claim(v) \/ Heartbeat(v) \/ Step(v) \/ Settle(v) \/ Control(v)
        PROVE  \/ /\ worker[w].phase = "committing" /\ ~worker[w].insert
                  /\ worker'[w].outcome.followUp = worker[w].outcome.followUp
               \/ KeyTaken(worker'[w].outcome.followUp)
    BY <2>2, DecidingToInsert
  <2>. QED  BY <2>1, <2>2 DEF Next, vars, Enqueue, EnqueueLookup, EnqueueInsert, Tick
<1>3. KeyTaken(worker'[w].outcome.followUp)
  BY <1>2 DEF FollowUpsStay, InPhase, KeyTaken
<1>. QED  BY <1>1, <1>3 DEF KeyTaken, KeysStay

LEMMA FollowUpStep ==
  ASSUME TypeOK, Tokens, Held, FollowUpsStay, [Next]_vars, NEW w \in Worker,
         worker[w].phase \in {"returned", "committing"}, worker[w].outcome.followUp # NoKey,
         worker'[w] # worker[w],
         row[worker[w].run].status # "succeeded", row'[worker[w].run].status = "succeeded"
  PROVE  \E s \in Run : row'[s].key = worker[w].outcome.followUp
<1>0. worker[w].run \in Run /\ row' # row
  BY WorkerFields
<1>1. Claim(w) \/ Heartbeat(w) \/ Step(w) \/ Settle(w) \/ Control(w)
  <2>1. worker' # worker
    OBVIOUS
  <2>. QED  BY <2>1, OthersKeepTheirMemory DEF Next, vars, Enqueue, EnqueueLookup, EnqueueInsert, Tick
<1>2. ~Claim(w) /\ ~Heartbeat(w) /\ ~Step(w) /\ ~Control(w)
  BY <1>0 DEF Claim, ClaimRead, ClaimWin, ClaimLose, ClaimRetry, ClaimCollide, Heartbeat,
              HeartbeatOk, HeartbeatLost, Step, StepReturns, Control, RequestStop, Exit, Crash,
              Restart, InPhase
<1>3. CASE SaveCommit(w)
  <2>1. CASE worker[w].insert
    <3>1. PICK r \in Run : row' = [Saved(w, "succeeded", worker[w].nextAt) EXCEPT
                                     ![r] = NewRun(worker[w].outcome.followUp, now)]
      BY <1>3, <2>1 DEF SaveCommit
    <3>2. row'[r].key = worker[w].outcome.followUp
      BY <3>1 DEF Saved, NewRun, Absent, TypeOK
    <3>. QED  BY <3>2
  <2>2. CASE ~worker[w].insert
    <3>1. PICK r \in Run : Present(r) /\ row[r].key = worker[w].outcome.followUp
      BY <1>3, <2>2 DEF FollowUpsStay, SaveCommit
    <3>2. KeysStay
      BY NextKeepsKeys DEF KeyStep
    <3>. QED  BY <3>1, <3>2 DEF KeysStay
  <2>. QED  BY <2>1, <2>2
<1>4. ~Checkpoint(w)
  BY <1>0 DEF Checkpoint, LoseLease, Saved, TypeOK, RowType
<1>5. ~Fail(w)
  BY <1>0 DEF Fail, LoseLease, Saved, TypeOK, RowType
<1>6. ~Succeed(w) /\ ~SaveBegin(w) /\ ~SaveCollide(w) /\ ~SaveRetry(w) /\ ~Release(w)
  BY <1>0 DEF Succeed, SaveBegin, SaveCollide, SaveRetry, Release, LoseLease, InPhase
<1>. QED  BY <1>1, <1>2, <1>3, <1>4, <1>5, <1>6 DEF Settle

\* A step's success and the run it asked for are committed together, whoever
\* inserted the run first and under both isolation levels.
THEOREM FollowUpsLand == Spec => FollowUpLandsWithSuccess
<1>. DEFINE Lands ==
       \A w \in Worker :
         LET r == worker[w].run  k == worker[w].outcome.followUp
         IN (/\ worker[w].phase \in {"returned", "committing"} /\ k # NoKey
             /\ worker'[w] # worker[w]
             /\ row[r].status # "succeeded" /\ row'[r].status = "succeeded")
               => \E s \in Run : row'[s].key = k
<1>1. Init => FollowUpsStay
  BY DEF Init, Idle, FollowUpsStay, InPhase
<1>2. TypeOK /\ Tokens /\ Held /\ FollowUpsStay /\ [Next]_vars => FollowUpsStay'
  BY NextKeepsFollowUps
<1>3. TypeOK /\ Tokens /\ Held /\ FollowUpsStay /\ [Next]_vars => [Lands]_vars
  BY FollowUpStep
<1>. QED  BY <1>1, <1>2, <1>3, HeldHolds, PTL DEF Spec, FollowUpLandsWithSuccess
=============================================================================
