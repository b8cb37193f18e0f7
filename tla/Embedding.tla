----------------------------- MODULE Embedding -----------------------------
(***************************************************************************)
(* How search chunks get their vectors: migrations that claim one chunk    *)
(* after the other (application/reembedding_service.py), the backfill that *)
(* embeds a whole list in one call (RetrievalService.embed_pending), and   *)
(* the corrections that change a chunk's text meanwhile, all over the rows *)
(* of knowledge_chunks (persistence/chunk_repository.py).                  *)
(*                                                                         *)
(* No transaction spans a call of the provider: reading, claiming and      *)
(* writing the answer are separate transactions, each one statement whose  *)
(* effect does not depend on the isolation level.                          *)
(***************************************************************************)
EXTENDS Integers, FiniteSets, FiniteSetsExt

CONSTANTS
  Chunk,          \* chunk identifiers, in the order of their creation
  Initial,        \* the chunks that exist before, embedded at an older version
  Runner,         \* processes that migrate
  Filler,         \* processes that backfill
  ModelOf,        \* the embedding model each process is configured with
  OldModel,       \* the model of the older vectors
  NoVector,
  Current,        \* EMBEDDING_VERSION of the code that runs
  BatchSize,      \* chunks a migration selects at a time
  MaxChunks,      \* chunks one migration may attempt
  Limit,          \* chunks a backfill may read
  Refused,        \* chunks whose text the provider will never embed
  MaxText,        \* bound: corrections of one chunk
  MaxOutages,     \* bound: calls that fail although the text is acceptable
  MaxCrashes,     \* bound: crashes
  MaxReleases     \* bound: uses of release_claims

ASSUME EmbeddingAssumption ==
  /\ Chunk \subseteq Nat /\ IsFiniteSet(Chunk) /\ Initial \subseteq Chunk
  /\ Refused \subseteq Chunk /\ Runner \cap Filler = {} /\ Current \in Nat \ {0}
  /\ BatchSize \in Nat \ {0} /\ MaxChunks \in Nat \ {0} /\ Limit \in Nat \ {0}
  /\ \A n \in {MaxText, MaxOutages, MaxCrashes, MaxReleases} : n \in Nat

Actor == Runner \cup Filler
Model == {ModelOf[a] : a \in Actor} \cup {OldModel}

EmbeddingState == {"pending", "embedded", "stale", "failed", "claimed"}
NotStored      == {"unborn", "deleted"}

VARIABLES
  row,       \* Chunk -> its row; the state says when there is none
  actor,     \* Actor -> the call in progress, and what the last one reported
  faults     \* outages, crashes and releases so far

vars == <<row, actor, faults>>

\* A row's text is its number of corrections; a vector records what it is of.
Row    == [text : Nat, state : EmbeddingState \cup NotStored, version : Nat,
           vector : {NoVector} \cup [of : Nat, model : Model]]
Stored(c) == row[c].state \notin NotStored

-----------------------------------------------------------------------------
(* ChunkRepository *)

\* list_needing_embedding's conditions.
Needing(c) ==
  \/ row[c].state \in {"pending", "stale", "failed"}
  \/ row[c].state = "embedded" /\ row[c].version # Current

\* ... its order and its LIMIT.
Oldest(n) ==
  LET open == {c \in Chunk : Needing(c)}
  IN {c \in open : Cardinality({d \in open : d < c}) < n}

\* claim's WHERE clause.
Claimable(c, expected) == row[c].state = expected

\* supersede
Superseded(r) == [r EXCEPT !.text = @ + 1, !.state = "stale"]

\* Mutant of Embedded: the row's label is left alone.
EmbeddedUnlabelled(r, text, model) ==
  [r EXCEPT !.vector = [of |-> text, model |-> model], !.state = "embedded"]
\* store_embedding
Embedded(r, text, model) ==
  [r EXCEPT !.vector = [of |-> text, model |-> model], !.state = "embedded",
            !.version = Current]

\* Mutant of Failed: the claim stays on the row.
FailedSilently(r) == r
\* mark_failed
Failed(r) == [r EXCEPT !.state = "failed"]

\* An update of the rows S that exist.
Update(S, Op(_)) ==
  row' = [c \in Chunk |-> IF c \in S /\ Stored(c) THEN Op(c) ELSE row[c]]

-----------------------------------------------------------------------------
(* Knowledge is written and corrected: memory_service._reindex *)

Others == UNCHANGED <<actor, faults>>

\* A longer wording, a new item, or chunk_knowledge over an item without chunks.
Add(c) ==
  /\ row[c].state = "unborn" /\ \A d \in Chunk : d < c => row[d].state # "unborn"
  /\ row' = [row EXCEPT ![c].state = "pending"]
  /\ Others

Correct(c) ==
  /\ Stored(c) /\ row[c].text < MaxText
  /\ row' = [row EXCEPT ![c] = Superseded(@)]
  /\ Others

\* A shorter wording leaves a surplus chunk.
Remove(c) ==
  /\ Stored(c) /\ row[c].text < MaxText
  /\ row' = [row EXCEPT ![c].state = "deleted"]
  /\ Others

-----------------------------------------------------------------------------
(* ReembeddingService.migrate *)

Idle == [at |-> "idle", todo |-> <<>>, seen |-> {}]

At(a, place)   == actor[a].at = place
Queue(a)       == DOMAIN actor[a].todo
First(a)       == Min(Queue(a))
TextRead(a, c) == actor[a].todo[c].text
Read(S)        == [c \in S |-> [text |-> row[c].text, state |-> row[c].state]]

\* The generator moves on: to the next chunk of its batch or to a new selection.
Onward(a) ==
  LET rest == Queue(a) \ {First(a)}
  IN [actor[a] EXCEPT !.at = IF rest = {} THEN "select" ELSE "claim",
                      !.todo = [c \in rest |-> actor[a].todo[c]]]

Migrate(r) ==
  /\ At(r, "idle")
  /\ actor' = [actor EXCEPT ![r] = [Idle EXCEPT !.at = "select"]]
  /\ UNCHANGED <<row, faults>>

\* A chunk is attempted once in an invocation.
Fresh(r, S) == S \ actor[r].seen

\* _batches: select again, and stop when nothing new is among the oldest.
Select(r) ==
  LET budget == MaxChunks - Cardinality(actor[r].seen)
      fresh  == Fresh(r, Oldest(IF budget < BatchSize THEN budget ELSE BatchSize))
  IN /\ At(r, "select")
     /\ actor' = [actor EXCEPT ![r].at = IF fresh = {} THEN "report" ELSE "claim",
                               ![r].todo = Read(fresh)]
     /\ UNCHANGED <<row, faults>>

\* _claim: one runner wins, the others skip the chunk.
Claim(r) ==
  LET c == First(r)
      tried == [actor EXCEPT ![r].seen = @ \cup {c}]
  IN /\ At(r, "claim")
     /\ IF Claimable(c, actor[r].todo[c].state)
        THEN /\ row'   = [row EXCEPT ![c].state = "claimed"]
             /\ actor' = [tried EXCEPT ![r].at = "embed"]
        ELSE /\ actor' = [actor EXCEPT ![r] = [Onward(r) EXCEPT !.seen = @ \cup {c}]]
             /\ UNCHANGED row
     /\ UNCHANGED faults

\* The provider answers for the text that was selected; _store
Store(r) ==
  LET c == First(r)
  IN /\ At(r, "embed") /\ c \notin Refused
     /\ Update({c}, LAMBDA d : Embedded(row[d], TextRead(r, d), ModelOf[r]))
     /\ actor'  = [actor EXCEPT ![r] = Onward(r)]
     /\ UNCHANGED faults

\* A failed call, by the text or by an outage.
CallFails(S) ==
  \/ S \cap Refused # {} /\ UNCHANGED faults
  \/ faults.outages < MaxOutages /\ faults' = [faults EXCEPT !.outages = @ + 1]

\* The provider refuses or cannot be reached; _mark_failed
MarkFailed(r) ==
  LET c == First(r)
  IN /\ At(r, "embed") /\ CallFails({c})
     /\ Update({c}, LAMBDA d : Failed(row[d]))
     /\ actor' = [actor EXCEPT ![r] = Onward(r)]

\* What is outstanding is counted for the report, and nothing is kept of it.
Report(r) ==
  /\ At(r, "report")
  /\ actor' = [actor EXCEPT ![r] = Idle]
  /\ UNCHANGED <<row, faults>>

\* An operator's ReembeddingService.release_claims, whoever holds the claims.
ReleaseClaims ==
  /\ faults.releases < MaxReleases /\ \E c \in Chunk : row[c].state = "claimed"
  /\ row' = [c \in Chunk |-> IF row[c].state = "claimed"
                             THEN [row[c] EXCEPT !.state = "pending"] ELSE row[c]]
  /\ faults' = [faults EXCEPT !.releases = @ + 1]
  /\ UNCHANGED actor

-----------------------------------------------------------------------------
(* RetrievalService.embed_pending: no claim, one call for all *)

FillRead(f) ==
  LET S == Oldest(Limit)
  IN /\ At(f, "idle") /\ S # {}
     /\ actor'  = [actor EXCEPT ![f] = [Idle EXCEPT !.at = "embed", !.todo = Read(S)]]
     /\ UNCHANGED <<row, faults>>

FillStore(f) ==
  /\ At(f, "embed") /\ Queue(f) \cap Refused = {}
  /\ Update(Queue(f), LAMBDA c : Embedded(row[c], TextRead(f, c), ModelOf[f]))
  /\ actor'  = [actor EXCEPT ![f] = Idle]
  /\ UNCHANGED faults

FillFails(f) ==
  /\ At(f, "embed") /\ CallFails(Queue(f))
  /\ Update(Queue(f), LAMBDA c : Failed(row[c]))
  /\ actor' = [actor EXCEPT ![f] = Idle]

\* A process dies; what it had claimed stays claimed.
Crash(a) ==
  /\ ~At(a, "idle") /\ faults.crashes < MaxCrashes
  /\ actor'  = [actor EXCEPT ![a] = Idle]
  /\ faults' = [faults EXCEPT !.crashes = @ + 1]
  /\ UNCHANGED row

-----------------------------------------------------------------------------
Unborn == [text |-> 0, state |-> "unborn", version |-> Current, vector |-> NoVector]
Older  == [text |-> 0, state |-> "embedded", version |-> Current - 1,
           vector |-> [of |-> 0, model |-> OldModel]]

Init ==
  /\ row     = [c \in Chunk |-> IF c \in Initial THEN Older ELSE Unborn]
  /\ actor   = [a \in Actor |-> Idle]
  /\ faults  = [outages |-> 0, crashes |-> 0, releases |-> 0]

Attempt(r) == Claim(r) \/ Store(r) \/ MarkFailed(r)

Next ==
  \/ \E c \in Chunk : Add(c) \/ Correct(c) \/ Remove(c)
  \/ \E r \in Runner : Migrate(r) \/ Select(r) \/ Attempt(r) \/ Report(r)
  \/ \E f \in Filler : FillRead(f) \/ FillStore(f) \/ FillFails(f)
  \/ \E a \in Actor : Crash(a)
  \/ ReleaseClaims

Spec == Init /\ [][Next]_vars

\* A migration that was started goes on; the operator starts it again.
Running == \A r \in Runner : WF_vars(Select(r)) /\ WF_vars(Attempt(r)) /\ WF_vars(Report(r))
Repeated == \A r \in Runner : WF_vars(Migrate(r))
RepeatedSpec == Spec /\ Running /\ Repeated
-----------------------------------------------------------------------------
(* Properties *)

Holds(r, c) == At(r, "embed") /\ First(r) = c
Done(c)     == row[c].state = "embedded" /\ row[c].version = Current

\* A claim that nobody is working on was left by a crash, one chunk by each
\* crash: a runner claims right before it calls the provider and every way out
\* of the call takes the claim off the row (ReembeddingService.migrate).
ClaimsAreHeld ==
  Cardinality({c \in Chunk : row[c].state = "claimed" /\ \A r \in Runner : ~Holds(r, c)})
    <= faults.crashes

\* Migrations that are repeated embed every chunk the provider accepts, in spite
\* of the chunks it never will (ReembeddingService: "one failure does not end
\* the run").
UsableArrives == <>[](\A c \in Chunk \ Refused : Stored(c) => Done(c))

=============================================================================
