---------------------------- MODULE SearchProofs ----------------------------
(***************************************************************************)
(* Claims and vectors of the search index, for any chunks, processes,      *)
(* batch sizes and faults.                                                 *)
(***************************************************************************)
EXTENDS Search, FiniteSetTheorems, WellFoundedInduction, TLAPS

-----------------------------------------------------------------------------
(* What is left of a claim                                                  *)

\* A vector has the label of the space it belongs to.
Labelled(r) ==
  r.vector # NoVector =>
    \/ r.version = Current /\ \E a \in Actor : r.vector.model = ModelOf[a]
    \/ r.version = Current - 1 /\ r.vector.model = OldModel

ActorsAre == DOMAIN actor = Actor /\ \A a \in Actor : DOMAIN actor[a] = DOMAIN Idle
RowsAre == DOMAIN row = Chunk /\ \A c \in Chunk : DOMAIN row[c] = DOMAIN Unborn /\ Labelled(row[c])
CountsAre == DOMAIN faults = {"outages", "crashes", "releases"} /\ faults.crashes \in Nat
Shape == ActorsAre /\ RowsAre /\ CountsAre

Fields == DOMAIN Idle = {"at", "todo", "seen"}
          /\ DOMAIN Unborn = {"text", "state", "version", "vector"}
LEMMA FieldsAre == Fields
BY DEF Fields, Idle, Unborn

\* A call that goes on keeps its fields; a fault is counted and no crash undone.
LEMMA OnwardMoves ==
  ASSUME NEW a, DOMAIN actor[a] = DOMAIN Idle
  PROVE  DOMAIN Onward(a) = DOMAIN Idle /\ Onward(a).at \in {"select", "claim"}
BY FieldsAre DEF Onward, Fields

LEMMA FailuresAreCounted ==
  ASSUME CountsAre, NEW S, CallFails(S)
  PROVE  CountsAre' /\ faults'.crashes = faults.crashes
BY DEF CountsAre, CallFails

\* Everything but a crash and a release leaves the rows it does not update and
\* the calls of others as they are; what it updates is not claimed, or is
\* claimed by the runner that is about to call the provider for it.
Updated(S) ==
  /\ DOMAIN row' = Chunk
  /\ \A c \in Chunk \ S : row'[c] = row[c]
  /\ \A c \in S \cap Chunk : /\ DOMAIN row'[c] = DOMAIN Unborn /\ Labelled(row'[c])
                             /\ row'[c].state # "claimed" \/ \E r \in Runner : Holds(r, c)'
Moved(a) ==
  /\ DOMAIN actor' = Actor
  /\ \A b \in Actor \ {a} : actor'[b] = actor[b]
  /\ DOMAIN actor'[a] = DOMAIN Idle
SameCrashes == CountsAre' /\ faults'.crashes = faults.crashes

Unheld == {c \in Chunk : row[c].state = "claimed" /\ \A r \in Runner : ~Holds(r, c)}

LEMMA UpdatesLeaveNoClaim ==
  ASSUME Shape, NEW S, Updated(S), SameCrashes, NEW a \in Actor, Moved(a) \/ UNCHANGED actor,
         \A c \in Chunk \ S : a \in Runner /\ Holds(a, c) => row[c].state # "claimed" \/ Holds(a, c)'
  PROVE  Shape' /\ Unheld' \subseteq Unheld
<1>1. Shape'
  BY DEF Shape, ActorsAre, RowsAre, Updated, Moved, SameCrashes, Actor
<1>2. ASSUME NEW c \in Chunk, c \in Unheld'  PROVE c \in Unheld
  <2>1. c \notin S
    BY <1>2 DEF Unheld, Updated
  <2>2. row[c].state = "claimed"
    BY <1>2, <2>1 DEF Unheld, Updated
  <2>3. ASSUME NEW r \in Runner, Holds(r, c)  PROVE FALSE
    <3>1. r \in Actor
      BY DEF Actor
    <3>2. Holds(r, c)'
      BY <2>1, <2>2, <2>3, <3>1 DEF Moved, Holds, At, First, Queue
    <3>. QED  BY <1>2, <3>2 DEF Unheld
  <2>. QED  BY <2>2, <2>3 DEF Unheld
<1>. QED  BY <1>1, <1>2 DEF Unheld

\* The rows a provider's answer or its failure updates.
LEMMA AnswersUpdate ==
  ASSUME RowsAre, NEW a \in Actor, NEW S,
         \/ Update(S, LAMBDA c : Embedded(row[c], TextRead(a, c), ModelOf[a]))
         \/ Update(S, LAMBDA c : Failed(row[c]))
  PROVE  Updated(S \cap {c \in Chunk : Stored(c)}) /\ Updated(S)
<1>1. DOMAIN row' = Chunk /\ \A c \in Chunk : ~(c \in S /\ Stored(c)) => row'[c] = row[c]
  BY DEF Update
<1>2. ASSUME NEW c \in Chunk, c \in S, Stored(c)
      PROVE  DOMAIN row'[c] = DOMAIN Unborn /\ Labelled(row'[c]) /\ row'[c].state # "claimed"
  <2>1. row'[c] = Embedded(row[c], TextRead(a, c), ModelOf[a]) \/ row'[c] = Failed(row[c])
    BY <1>2 DEF Update
  <2>2. DOMAIN row[c] = {"text", "state", "version", "vector"} /\ Labelled(row[c])
    BY FieldsAre DEF RowsAre, Fields
  <2>3. CASE row'[c] = Embedded(row[c], TextRead(a, c), ModelOf[a])
    <3>1. /\ DOMAIN row'[c] = DOMAIN row[c] /\ row'[c].state = "embedded"
          /\ row'[c].version = Current /\ row'[c].vector.model = ModelOf[a]
      BY <2>2, <2>3 DEF Embedded
    <3>. QED  BY <2>2, <3>1, FieldsAre DEF Labelled, Fields
  <2>4. CASE row'[c] = Failed(row[c])
    <3>1. /\ DOMAIN row'[c] = DOMAIN row[c] /\ row'[c].state = "failed"
          /\ row'[c].version = row[c].version /\ row'[c].vector = row[c].vector
      BY <2>2, <2>4 DEF Failed
    <3>. QED  BY <2>2, <3>1, FieldsAre DEF Labelled, Fields
  <2>. QED  BY <2>1, <2>3, <2>4
<1>3. ASSUME NEW c \in Chunk, c \in S, ~Stored(c)
      PROVE  DOMAIN row'[c] = DOMAIN Unborn /\ Labelled(row'[c]) /\ row'[c].state # "claimed"
  BY <1>1, <1>3 DEF RowsAre, Stored, NotStored
<1>. QED  BY <1>1, <1>2, <1>3 DEF Updated

\* Knowledge is written, corrected and shortened.
LEMMA WritingKeepsClaims ==
  ASSUME Shape, NEW c \in Chunk, Add(c) \/ Correct(c) \/ Remove(c)
  PROVE  Shape' /\ Unheld' \subseteq Unheld
<1>1. /\ DOMAIN row = Chunk /\ DOMAIN row[c] = {"text", "state", "version", "vector"}
      /\ Labelled(row[c])
  BY FieldsAre DEF Shape, RowsAre, Fields
<1>2. \E r : /\ row' = [row EXCEPT ![c] = r] /\ DOMAIN r = DOMAIN row[c]
             /\ r.version = row[c].version /\ r.vector = row[c].vector
             /\ r.state # "claimed"
  <2>1. CASE Add(c)
    <3>. WITNESS [row[c] EXCEPT !.state = "pending"]
    <3>. QED  BY <1>1, <2>1 DEF Add
  <2>2. CASE Correct(c)
    <3>. WITNESS Superseded(row[c])
    <3>. QED  BY <1>1, <2>2 DEF Correct, Superseded
  <2>3. CASE Remove(c)
    <3>. WITNESS [row[c] EXCEPT !.state = "deleted"]
    <3>. QED  BY <1>1, <2>3 DEF Remove
  <2>. QED  BY <2>1, <2>2, <2>3
<1>3. PICK r : /\ row' = [row EXCEPT ![c] = r] /\ DOMAIN r = DOMAIN row[c]
               /\ r.version = row[c].version /\ r.vector = row[c].vector
               /\ r.state # "claimed"
  BY <1>2
<1>4. UNCHANGED <<actor, faults>>
  BY DEF Add, Correct, Remove, Others
<1>5. Labelled(r)
  BY <1>1, <1>3 DEF Labelled
<1>6. Shape'
  BY <1>1, <1>3, <1>4, <1>5, FieldsAre DEF Shape, RowsAre, ActorsAre, CountsAre, Fields
<1>7. Unheld' \subseteq Unheld
  BY <1>1, <1>3, <1>4 DEF Unheld, Holds, At, First, Queue
<1>. QED  BY <1>6, <1>7

\* A runner that does not hold a chunk goes on.
LEMMA MovingKeepsClaims ==
  ASSUME Shape, NEW a \in Actor, UNCHANGED <<row, faults>>, NEW e,
         actor' = [actor EXCEPT ![a] = e], DOMAIN e = DOMAIN Idle, a \in Filler \/ ~At(a, "embed")
  PROVE  Shape' /\ Unheld' \subseteq Unheld
<1>1. Updated({}) /\ SameCrashes /\ Moved(a)
  BY DEF Shape, RowsAre, ActorsAre, CountsAre, SameCrashes, Updated, Moved
<1>2. a \in Runner => ~At(a, "embed")
  BY EmbeddingAssumption
<1>. QED  BY <1>1, <1>2, UpdatesLeaveNoClaim DEF Holds

LEMMA RunnersKeepClaims ==
  ASSUME Shape, NEW r \in Runner, Migrate(r) \/ Select(r) \/ Attempt(r) \/ Report(r)
  PROVE  Shape' /\ Unheld' \subseteq Unheld
<1>0. r \in Actor /\ DOMAIN actor = Actor /\ DOMAIN actor[r] = {"at", "todo", "seen"}
  BY FieldsAre DEF Shape, ActorsAre, Actor, Fields
<1>1. CASE Migrate(r)
  <2>1. actor' = [actor EXCEPT ![r] = [Idle EXCEPT !.at = "select"]] /\ At(r, "idle")
    BY <1>1 DEF Migrate
  <2>2. DOMAIN [Idle EXCEPT !.at = "select"] = DOMAIN Idle
    OBVIOUS
  <2>. QED  BY <1>0, <1>1, <2>1, <2>2, MovingKeepsClaims DEF Migrate, At
<1>2. CASE Select(r)
  <2>1. PICK p, t : actor' = [actor EXCEPT ![r] = [actor[r] EXCEPT !.at = p, !.todo = t]]
    BY <1>0, <1>2 DEF Select
  <2>2. DOMAIN [actor[r] EXCEPT !.at = p, !.todo = t] = DOMAIN Idle
    BY <1>0, FieldsAre DEF Fields
  <2>. QED  BY <1>0, <1>2, <2>1, <2>2, MovingKeepsClaims DEF Select, At
<1>3. CASE Report(r)
  BY <1>0, <1>3, MovingKeepsClaims DEF Report, At
<1>4. CASE Claim(r)
  <2>0. PICK c : c = First(r)
    OBVIOUS
  <2>. DEFINE e == [actor[r] EXCEPT !.at = "embed", !.seen = actor[r].seen \cup {c}]
              f == [Onward(r) EXCEPT !.seen = Onward(r).seen \cup {c}]
  <2>1. CASE /\ row' = [row EXCEPT ![c] = [row[c] EXCEPT !.state = "claimed"]]
             /\ actor' = [actor EXCEPT ![r] = e]
    <3>1. DOMAIN e = DOMAIN Idle /\ e.at = "embed" /\ e.todo = actor[r].todo
      BY <1>0, FieldsAre DEF Fields
    <3>2. actor'[r] = e
      BY <1>0, <2>1
    <3>3. Holds(r, c)'
      BY <2>0, <3>1, <3>2 DEF Holds, At, First, Queue
    <3>4. SameCrashes /\ Moved(r)
      BY <1>0, <1>4, <2>1, <3>1 DEF Shape, CountsAre, SameCrashes, Moved, Claim
    <3>5. Updated({c})
      <4>1. DOMAIN row' = Chunk /\ \A d \in Chunk \ {c} : row'[d] = row[d]
        BY <2>1 DEF Shape, RowsAre
      <4>2. ASSUME c \in Chunk  PROVE DOMAIN row'[c] = DOMAIN Unborn /\ Labelled(row'[c])
        <5>1. /\ DOMAIN row[c] = {"text", "state", "version", "vector"} /\ Labelled(row[c])
              /\ row'[c] = [row[c] EXCEPT !.state = "claimed"]
          BY <2>1, <4>2, FieldsAre DEF Shape, RowsAre, Fields
        <5>2. DOMAIN row'[c] = DOMAIN row[c] /\ row'[c].version = row[c].version
              /\ row'[c].vector = row[c].vector
          BY <5>1
        <5>. QED  BY <5>1, <5>2, FieldsAre DEF Labelled, Fields
      <4>3. \E a \in Runner : Holds(a, c)'
        BY <3>3
      <4>. QED  BY <4>1, <4>2, <4>3 DEF Updated
    <3>6. ~At(r, "embed")
      BY <1>4 DEF Claim, At
    <3>. QED  BY <1>0, <3>4, <3>5, <3>6, UpdatesLeaveNoClaim DEF Holds
  <2>2. CASE actor' = [actor EXCEPT ![r] = f] /\ UNCHANGED row
    <3>1. DOMAIN f = DOMAIN Idle
      BY <1>0, OnwardMoves, FieldsAre DEF Fields
    <3>. QED  BY <1>0, <1>4, <2>2, <3>1, MovingKeepsClaims DEF Claim, At
  <2>3. \/ /\ row' = [row EXCEPT ![c] = [row[c] EXCEPT !.state = "claimed"]]
           /\ actor' = [actor EXCEPT ![r] = e]
        \/ actor' = [actor EXCEPT ![r] = f] /\ UNCHANGED row
    BY <1>0, <1>4, <2>0 DEF Claim
  <2>. QED  BY <2>1, <2>2, <2>3
<1>5. CASE Store(r) \/ MarkFailed(r)
  <2>. DEFINE c == First(r)
  <2>1. Updated({c})
    BY <1>0, <1>5, AnswersUpdate DEF Store, MarkFailed, Shape
  <2>2. SameCrashes
    BY <1>5, FailuresAreCounted DEF Store, MarkFailed, Shape, SameCrashes, CountsAre
  <2>3. Moved(r)
    BY <1>0, <1>5, OnwardMoves, FieldsAre DEF Store, MarkFailed, Moved, Fields
  <2>4. \A d \in Chunk \ {c} : ~Holds(r, d)
    BY DEF Holds
  <2>. QED  BY <1>0, <2>1, <2>2, <2>3, <2>4, UpdatesLeaveNoClaim
<1>. QED  BY <1>1, <1>2, <1>3, <1>4, <1>5 DEF Attempt

LEMMA FillersKeepClaims ==
  ASSUME Shape, NEW f \in Filler, FillRead(f) \/ FillStore(f) \/ FillFails(f)
  PROVE  Shape' /\ Unheld' \subseteq Unheld
<1>0. f \in Actor /\ f \notin Runner /\ DOMAIN actor = Actor
  BY EmbeddingAssumption DEF Shape, ActorsAre, Actor
<1>1. CASE FillRead(f)
  <2>1. PICK t : actor' = [actor EXCEPT ![f] = [Idle EXCEPT !.at = "embed", !.todo = t]]
    BY <1>1 DEF FillRead
  <2>2. DOMAIN [Idle EXCEPT !.at = "embed", !.todo = t] = DOMAIN Idle
    OBVIOUS
  <2>. QED  BY <1>0, <1>1, <2>1, <2>2, MovingKeepsClaims DEF FillRead
<1>2. CASE FillStore(f) \/ FillFails(f)
  <2>1. Updated(Queue(f))
    BY <1>0, <1>2, AnswersUpdate DEF FillStore, FillFails, Shape
  <2>2. SameCrashes
    BY <1>2, FailuresAreCounted DEF FillStore, FillFails, Shape, SameCrashes, CountsAre
  <2>3. Moved(f)
    BY <1>0, <1>2 DEF FillStore, FillFails, Moved
  <2>. QED  BY <1>0, <2>1, <2>2, <2>3, UpdatesLeaveNoClaim
<1>. QED  BY <1>1, <1>2

\* A crash leaves at most the claim of the process that died.
LEMMA CrashesLeaveOne ==
  ASSUME Shape, NEW a \in Actor, Crash(a)
  PROVE  Shape' /\ faults'.crashes = faults.crashes + 1 /\ Unheld' \subseteq Unheld \cup {First(a)}
<1>1. /\ actor' = [actor EXCEPT ![a] = Idle] /\ row' = row
      /\ faults' = [faults EXCEPT !.crashes = faults.crashes + 1]
  BY DEF Crash
<1>2. Shape' /\ faults'.crashes = faults.crashes + 1
  BY <1>1 DEF Shape, ActorsAre, RowsAre, CountsAre
<1>3. ASSUME NEW c \in Chunk, c # First(a), NEW r \in Runner, Holds(r, c)  PROVE Holds(r, c)'
  <2>1. r \in Actor /\ r # a
    BY <1>3 DEF Actor, Holds
  <2>. QED  BY <1>1, <1>3, <2>1 DEF Shape, ActorsAre, Holds, At, First, Queue
<1>4. Unheld' \subseteq Unheld \cup {First(a)}
  BY <1>1, <1>3 DEF Unheld
<1>. QED  BY <1>2, <1>4

\* Releasing leaves no claim at all.
LEMMA ReleasingLeavesNone ==
  ASSUME Shape, ReleaseClaims
  PROVE  Shape' /\ faults'.crashes = faults.crashes /\ Unheld' \subseteq Unheld
<1>1. /\ actor' = actor /\ faults' = [faults EXCEPT !.releases = faults.releases + 1]
      /\ row' = [c \in Chunk |-> IF row[c].state = "claimed"
                                 THEN [row[c] EXCEPT !.state = "pending"] ELSE row[c]]
  BY DEF ReleaseClaims
<1>2. ASSUME NEW c \in Chunk
      PROVE  DOMAIN row'[c] = DOMAIN Unborn /\ Labelled(row'[c]) /\ row'[c].state # "claimed"
  <2>1. DOMAIN row[c] = {"text", "state", "version", "vector"} /\ Labelled(row[c])
    BY FieldsAre DEF Shape, RowsAre, Fields
  <2>2. /\ DOMAIN row'[c] = DOMAIN row[c] /\ row'[c].state # "claimed"
        /\ row'[c].version = row[c].version /\ row'[c].vector = row[c].vector
    BY <1>1, <2>1
  <2>. QED  BY <2>1, <2>2, FieldsAre DEF Labelled, Fields
<1>3. Shape' /\ faults'.crashes = faults.crashes
  BY <1>1, <1>2 DEF Shape, ActorsAre, RowsAre, CountsAre
<1>. QED  BY <1>2, <1>3 DEF Unheld

CrashesPay == Shape /\ IsFiniteSet(Unheld) /\ Cardinality(Unheld) <= faults.crashes

LEMMA NextKeepsPaying == CrashesPay /\ [Next]_vars => CrashesPay'
<1>. SUFFICES ASSUME CrashesPay, [Next]_vars  PROVE CrashesPay'
  OBVIOUS
<1>0. Shape /\ faults.crashes \in Nat
  BY DEF CrashesPay, Shape, CountsAre
<1>1. \/ Shape' /\ faults'.crashes = faults.crashes /\ Unheld' \subseteq Unheld
      \/ \E a \in Actor : /\ Shape' /\ faults'.crashes = faults.crashes + 1
                          /\ Unheld' \subseteq Unheld \cup {First(a)}
  <2>1. CASE UNCHANGED vars
    BY <1>0, <2>1 DEF vars, Shape, ActorsAre, RowsAre, CountsAre, Unheld, Holds, At, First, Queue
  <2>2. CASE \E c \in Chunk : Add(c) \/ Correct(c) \/ Remove(c)
    <3>1. UNCHANGED faults
      BY <2>2 DEF Add, Correct, Remove, Others
    <3>. QED  BY <1>0, <2>2, <3>1, WritingKeepsClaims
  <2>3. CASE \E r \in Runner : Migrate(r) \/ Select(r) \/ Attempt(r) \/ Report(r)
    <3>1. faults'.crashes = faults.crashes
      BY <1>0, <2>3, FailuresAreCounted
         DEF Migrate, Select, Attempt, Claim, Store, MarkFailed, Report, Shape
    <3>. QED  BY <1>0, <2>3, <3>1, RunnersKeepClaims
  <2>4. CASE \E f \in Filler : FillRead(f) \/ FillStore(f) \/ FillFails(f)
    <3>1. faults'.crashes = faults.crashes
      BY <1>0, <2>4, FailuresAreCounted DEF FillRead, FillStore, FillFails, Shape
    <3>. QED  BY <1>0, <2>4, <3>1, FillersKeepClaims
  <2>. QED  BY <1>0, <2>1, <2>2, <2>3, <2>4, CrashesLeaveOne, ReleasingLeavesNone DEF Next
<1>2. CASE Shape' /\ faults'.crashes = faults.crashes /\ Unheld' \subseteq Unheld
  <2>1. /\ IsFiniteSet(Unheld') /\ Cardinality(Unheld') <= Cardinality(Unheld)
        /\ Cardinality(Unheld) \in Nat /\ Cardinality(Unheld') \in Nat
    BY <1>2, FS_Subset, FS_CardinalityType DEF CrashesPay
  <2>. QED  BY <1>0, <1>2, <2>1 DEF CrashesPay
<1>3. ASSUME NEW a \in Actor, Shape', faults'.crashes = faults.crashes + 1,
             Unheld' \subseteq Unheld \cup {First(a)}
      PROVE  CrashesPay'
  <2>. DEFINE more == Unheld \cup {First(a)}
  <2>0. IsFiniteSet(Unheld) /\ Cardinality(Unheld) \in Nat
    BY FS_CardinalityType DEF CrashesPay
  <2>1. IsFiniteSet(more) /\ Cardinality(more) <= Cardinality(Unheld) + 1
    BY <2>0, FS_AddElement
  <2>2. /\ IsFiniteSet(Unheld') /\ Cardinality(Unheld') <= Cardinality(more)
        /\ Cardinality(Unheld') \in Nat /\ Cardinality(more) \in Nat
    BY <1>3, <2>1, FS_Subset, FS_CardinalityType
  <2>. QED  BY <1>0, <1>3, <2>0, <2>1, <2>2 DEF CrashesPay
<1>. QED  BY <1>1, <1>2, <1>3

LEMMA InitPays == Init => CrashesPay
<1>. SUFFICES ASSUME Init  PROVE CrashesPay
  OBVIOUS
<1>1. ASSUME NEW c \in Chunk
      PROVE  DOMAIN row[c] = DOMAIN Unborn /\ Labelled(row[c]) /\ row[c].state # "claimed"
  BY DEF Init, Older, Unborn, Labelled
<1>2. Shape
  BY <1>1 DEF Init, Shape, ActorsAre, RowsAre, CountsAre
<1>3. Unheld = {} /\ faults.crashes = 0
  BY <1>1 DEF Init, Unheld
<1>. QED  BY <1>2, <1>3, FS_EmptySet DEF CrashesPay

\* However migrations, backfills, corrections and releases interleave and
\* whichever processes die, an abandoned claim is the trace of a crash and a
\* crash leaves at most one.
THEOREM CrashesExplainClaims == Spec => []ClaimsAreHeld
<1>1. CrashesPay => ClaimsAreHeld
  BY DEF CrashesPay, ClaimsAreHeld, Unheld
<1>. QED  BY <1>1, InitPays, NextKeepsPaying, PTL DEF Spec

-----------------------------------------------------------------------------
(* One space                                                                *)

LEMMA LeastIsOne ==
  ASSUME NEW T, T \subseteq Nat, T # {}
  PROVE  Min(T) \in T
<1>1. PICK n \in T : \A m \in T : ~(<<m, n>> \in OpToRel(<, Nat))
  BY NatLessThanWellFounded, WFMin
<1>2. \A m \in T : ~(m < n)
  BY <1>1 DEF OpToRel
<1>3. \A m \in T : n <= m
  BY <1>2
<1>4. \E m \in T : \A k \in T : m <= k
  BY <1>3
<1>. QED  BY <1>4 DEF Min

\* Where every process is configured with one model, everything a search or a
\* comparison looks at was embedded by it: rows of the older version are no
\* results, and the label changes with the vector (EMBEDDING_VERSION).
THEOREM OneModelOneSpace ==
  ASSUME \A a, b \in Actor : ModelOf[a] = ModelOf[b]
  PROVE  Spec => []OneModelPerSpace
<1>1. ASSUME Shape  PROVE OneModelPerSpace
  <2>1. ASSUME NEW c \in Chunk, row[c].vector # NoVector
        PROVE  \/ row[c].version = Current /\ \A a \in Actor : row[c].vector.model = ModelOf[a]
               \/ row[c].version = Current - 1 /\ row[c].vector.model = OldModel
    BY <1>1, <2>1 DEF Shape, RowsAre, Labelled
  <2>2. Current - 1 # Current
    BY EmbeddingAssumption
  <2>3. ASSUME NEW c \in Chunk, NEW d \in Chunk, row[c].vector # NoVector,
               row[d].vector # NoVector, row[c].version = row[d].version
        PROVE  row[c].vector.model = row[d].vector.model
    <3>1. row[c].version = Current => \E a \in Actor : row[c].vector.model = ModelOf[a]
      BY <1>1, <2>2, <2>3 DEF Shape, RowsAre, Labelled
    <3>. QED  BY <2>1, <2>2, <2>3, <3>1
  <2>4. ASSUME NEW a \in Actor, NEW c \in InSpace
        PROVE  row[c].vector.model = ModelOf[a]
    BY <2>1, <2>2 DEF InSpace
  <2>5. ASSUME NEW q  PROVE Semantic(q) \subseteq InSpace
    BY DEF Semantic, Best
  <2>6. ASSUME NEW q, NEW i, NEW j \in Neighbours(i, q)  PROVE {i, j} \subseteq Placed
    BY DEF Neighbours, Best
  <2>7. ASSUME NEW S, NEW k \in S, S \subseteq Placed
        PROVE  \E c \in InSpace : Embeddings(S)[k] = row[c].vector
    <3>1. Focus(k) \in InSpace
      <4>. DEFINE T == {c \in InSpace : ItemOf[c] = k}
      <4>1. T # {} /\ T \subseteq Nat
        BY <2>7, EmbeddingAssumption DEF Placed, InSpace
      <4>. HIDE DEF T
      <4>2. Min(T) \in T
        BY <4>1, LeastIsOne
      <4>. QED  BY <4>2 DEF Focus, T
    <3>. QED  BY <2>7, <3>1 DEF Embeddings
  <2>8. \A a : Widest(ModelOf[a]).model = ModelOf[a]
    BY DEF Widest
  <2>9. ASSUME NEW a \in Actor, NEW i \in Items, NEW j \in Neighbours(i, Widest(ModelOf[a])),
               NEW k \in {i, j}
        PROVE  Embeddings({i, j})[k].model = ModelOf[a]
    <3>1. {i, j} \subseteq Placed
      BY <2>6
    <3>2. PICK c \in InSpace : Embeddings({i, j})[k] = row[c].vector
      BY <2>7, <3>1
    <3>. QED  BY <2>4, <3>2
  <2>10. ASSUME NEW a \in Actor, NEW c \in Semantic(Widest(ModelOf[a]))
         PROVE  row[c].vector.model = ModelOf[a]
    BY <2>4, <2>5
  <2>. QED  BY <2>3, <2>8, <2>9, <2>10 DEF OneModelPerSpace
<1>2. Spec => []Shape
  BY InitPays, NextKeepsPaying, PTL DEF Spec, CrashesPay
<1>. QED  BY <1>1, <1>2, PTL
=============================================================================
