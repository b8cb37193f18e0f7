-------------------------- MODULE ReadinessProofs --------------------------
(***************************************************************************)
(* Theorems about readiness, for any project, template, number of          *)
(* calculations and of changes, and for both isolation levels; and about   *)
(* the answers an agent is given of it, for any request and any response   *)
(* policy.                                                                 *)
(***************************************************************************)
EXTENDS Briefing, FiniteSetTheorems, SequenceTheorems, WellFoundedInduction, TLAPS

-----------------------------------------------------------------------------
(* Sums over finite sets.  The library states induction for an operator,    *)
(* here it is stated for a set; the fold of a finite set is then shown to   *)
(* exist, size by size, and to grow with its terms.                         *)

\* Induction over the numbers, for a set of numbers.
LEMMA LeastOf ==
  ASSUME NEW T, T \subseteq Nat, T # {}
  PROVE  \E n \in T : \A m \in T : n <= m
<1>1. PICK n \in T : \A m \in T : ~(<<m, n>> \in OpToRel(<, Nat))
  BY NatLessThanWellFounded, WFMin
<1>2. \A m \in T : ~(m < n)
  BY <1>1 DEF OpToRel
<1>. QED  BY <1>2

LEMMA Induction ==
  ASSUME NEW T, 0 \in T, \A n \in Nat : n \in T => n + 1 \in T
  PROVE  Nat \subseteq T
<1>. SUFFICES ASSUME Nat \ T # {}  PROVE FALSE
  OBVIOUS
<1>. DEFINE U == Nat \ T
<1>0. U \subseteq Nat /\ U # {}
  OBVIOUS
<1>. HIDE DEF U
<1>1. PICK n \in U : \A m \in U : n <= m
  BY <1>0, LeastOf
<1>2. n \in Nat \ {0} /\ n - 1 \in Nat /\ n - 1 \notin U
  BY <1>1 DEF U
<1>. QED  BY <1>1, <1>2 DEF U

\* The sum of w over S, one element of S after the other, as the folds build it.
Pick(s) == CHOOSE x \in s : TRUE

SumsUp(g, w, D) ==
  g = [s \in D |-> IF s = {} THEN 0 ELSE w[Pick(s)] + g[s \ {Pick(s)}]]
Sums(w, S) == CHOOSE g : SumsUp(g, w, SUBSET S)



\* Induction over the subsets of a finite set, by their size.
UpTo(n, S) == {s \in SUBSET S : Cardinality(s) <= n}

LEMMA Smaller ==
  ASSUME NEW S, IsFiniteSet(S), NEW n \in Nat, NEW s \in UpTo(n + 1, S), s # {}
  PROVE  Pick(s) \in s /\ s \ {Pick(s)} \in UpTo(n, S)
<1>1. Pick(s) \in s
  BY DEF Pick
<1>2. IsFiniteSet(s) /\ Cardinality(s) \in Nat /\ Cardinality(s) <= n + 1 /\ s \subseteq S
  BY FS_Subset, FS_CardinalityType DEF UpTo
<1>3. Cardinality(s \ {Pick(s)}) = Cardinality(s) - 1
  BY <1>1, <1>2, FS_RemoveElement
<1>. QED  BY <1>1, <1>2, <1>3 DEF UpTo

LEMMA EveryoneIsUpTo ==
  ASSUME NEW S, IsFiniteSet(S)
  PROVE  Cardinality(S) \in Nat /\ UpTo(Cardinality(S), S) = SUBSET S
BY FS_Subset, FS_CardinalityType DEF UpTo

LEMMA SumsExist ==
  ASSUME NEW S, IsFiniteSet(S), NEW w
  PROVE  SumsUp(Sums(w, S), w, SUBSET S)
<1>. DEFINE T == {n \in Nat : \E g : SumsUp(g, w, UpTo(n, S))}
<1>1. 0 \in T
  <2>1. \A s \in UpTo(0, S) : s = {}
    <3>. SUFFICES ASSUME NEW s \in UpTo(0, S)  PROVE s = {}
      OBVIOUS
    <3>1. IsFiniteSet(s) /\ Cardinality(s) \in Nat /\ Cardinality(s) <= 0
      BY FS_Subset, FS_CardinalityType DEF UpTo
    <3>. QED  BY <3>1, FS_EmptySet
  <2>. DEFINE g == [s \in UpTo(0, S) |-> 0]
  <2>2. SumsUp(g, w, UpTo(0, S))
    BY <2>1 DEF SumsUp
  <2>. QED  BY <2>2
<1>2. ASSUME NEW n \in Nat, n \in T  PROVE n + 1 \in T
  <2>1. PICK g : SumsUp(g, w, UpTo(n, S))
    BY <1>2
  <2>. DEFINE h == [s \in UpTo(n + 1, S) |-> IF s = {} THEN 0 ELSE w[Pick(s)] + g[s \ {Pick(s)}]]
  <2>2. UpTo(n, S) \subseteq UpTo(n + 1, S)
    <3>. SUFFICES ASSUME NEW s \in UpTo(n, S)  PROVE s \in UpTo(n + 1, S)
      OBVIOUS
    <3>. QED  BY FS_Subset, FS_CardinalityType DEF UpTo
  <2>3. ASSUME NEW s \in UpTo(n, S)  PROVE h[s] = g[s]
    BY <2>1, <2>2 DEF SumsUp
  <2>4. ASSUME NEW s \in UpTo(n + 1, S), s # {}  PROVE g[s \ {Pick(s)}] = h[s \ {Pick(s)}]
    BY <2>3, <2>4, Smaller
  <2>5. SumsUp(h, w, UpTo(n + 1, S))
    BY <2>4 DEF SumsUp
  <2>. QED  BY <2>5
<1>. HIDE DEF T
<1>3. Nat \subseteq T
  BY <1>1, <1>2, Induction
<1>4. \E g : SumsUp(g, w, SUBSET S)
  <2>1. Cardinality(S) \in T
    BY <1>3, EveryoneIsUpTo
  <2>2. PICK g : SumsUp(g, w, UpTo(Cardinality(S), S))
    BY <2>1 DEF T
  <2>. QED  BY <2>2, EveryoneIsUpTo
<1>. QED  BY <1>4 DEF Sums

\* A sum does not shrink when none of its terms does.
LEMMA SumsGrow ==
  ASSUME NEW S, IsFiniteSet(S), NEW u, NEW w,
         \A a \in S : u[a] \in Int /\ w[a] \in Int /\ u[a] <= w[a]
  PROVE  Sums(u, S)[S] <= Sums(w, S)[S]
<1>. DEFINE f == Sums(u, S)
            g == Sums(w, S)
            T == {n \in Nat : \A s \in UpTo(n, S) : f[s] \in Int /\ g[s] \in Int /\ f[s] <= g[s]}
<1>0. SumsUp(f, u, SUBSET S) /\ SumsUp(g, w, SUBSET S)
  BY SumsExist
<1>. HIDE DEF f, g
<1>1. 0 \in T
  <2>1. \A s \in UpTo(0, S) : s = {}
    <3>. SUFFICES ASSUME NEW s \in UpTo(0, S)  PROVE s = {}
      OBVIOUS
    <3>1. IsFiniteSet(s) /\ Cardinality(s) \in Nat /\ Cardinality(s) <= 0
      BY FS_Subset, FS_CardinalityType DEF UpTo
    <3>. QED  BY <3>1, FS_EmptySet
  <2>. QED  BY <1>0, <2>1 DEF SumsUp, UpTo
<1>2. ASSUME NEW n \in Nat, n \in T  PROVE n + 1 \in T
  <2>0. f[{}] = 0 /\ g[{}] = 0
    BY <1>0 DEF SumsUp
  <2>1. ASSUME NEW s \in UpTo(n + 1, S)
        PROVE  f[s] \in Int /\ g[s] \in Int /\ f[s] <= g[s]
    <3>1. CASE s = {}
      BY <2>0, <3>1
    <3>2. CASE s # {}
      <4>1. Pick(s) \in s /\ s \ {Pick(s)} \in UpTo(n, S) /\ s \in SUBSET S
        BY <3>2, Smaller DEF UpTo
      <4>. DEFINE r == s \ {Pick(s)}
      <4>2. f[r] \in Int /\ g[r] \in Int /\ f[r] <= g[r]
        BY <1>2, <4>1
      <4>3. f[s] = u[Pick(s)] + f[r] /\ g[s] = w[Pick(s)] + g[r]
        BY <1>0, <3>2, <4>1 DEF SumsUp
      <4>4. Pick(s) \in S
        BY <4>1
      <4>. HIDE DEF r
      <4>. QED  BY <4>2, <4>3, <4>4
    <3>. QED  BY <3>1, <3>2
  <2>. QED  BY <2>1
<1>. HIDE DEF T
<1>3. Nat \subseteq T
  BY <1>1, <1>2, Induction
<1>. QED  BY <1>3, EveryoneIsUpTo DEF T, f, g

\* Every area at least as well covered: at least the same score.
LEMMA CreditsAddUp ==
  ASSUME NEW f, NEW g, NEW v \in Version, NEW x,
         \A b \in Area : Credit(State(f, v, b, x)) <= Credit(State(g, v, b, x))
  PROVE  Earned(f, v, x) <= Earned(g, v, x)
<1>. DEFINE S == Applicable(x)
            t(h) == [b \in S |-> Template[v][b].weight * Credit(State(h, v, b, x))]
<1>1. IsFiniteSet(S) /\ S \subseteq Area
  BY FiniteAssumption, FS_Subset DEF Applicable
<1>2. ASSUME NEW b \in S, NEW h
      PROVE  Template[v][b].weight \in Nat /\ Credit(State(h, v, b, x)) \in Nat
  BY <1>1, TemplateAssumption DEF IsDefinition, Credit
<1>3. \A b \in S : t(f)[b] \in Int /\ t(g)[b] \in Int /\ t(f)[b] <= t(g)[b]
  <2>. SUFFICES ASSUME NEW b \in S
                PROVE  t(f)[b] \in Int /\ t(g)[b] \in Int /\ t(f)[b] <= t(g)[b]
    OBVIOUS
  <2>. DEFINE m == Template[v][b].weight
              p == Credit(State(f, v, b, x))
              q == Credit(State(g, v, b, x))
  <2>1. m \in Nat /\ p \in Nat /\ q \in Nat /\ p <= q
    BY <1>1, <1>2
  <2>2. t(f)[b] = m * p /\ t(g)[b] = m * q
    OBVIOUS
  <2>. HIDE DEF m, p, q, t
  <2>3. m * p <= m * q /\ m * p \in Int /\ m * q \in Int
    BY <2>1
  <2>. QED  BY <2>2, <2>3
<1>4. Sums(t(f), S)[S] <= Sums(t(g), S)[S]
  BY <1>1, <1>3, SumsGrow
<1>5. ASSUME NEW h  PROVE Earned(h, v, x) = Sums(t(h), S)[S]
  BY DEF Earned, MapThenSumSet, MapThenFoldSet, Sums, SumsUp, Pick
<1>. QED  BY <1>4, <1>5

-----------------------------------------------------------------------------
(* The calculator on the facts of one moment *)

IsFacts(f) == /\ DOMAIN f = DOMAIN NoFacts
              /\ f.life \in [Item -> Lifecycle]

LEMMA FactKinds ==
  DOMAIN NoFacts = {"life", "links", "contradictions", "blockers"}
BY DEF NoFacts

\* What one more candidate changes: nothing is confirmed that was not.
LEMMA CandidateConfirmsNothing ==
  ASSUME NEW f, IsFacts(f), NEW i \in Item, NEW a \in Area, f.life[i] = "absent",
         NEW v, NEW b
  PROVE  LET g == WithCandidate(f, i, a)
         IN /\ Confirmed(g, v, b) = Confirmed(f, v, b)
            /\ Proposed(f, v, b) \subseteq Proposed(g, v, b)
            /\ \A c \in Claim : Establishing(g, v, b, c) = Establishing(f, v, b, c)
            /\ g.contradictions = f.contradictions /\ g.blockers = f.blockers
<1>. DEFINE g == WithCandidate(f, i, a)
<1>1. /\ g.contradictions = f.contradictions /\ g.blockers = f.blockers
      /\ g.links = f.links \cup {<<i, a, NoClaim>>}
      /\ g.life = [f.life EXCEPT ![i] = "proposed"]
  BY FactKinds DEF WithCandidate, IsFacts
<1>2. g.life[i] = "proposed" /\ \A j \in Item \ {i} : g.life[j] = f.life[j]
  BY <1>1 DEF IsFacts
<1>. HIDE DEF g
<1>3. \A j \in Item : j # i => (j \in InArea(g, v, b) <=> j \in InArea(f, v, b))
  BY <1>1 DEF InArea
<1>4. Confirmed(g, v, b) = Confirmed(f, v, b)
  BY <1>2, <1>3 DEF Confirmed, InArea
<1>5. Proposed(f, v, b) \subseteq Proposed(g, v, b)
  BY <1>2, <1>3 DEF Proposed, InArea
<1>6. ASSUME NEW c \in Claim  PROVE Establishing(g, v, b, c) = Establishing(f, v, b, c)
  <2>1. c # NoClaim
    BY FiniteAssumption
  <2>. QED  BY <1>1, <1>4, <2>1 DEF Establishing
<1>. QED  BY <1>1, <1>4, <1>5, <1>6 DEF g

LEMMA CandidateNeverUnlocks ==
  ASSUME NEW f, IsFacts(f), NEW i \in Item, NEW a \in Area, f.life[i] = "absent",
         NEW v \in Version, NEW x, Eligible(WithCandidate(f, i, a), v, x)
  PROVE  Eligible(f, v, x)
<1>. DEFINE g == WithCandidate(f, i, a)
<1>1. \A b : /\ Confirmed(g, v, b) = Confirmed(f, v, b)
             /\ Proposed(f, v, b) \subseteq Proposed(g, v, b)
             /\ \A c \in Claim : Establishing(g, v, b, c) = Establishing(f, v, b, c)
             /\ g.contradictions = f.contradictions /\ g.blockers = f.blockers
  BY CandidateConfirmsNothing
<1>. HIDE DEF g
<1>2. ASSUME NEW b \in Area, State(g, v, b, x) \in {"sufficient", "not_applicable"}
      PROVE  State(f, v, b, x) \in {"sufficient", "not_applicable"}
  <2>1. DOMAIN Template[v][b].claims \subseteq Claim
    BY TemplateAssumption DEF IsDefinition
  <2>2. Suffices(g, v, b) => Suffices(f, v, b)
    BY <1>1, <2>1 DEF Suffices
  <2>3. b \in x \/ Suffices(g, v, b)
    BY <1>2 DEF State, Grounded
  <2>. QED  BY <2>2, <2>3 DEF State
<1>3. Blocked(f, v, x) => Blocked(g, v, x)
  BY <1>1 DEF Blocked, Contradicted
<1>4. Eligible(g, v, x)
  BY DEF g
<1>. QED  BY <1>2, <1>3, <1>4 DEF Eligible, MandatoryAreas

WithConfirmed(f, i) == [f EXCEPT !.life[i] = "validated"]

\* Confirming a candidate keeps every area at least as well covered as it was and
\* every eligibility (evaluate_area, eligibility).
THEOREM ConfirmingRaisesEveryArea ==
  ASSUME NEW f, IsFacts(f), NEW i \in Item, f.life[i] = "proposed",
         NEW v \in Version, NEW x
  PROVE  /\ \A b \in Area : Credit(State(f, v, b, x)) <= Credit(State(WithConfirmed(f, i), v, b, x))
         /\ Eligible(f, v, x) => Eligible(WithConfirmed(f, i), v, x)
<1>. DEFINE g == WithConfirmed(f, i)
            Kept(h, b) == Confirmed(h, v, b) \cup Proposed(h, v, b)
<1>1. /\ g.contradictions = f.contradictions /\ g.blockers = f.blockers /\ g.links = f.links
      /\ g.life = [f.life EXCEPT ![i] = "validated"]
  BY FactKinds DEF WithConfirmed, IsFacts
<1>2. g.life[i] = "validated" /\ \A j \in Item \ {i} : g.life[j] = f.life[j]
  BY <1>1 DEF IsFacts
<1>. HIDE DEF g
<1>3. \A b : InArea(g, v, b) = InArea(f, v, b) /\ InArea(f, v, b) \subseteq Item
  BY <1>1 DEF InArea
<1>4. \A b : Confirmed(f, v, b) \subseteq Confirmed(g, v, b) /\ Confirmed(g, v, b) \subseteq Item
  BY <1>2, <1>3 DEF Confirmed
<1>5. \A b : Kept(g, b) = Kept(f, b)
  BY <1>2, <1>3 DEF Confirmed, Proposed
<1>6. ASSUME NEW b \in Area, Suffices(f, v, b)  PROVE Suffices(g, v, b)
  <2>1. Cardinality(Confirmed(f, v, b)) \in Nat /\ Cardinality(Confirmed(g, v, b)) \in Nat
        /\ Cardinality(Confirmed(f, v, b)) <= Cardinality(Confirmed(g, v, b))
    <3>1. IsFiniteSet(Confirmed(g, v, b)) /\ IsFiniteSet(Confirmed(f, v, b))
      BY <1>4, FS_Subset, FiniteAssumption
    <3>. QED  BY <1>4, <3>1, FS_Subset, FS_CardinalityType
  <2>2. ASSUME NEW c
        PROVE  /\ Cardinality(Establishing(f, v, b, c)) \in Nat
               /\ Cardinality(Establishing(g, v, b, c)) \in Nat
               /\ Cardinality(Establishing(f, v, b, c)) <= Cardinality(Establishing(g, v, b, c))
    <3>1. /\ Establishing(f, v, b, c) \subseteq Establishing(g, v, b, c)
          /\ Establishing(g, v, b, c) \subseteq Item
      BY <1>1, <1>4 DEF Establishing
    <3>2. IsFiniteSet(Establishing(g, v, b, c)) /\ IsFiniteSet(Establishing(f, v, b, c))
      BY <3>1, FS_Subset, FiniteAssumption
    <3>. QED  BY <3>1, <3>2, FS_Subset, FS_CardinalityType
  <2>3. /\ Template[v][b].minimum \in Nat
        /\ \A c \in DOMAIN Template[v][b].claims : Template[v][b].claims[c] \in Nat
    BY TemplateAssumption DEF IsDefinition
  <2>. QED  BY <1>6, <2>1, <2>2, <2>3 DEF Suffices
<1>7. ASSUME NEW b \in Area
      PROVE  State(g, v, b, x) = State(f, v, b, x) \/ State(g, v, b, x) = "sufficient"
  BY <1>5, <1>6 DEF State
<1>8. ASSUME NEW b \in Area
      PROVE  Credit(State(f, v, b, x)) \in {0, 1, 2} /\ Credit("sufficient") = 2
  BY DEF Credit
<1>9. ASSUME NEW b \in Area
      PROVE  Credit(State(f, v, b, x)) <= Credit(State(g, v, b, x))
  BY <1>7, <1>8
<1>10. Blocked(g, v, x) => Blocked(f, v, x)
  BY <1>1, <1>5 DEF Blocked, Contradicted
<1>11. Eligible(f, v, x) => Eligible(g, v, x)
  BY <1>7, <1>10 DEF Eligible, MandatoryAreas
<1>. QED  BY <1>9, <1>11 DEF g

-----------------------------------------------------------------------------
(* What every step preserves *)

LEMMA Order ==
  /\ ReadOrder[2] = "life" /\ ReadOrder[3] = "links" /\ ReadOrder[4] = "contradictions"
  /\ ReadOrder[5] = "blockers" /\ ReadOrder[6] = "revision"
  /\ Len(ReadOrder) = 6 /\ Finished = 7
BY DEF ReadOrder, Finished

IsSequence(s) == \E S : s \in Seq(S)

LEMMA AppendedSequence ==
  ASSUME NEW s, IsSequence(s), NEW e
  PROVE  /\ IsSequence(Append(s, e))
         /\ Len(s) \in Nat /\ Len(Append(s, e)) = Len(s) + 1
         /\ Append(s, e)[Len(s) + 1] = e
         /\ \A n \in 1 .. Len(s) : Append(s, e)[n] = s[n]
         /\ DOMAIN s = 1 .. Len(s) /\ DOMAIN Append(s, e) = 1 .. Len(s) + 1
<1>1. PICK S : s \in Seq(S)
  BY DEF IsSequence
<1>. DEFINE T == S \cup {e}
<1>2. s \in Seq(T) /\ e \in T
  BY <1>1
<1>3. Append(s, e) \in Seq(T)
  BY <1>2
<1>4. IsSequence(Append(s, e))
  BY <1>3 DEF IsSequence
<1>. QED  BY <1>2, <1>3, <1>4

\* The facts keep their kinds, and the history is the project's.
HistoryIsKept ==
  /\ IsFacts(facts) /\ revision \in Nat
  /\ IsSequence(past) /\ Len(past) = revision + 1
  /\ past[revision + 1] = facts

\* The kinds a calculation at this point has read, one statement each.
ReadSoFar(at) == CASE at = 3 -> {"life"}
                   [] at = 4 -> {"life", "links"}
                   [] at = 5 -> {"life", "links", "contradictions"}
                   [] at \in {6, 7} -> DOMAIN NoFacts
                   [] OTHER -> {}

\* Each of these kinds was, at some revision from one to the other, as it was read.
WereTrue(history, seen, kinds, from, until) ==
  \A kind \in kinds : \E n \in from .. until : history[n + 1][kind] = seen[kind]

\* The revision that what a calculation has read must not be newer than.
Until(k, now) == IF k.at = 7 THEN k.revision ELSE now

\* A calculation and a snapshot name revisions that were reached, what was read
\* was true at one since the calculation started, and where reads are of one
\* state, it is the state they name.
SoundCalculation(k, history, now, exact) ==
  /\ DOMAIN k = DOMAIN NotRunning /\ DOMAIN k.seen = DOMAIN NoFacts
  /\ k.at \in 0 .. 7 /\ k.from \in 0 .. now /\ k.revision \in 0 .. now
  /\ WereTrue(history, k.seen, ReadSoFar(k.at), k.from, Until(k, now))
  /\ exact /\ k.at = 7 => k.seen = history[k.revision + 1]

SoundSnapshot(s, history, now, exact) ==
  /\ DOMAIN s.facts = DOMAIN NoFacts
  /\ s.revision \in 0 .. now /\ s.from \in 0 .. now
  /\ WereTrue(history, s.facts, DOMAIN NoFacts, s.from, s.revision)
  /\ exact => s.facts = history[s.revision + 1]

Described ==
  /\ HistoryIsKept
  /\ DOMAIN calc = Calculator /\ IsSequence(snapshots)
  /\ \A c \in Calculator : SoundCalculation(calc[c], past, revision, Serializable)
  /\ \A m \in DOMAIN snapshots : SoundSnapshot(snapshots[m], past, revision, Serializable)

\* A longer history leaves them sound.
LEMMA LongerHistory ==
  ASSUME NEW now \in Nat, NEW history, NEW longer, NEW exact,
         \A n \in 0 .. now : longer[n + 1] = history[n + 1]
  PROVE  /\ \A k : SoundCalculation(k, history, now, exact)
                     => SoundCalculation(k, longer, now + 1, exact)
         /\ \A s : SoundSnapshot(s, history, now, exact)
                     => SoundSnapshot(s, longer, now + 1, exact)
<1>1. ASSUME NEW seen, NEW kinds, NEW from \in Nat, NEW until \in 0 .. now,
             NEW later \in Nat, until <= later, WereTrue(history, seen, kinds, from, until)
      PROVE  WereTrue(longer, seen, kinds, from, later)
  <2>. SUFFICES ASSUME NEW kind \in kinds
                PROVE  \E n \in from .. later : longer[n + 1][kind] = seen[kind]
    BY DEF WereTrue
  <2>1. PICK n \in from .. until : history[n + 1][kind] = seen[kind]
    BY <1>1 DEF WereTrue
  <2>2. n \in 0 .. now /\ n \in from .. later
    BY <1>1
  <2>. QED  BY <2>1, <2>2
<1>2. ASSUME NEW k, SoundCalculation(k, history, now, exact)
      PROVE  SoundCalculation(k, longer, now + 1, exact)
  <2>1. /\ Until(k, now) \in 0 .. now /\ Until(k, now + 1) \in Nat
        /\ Until(k, now) <= Until(k, now + 1)
        /\ k.from \in Nat /\ k.from \in 0 .. now + 1 /\ k.revision \in 0 .. now + 1
    BY <1>2 DEF SoundCalculation, Until
  <2>2. WereTrue(longer, k.seen, ReadSoFar(k.at), k.from, Until(k, now + 1))
    BY <1>1, <1>2, <2>1 DEF SoundCalculation
  <2>3. k.revision \in 0 .. now
    BY <1>2 DEF SoundCalculation
  <2>. QED  BY <1>2, <2>1, <2>2, <2>3 DEF SoundCalculation
<1>3. ASSUME NEW s, SoundSnapshot(s, history, now, exact)
      PROVE  SoundSnapshot(s, longer, now + 1, exact)
  <2>1. /\ s.revision \in 0 .. now /\ s.from \in Nat /\ s.revision \in Nat
        /\ s.revision <= s.revision /\ s.revision \in 0 .. now + 1 /\ s.from \in 0 .. now + 1
    BY <1>3 DEF SoundSnapshot
  <2>2. WereTrue(longer, s.facts, DOMAIN NoFacts, s.from, s.revision)
    BY <1>1, <1>3, <2>1 DEF SoundSnapshot
  <2>. QED  BY <1>3, <2>1, <2>2 DEF SoundSnapshot
<1>. QED  BY <1>2, <1>3

\* A change of the project adds one state to the history.
LEMMA ChangeKeepsDescribed ==
  ASSUME Described, NEW f, IsFacts(f), Change(f)
  PROVE  Described'
<1>1. /\ revision \in Nat /\ revision' = revision + 1 /\ facts' = f
      /\ snapshots' = snapshots /\ calc' = calc /\ Serializable' = Serializable
      /\ past' = Append(past, f) /\ Len(past) = revision + 1 /\ IsSequence(past)
  BY DEF Change, Bumped, Described, HistoryIsKept, Serializable
<1>2. /\ IsSequence(past') /\ Len(past') = revision' + 1
      /\ past'[revision' + 1] = f
      /\ \A n \in 0 .. revision : past'[n + 1] = past[n + 1]
  BY <1>1, AppendedSequence
<1>3. HistoryIsKept'
  BY <1>1, <1>2 DEF HistoryIsKept, IsFacts
<1>4. /\ \A k : SoundCalculation(k, past, revision, Serializable)
                  => SoundCalculation(k, past', revision', Serializable)
      /\ \A s : SoundSnapshot(s, past, revision, Serializable)
                  => SoundSnapshot(s, past', revision', Serializable)
  BY <1>1, <1>2, LongerHistory
<1>. QED  BY <1>1, <1>3, <1>4 DEF Described

\* Each change of the project is a Change to well-formed facts.
LEMMA ChangesAreFacts ==
  ASSUME IsFacts(facts), ProjectChanges
  PROVE  \E f : IsFacts(f) /\ Change(f)
<1>1. CASE KnowledgeMoves
  <2>1. PICK i \in Item : \E m \in Moves :
          facts.life[i] = m[1] /\ Change([facts EXCEPT !.life[i] = m[2]])
    BY <1>1 DEF KnowledgeMoves
  <2>2. PICK m \in Moves : Change([facts EXCEPT !.life[i] = m[2]])
    BY <2>1
  <2>3. m[2] \in Lifecycle
    BY DEF Moves, Lifecycle
  <2>4. IsFacts([facts EXCEPT !.life[i] = m[2]])
    BY <2>3, FactKinds DEF IsFacts
  <2>. QED  BY <2>2, <2>4
<1>2. \A x : /\ IsFacts([facts EXCEPT !.links = x])
             /\ IsFacts([facts EXCEPT !.contradictions = x])
             /\ IsFacts([facts EXCEPT !.blockers = x])
  BY FactKinds DEF IsFacts
<1>3. CASE \E c \in Calculator : AssignArea(c)
  BY <1>2, <1>3 DEF AssignArea
<1>4. CASE RecordContradiction \/ ResolveContradiction
  BY <1>2, <1>4 DEF RecordContradiction, ResolveContradiction
<1>5. CASE RaiseBlocker \/ ResolveBlocker
  BY <1>2, <1>5 DEF RaiseBlocker, ResolveBlocker
<1>. QED  BY <1>1, <1>3, <1>4, <1>5 DEF ProjectChanges

\* A calculation that moves on.
LEMMA MovingKeepsDescribed ==
  ASSUME Described, UNCHANGED <<facts, revision, past, snapshots, isolation>>,
         NEW c \in Calculator, NEW k, calc' = [calc EXCEPT ![c] = k],
         SoundCalculation(k, past, revision, Serializable)
  PROVE  Described'
<1>1. /\ DOMAIN calc' = Calculator
      /\ \A d \in Calculator : calc'[d] = k \/ calc'[d] = calc[d]
  BY DEF Described
<1>2. HistoryIsKept'
  BY DEF Described, HistoryIsKept
<1>3. \A d \in Calculator : SoundCalculation(calc'[d], past, revision, Serializable)
  BY <1>1 DEF Described
<1>. QED  BY <1>1, <1>2, <1>3 DEF Described, Serializable

\* What a calculation has before it reads facts.
LEMMA NothingRead ==
  ASSUME NEW history, NEW now \in Nat, NEW exact
  PROVE  /\ SoundCalculation(NotRunning, history, now, exact)
         /\ \A k : /\ DOMAIN k = DOMAIN NotRunning /\ DOMAIN k.seen = DOMAIN NoFacts
                   /\ k.at \in {1, 2} /\ k.from \in 0 .. now /\ k.revision \in 0 .. now
                   => SoundCalculation(k, history, now, exact)
<1>1. /\ DOMAIN NotRunning.seen = DOMAIN NoFacts /\ NotRunning.at = 0 /\ NotRunning.from = 0
      /\ NotRunning.revision = 0
  BY DEF NotRunning
<1>2. \A at \in {0, 1, 2} : ReadSoFar(at) = {}
  BY DEF ReadSoFar
<1>. QED  BY <1>1, <1>2 DEF SoundCalculation, WereTrue

LEMMA Calculation ==
  ASSUME Described, NEW c \in Calculator
  PROVE  /\ SoundCalculation(calc[c], past, revision, Serializable)
         /\ DOMAIN calc[c] = DOMAIN NotRunning /\ DOMAIN calc[c].seen = DOMAIN NoFacts
         /\ revision \in Nat /\ calc[c].at \in 0 .. 7
         /\ calc[c].from \in 0 .. revision /\ calc[c].revision \in 0 .. revision
         /\ past[revision + 1] = facts /\ DOMAIN facts = DOMAIN NoFacts
         /\ DOMAIN calc = Calculator
BY DEF Described, HistoryIsKept, IsFacts, SoundCalculation

LEMMA StartKeepsDescribed ==
  ASSUME Described, NEW c \in Calculator, Start(c) \/ ReadTemplate(c) \/ Retry(c)
  PROVE  Described'
<1>1. CASE Start(c)
  <2>1. PICK q \in CalculationRequests :
          calc' = [calc EXCEPT ![c].at = 1, ![c].moment = clock + 1, ![c].adopt = q.adopt,
                               ![c].excluded = q.excluded, ![c].from = revision]
    BY <1>1 DEF Start
  <2>. DEFINE k == [calc[c] EXCEPT !.at = 1, !.moment = clock + 1, !.adopt = q.adopt,
                                   !.excluded = q.excluded, !.from = revision]
  <2>2. calc' = [calc EXCEPT ![c] = k]
    BY <2>1, Calculation
  <2>3. /\ DOMAIN k = DOMAIN NotRunning
        /\ k.at = 1 /\ k.from = revision /\ k.revision = calc[c].revision /\ k.seen = calc[c].seen
    BY Calculation DEF NotRunning
  <2>. HIDE DEF k
  <2>4. SoundCalculation(k, past, revision, Serializable)
    BY <2>3, Calculation, NothingRead
  <2>5. UNCHANGED <<facts, revision, past, snapshots, isolation>>
    BY <1>1 DEF Start
  <2>. QED  BY <2>2, <2>4, <2>5, MovingKeepsDescribed
<1>2. CASE ReadTemplate(c)
  <2>. DEFINE k == [calc[c] EXCEPT !.at = 2, !.version = TemplateFor(c, calc[c].adopt),
                                   !.known = Len(snapshots)]
  <2>1. calc' = [calc EXCEPT ![c] = k]
    BY <1>2, Calculation DEF ReadTemplate
  <2>2. /\ DOMAIN k = DOMAIN NotRunning
        /\ k.at = 2 /\ k.from = calc[c].from /\ k.revision = calc[c].revision
        /\ k.seen = calc[c].seen
    BY Calculation DEF NotRunning
  <2>. HIDE DEF k
  <2>3. SoundCalculation(k, past, revision, Serializable)
    BY <2>2, Calculation, NothingRead
  <2>4. UNCHANGED <<facts, revision, past, snapshots, isolation>>
    BY <1>2 DEF ReadTemplate
  <2>. QED  BY <2>1, <2>3, <2>4, MovingKeepsDescribed
<1>3. CASE Retry(c)
  <2>. DEFINE k == [calc[c] EXCEPT !.at = 1]
  <2>1. /\ DOMAIN k = DOMAIN NotRunning /\ k.at = 1 /\ k.from = calc[c].from
        /\ k.revision = calc[c].revision /\ k.seen = calc[c].seen
    BY Calculation DEF NotRunning
  <2>2. calc' = [calc EXCEPT ![c] = k] \/ calc' = [calc EXCEPT ![c] = NotRunning]
    BY <1>3, Calculation DEF Retry
  <2>. HIDE DEF k
  <2>3. /\ SoundCalculation(k, past, revision, Serializable)
        /\ SoundCalculation(NotRunning, past, revision, Serializable)
    BY <2>1, Calculation, NothingRead
  <2>4. UNCHANGED <<facts, revision, past, snapshots, isolation>>
    BY <1>3 DEF Retry
  <2>. QED  BY <2>2, <2>3, <2>4, MovingKeepsDescribed
<1>. QED  BY <1>1, <1>2, <1>3

\* One more kind of fact, as committed at the moment of its statement.
LEMMA ReadingAKind ==
  ASSUME Described, NEW c \in Calculator, NEW kind \in DOMAIN NoFacts,
         calc[c].at \in 2 .. 5,
         ReadSoFar(calc[c].at + 1) = ReadSoFar(calc[c].at) \cup {kind},
         UNCHANGED <<facts, revision, past, snapshots, isolation>>,
         calc' = [calc EXCEPT ![c].seen[kind] = facts[kind], ![c].at = calc[c].at + 1]
  PROVE  Described'
<1>. DEFINE k == [calc[c] EXCEPT !.seen = [calc[c].seen EXCEPT ![kind] = facts[kind]],
                                 !.at = calc[c].at + 1]
<1>1. calc' = [calc EXCEPT ![c] = k]
  BY Calculation
<1>2. /\ DOMAIN k = DOMAIN NotRunning
      /\ k.at = calc[c].at + 1 /\ k.from = calc[c].from /\ k.revision = calc[c].revision
      /\ k.seen = [calc[c].seen EXCEPT ![kind] = facts[kind]]
  BY Calculation DEF NotRunning
<1>. HIDE DEF k
<1>3. /\ DOMAIN k.seen = DOMAIN NoFacts /\ k.seen[kind] = facts[kind]
      /\ \A other \in DOMAIN NoFacts \ {kind} : k.seen[other] = calc[c].seen[other]
  BY <1>2, Calculation
<1>4. ReadSoFar(calc[c].at) \subseteq DOMAIN NoFacts
  BY FactKinds DEF ReadSoFar
<1>5. k.at \in 0 .. 7 /\ k.at # 7 /\ Until(k, revision) = revision
      /\ Until(calc[c], revision) = revision
  BY <1>2 DEF Until
<1>6. WereTrue(past, k.seen, ReadSoFar(k.at), k.from, revision)
  <2>1. WereTrue(past, calc[c].seen, ReadSoFar(calc[c].at), calc[c].from, revision)
    BY <1>5, Calculation DEF SoundCalculation
  <2>2. revision \in k.from .. revision /\ past[revision + 1][kind] = k.seen[kind]
    BY <1>2, <1>3, Calculation
  <2>3. \A other \in ReadSoFar(k.at) : other = kind
          \/ (other \in ReadSoFar(calc[c].at) /\ k.seen[other] = calc[c].seen[other])
    BY <1>2, <1>3, <1>4
  <2>. QED  BY <1>2, <2>1, <2>2, <2>3 DEF WereTrue
<1>7. SoundCalculation(k, past, revision, Serializable)
  BY <1>2, <1>3, <1>5, <1>6, Calculation DEF SoundCalculation
<1>. QED  BY <1>1, <1>7, MovingKeepsDescribed

LEMMA ReadingKeepsDescribed ==
  ASSUME Described, NEW c \in Calculator, ReadFacts(c) \/ ReadSnapshot(c)
  PROVE  Described'
<1>0. UNCHANGED <<facts, revision, past, snapshots, isolation>>
  BY DEF ReadFacts, ReadSnapshot
<1>1. CASE ReadSnapshot(c)
  <2>. DEFINE k == [calc[c] EXCEPT !.at = 7, !.seen = facts, !.revision = revision]
  <2>1. calc' = [calc EXCEPT ![c] = k]
    BY <1>1, Calculation, Order DEF ReadSnapshot
  <2>2. /\ DOMAIN k = DOMAIN NotRunning
        /\ k.at = 7 /\ k.from = calc[c].from /\ k.revision = revision /\ k.seen = facts
    BY Calculation DEF NotRunning
  <2>. HIDE DEF k
  <2>3. WereTrue(past, k.seen, ReadSoFar(k.at), k.from, Until(k, revision))
    BY <2>2, Calculation DEF WereTrue, Until
  <2>4. SoundCalculation(k, past, revision, Serializable)
    BY <2>2, <2>3, Calculation DEF SoundCalculation
  <2>. QED  BY <1>0, <2>1, <2>4, MovingKeepsDescribed
<1>2. CASE ReadFacts(c) /\ calc[c].at = 6
  <2>. DEFINE k == [calc[c] EXCEPT !.revision = revision, !.at = calc[c].at + 1]
  <2>1. calc' = [calc EXCEPT ![c] = k]
    <3>1. ReadOrder[calc[c].at] = "revision"
      BY <1>2, Order
    <3>. QED  BY <1>2, <3>1, Calculation DEF ReadFacts
  <2>2. /\ DOMAIN k = DOMAIN NotRunning
        /\ k.at = 7 /\ k.from = calc[c].from /\ k.revision = revision /\ k.seen = calc[c].seen
    BY <1>2, Calculation DEF NotRunning
  <2>. HIDE DEF k
  <2>3. ReadSoFar(7) = ReadSoFar(6)
    BY DEF ReadSoFar
  <2>4. WereTrue(past, k.seen, ReadSoFar(k.at), k.from, Until(k, revision))
    <3>1. Until(calc[c], revision) = revision /\ Until(k, revision) = revision
      BY <1>2, <2>2 DEF Until
    <3>. QED  BY <1>2, <2>2, <2>3, <3>1, Calculation DEF SoundCalculation
  <2>5. ~Serializable
    BY <1>2 DEF ReadFacts
  <2>6. SoundCalculation(k, past, revision, Serializable)
    BY <2>2, <2>4, <2>5, Calculation DEF SoundCalculation
  <2>. QED  BY <1>0, <2>1, <2>6, MovingKeepsDescribed
<1>3. CASE ReadFacts(c) /\ calc[c].at # 6
  <2>. DEFINE kind == ReadOrder[calc[c].at]
  <2>1. calc[c].at \in 2 .. 5
    BY <1>3, Calculation, Order DEF ReadFacts
  <2>2. /\ kind \in DOMAIN NoFacts /\ kind # "revision"
        /\ ReadSoFar(calc[c].at + 1) = ReadSoFar(calc[c].at) \cup {kind}
    <3>1. /\ ReadSoFar(2) = {} /\ ReadSoFar(3) = {"life"} /\ ReadSoFar(4) = {"life", "links"}
          /\ ReadSoFar(5) = {"life", "links", "contradictions"}
          /\ ReadSoFar(6) = {"life", "links", "contradictions", "blockers"}
      BY FactKinds DEF ReadSoFar
    <3>2. calc[c].at = 2 \/ calc[c].at = 3 \/ calc[c].at = 4 \/ calc[c].at = 5
      BY <2>1
    <3>. QED  BY <3>1, <3>2, Order, FactKinds
  <2>3. calc' = [calc EXCEPT ![c].seen[kind] = facts[kind], ![c].at = calc[c].at + 1]
    BY <1>3, <2>2 DEF ReadFacts
  <2>. HIDE DEF kind
  <2>. QED  BY <1>0, <2>1, <2>2, <2>3, ReadingAKind
<1>. QED  BY <1>1, <1>2, <1>3

\* A finished calculation appends the snapshot of what it read.
LEMMA CommitKeepsDescribed ==
  ASSUME Described, NEW c \in Calculator, Commit(c)
  PROVE  Described'
<1>. DEFINE s == Snapshot(calc[c])
            last == Len(snapshots) + 1
<1>1. /\ calc[c].at = 7 /\ snapshots' = Append(snapshots, s)
      /\ calc' = [calc EXCEPT ![c] = NotRunning]
      /\ UNCHANGED <<facts, revision, past, clock, isolation>>
  BY Order DEF Commit
<1>2. /\ s.revision = calc[c].revision /\ s.from = calc[c].from /\ s.facts = calc[c].seen
  BY DEF Snapshot
<1>. HIDE DEF s
<1>3. SoundSnapshot(s, past, revision, Serializable)
  <2>1. ReadSoFar(7) = DOMAIN NoFacts /\ Until(calc[c], revision) = calc[c].revision
    BY <1>1 DEF ReadSoFar, Until
  <2>. QED  BY <1>1, <1>2, <2>1, Calculation DEF SoundSnapshot, SoundCalculation
<1>4. IsSequence(snapshots)
  BY DEF Described
<1>5. /\ IsSequence(snapshots') /\ Len(snapshots) \in Nat
      /\ \A n \in DOMAIN snapshots' : \/ n \in DOMAIN snapshots /\ snapshots'[n] = snapshots[n]
                                      \/ snapshots'[n] = s
  BY <1>1, <1>4, AppendedSequence
<1>6. \A m \in DOMAIN snapshots' : SoundSnapshot(snapshots'[m], past, revision, Serializable)
  BY <1>3, <1>5 DEF Described
<1>7. /\ DOMAIN calc' = Calculator
      /\ \A d \in Calculator : calc'[d] = NotRunning \/ calc'[d] = calc[d]
  BY <1>1 DEF Described
<1>8. SoundCalculation(NotRunning, past, revision, Serializable)
  BY Calculation, NothingRead
<1>9. HistoryIsKept'
  BY <1>1 DEF Described, HistoryIsKept
<1>. QED  BY <1>1, <1>5, <1>6, <1>7, <1>8, <1>9 DEF Described, Serializable

LEMMA NextKeepsDescribed == Described /\ [Next]_vars => Described'
<1>. SUFFICES ASSUME Described, [Next]_vars  PROVE  Described'
  OBVIOUS
<1>1. CASE UNCHANGED vars
  BY <1>1 DEF vars, Described, HistoryIsKept, Serializable
<1>2. CASE ProjectChanges
  <2>1. IsFacts(facts)
    BY DEF Described, HistoryIsKept
  <2>. QED  BY <1>2, <2>1, ChangesAreFacts, ChangeKeepsDescribed
<1>3. ASSUME NEW c \in Calculator, Calculate(c)  PROVE  Described'
  BY <1>3, StartKeepsDescribed, ReadingKeepsDescribed, CommitKeepsDescribed DEF Calculate
<1>. QED  BY <1>1, <1>2, <1>3 DEF Next

LEMMA InitDescribed == Init => Described
<1>. SUFFICES ASSUME Init  PROVE  Described
  OBVIOUS
<1>1. HistoryIsKept
  <2>1. IsFacts(NoFacts)
    BY DEF NoFacts, IsFacts, Lifecycle
  <2>2. IsSequence(past) /\ Len(past) = 1 /\ past[1] = NoFacts
    <3>1. past \in Seq({NoFacts})
      BY DEF Init
    <3>. QED  BY <3>1 DEF Init, IsSequence
  <2>. QED  BY <2>1, <2>2 DEF Init, HistoryIsKept
<1>2. IsSequence(snapshots) /\ DOMAIN snapshots = {}
  <2>1. snapshots \in Seq({})
    BY DEF Init
  <2>. QED  BY <2>1 DEF Init, IsSequence
<1>3. /\ DOMAIN calc = Calculator /\ \A c \in Calculator : calc[c] = NotRunning
      /\ revision = 0
  BY DEF Init
<1>4. SoundCalculation(NotRunning, past, revision, Serializable)
  BY <1>3, NothingRead
<1>. QED  BY <1>1, <1>2, <1>3, <1>4 DEF Described

LEMMA DescribedHolds == Spec => []Described
BY InitDescribed, NextKeepsDescribed, PTL DEF Spec

\* Where the reads of a transaction are of one state, a snapshot is the project
\* at the revision it names (calculate), whatever changes beside it.
THEOREM SnapshotsAreOneState == Spec => []SnapshotIsOneState
<1>1. Described => SnapshotIsOneState
  BY DEF Described, SoundSnapshot, SnapshotIsOneState, Snapshots
<1>. QED  BY <1>1, DescribedHolds, PTL

\* Under both isolation levels no fact of a snapshot is newer than its label, or
\* older than the start of its calculation: the revision is read last.
THEOREM LabelsComeLast == Spec => []FactsPrecedeTheLabel
<1>1. Described => FactsPrecedeTheLabel
  BY DEF Described, SoundSnapshot, WereTrue, FactsPrecedeTheLabel, Snapshots
<1>. QED  BY <1>1, DescribedHolds, PTL

\* However a project came about, one more candidate never makes it eligible.
THEOREM CandidatesUnlockNothing == Spec => []CandidatesNeverUnlock
<1>1. Described => CandidatesNeverUnlock
  BY CandidateNeverUnlocks DEF Described, HistoryIsKept, CandidatesNeverUnlock
<1>. QED  BY <1>1, DescribedHolds, PTL

\* However a project came about, confirming a candidate costs it neither score nor
\* eligibility, under any template and exclusions.
THEOREM ConfirmingCostsNothing == Spec => []ConfirmingNeverHurts
<1>1. ASSUME Described, NEW i \in Item, NEW v \in Version, NEW x \in Exclusions,
             facts.life[i] = "proposed"
      PROVE  /\ Earned(facts, v, x) <= Earned(WithConfirmed(facts, i), v, x)
             /\ Eligible(facts, v, x) => Eligible(WithConfirmed(facts, i), v, x)
  <2>1. IsFacts(facts)
    BY <1>1 DEF Described, HistoryIsKept
  <2>. QED  BY <1>1, <2>1, ConfirmingRaisesEveryArea, CreditsAddUp
<1>2. Described => ConfirmingNeverHurts
  BY <1>1 DEF ConfirmingNeverHurts, WithConfirmed
<1>. QED  BY <1>2, DescribedHolds, PTL

-----------------------------------------------------------------------------
(* The pin: a calculation that commits has chosen its version from the      *)
(* snapshot that is still the latest.                                       *)

\* Latest and TemplateFor, read off any sequence of snapshots.
LatestOf(h) == CHOOSE s \in {h[n] : n \in DOMAIN h} :
                 \A n \in DOMAIN h : h[n].moment <= s.moment
Pinned(c, adopt, h) ==
  IF adopt \/ h = <<>> \/ LatestOf(h).version \notin Stored
  THEN ServiceOf[c] ELSE LatestOf(h).version

LEMMA PinnedNow ==
  /\ Latest = LatestOf(snapshots) /\ Latest' = LatestOf(snapshots')
  /\ \A c, adopt : TemplateFor(c, adopt) = Pinned(c, adopt, snapshots)
BY DEF Latest, LatestOf, TemplateFor, Pinned

Chosen(k, c, h) ==
  k.at >= 2 =>
    /\ k.version \in Stored /\ k.known \in 0 .. Len(h)
    /\ k.known = Len(h) => k.version = Pinned(c, k.adopt, h)

\* Every calculation has a moment of its own, so the latest snapshot is one.
Moments ==
  /\ clock \in Nat
  /\ \A c \in Calculator : calc[c].at # 0 => calc[c].moment \in 1 .. clock
  /\ \A c, d \in Calculator :
       c # d /\ calc[c].at # 0 /\ calc[d].at # 0 => calc[c].moment # calc[d].moment
  /\ \A m \in DOMAIN snapshots : snapshots[m].moment \in 1 .. clock
  /\ \A m \in DOMAIN snapshots, c \in Calculator :
       calc[c].at # 0 => snapshots[m].moment # calc[c].moment
  /\ \A m, n \in DOMAIN snapshots : snapshots[m].moment = snapshots[n].moment => m = n

LatestExists ==
  snapshots # <<>> =>
    \E m \in DOMAIN snapshots : \A n \in DOMAIN snapshots :
      snapshots[n].moment <= snapshots[m].moment

VersionsAreStored ==
  /\ \A c \in Calculator : Chosen(calc[c], c, snapshots)
  /\ \A m \in DOMAIN snapshots : snapshots[m].version \in Stored

Pins == Moments /\ LatestExists /\ VersionsAreStored

\* The latest snapshot, where there is one.
LEMMA LatestIsLast ==
  ASSUME NEW h, NEW m \in DOMAIN h, \A n \in DOMAIN h : h[n].moment <= h[m].moment
  PROVE  \E n \in DOMAIN h : /\ LatestOf(h) = h[n]
                             /\ \A o \in DOMAIN h : h[o].moment <= h[n].moment
<1>. DEFINE P(s) == \A n \in DOMAIN h : h[n].moment <= s.moment
<1>1. \E s \in {h[n] : n \in DOMAIN h} : P(s)
  OBVIOUS
<1>2. LatestOf(h) \in {h[n] : n \in DOMAIN h} /\ P(LatestOf(h))
  <2>. HIDE DEF P
  <2>1. LatestOf(h) = CHOOSE s \in {h[n] : n \in DOMAIN h} : P(s)
    BY DEF LatestOf, P
  <2>. QED  BY <1>1, <2>1
<1>. QED  BY <1>2

\* A step of one calculation that writes no snapshot.
LEMMA CalculatingKeepsPins ==
  ASSUME Described, Pins, NEW c \in Calculator, UNCHANGED <<snapshots, clock>>,
         \A d \in Calculator \ {c} : calc'[d] = calc[d],
         \/ calc'[c].at = 0
         \/ calc[c].at # 0 /\ calc'[c].moment = calc[c].moment,
         Chosen(calc'[c], c, snapshots)
  PROVE  Pins'
<1>1. Moments'
  BY DEF Pins, Moments
<1>2. LatestExists'
  BY DEF Pins, LatestExists
<1>3. \A d \in Calculator : Chosen(calc'[d], d, snapshots)
  BY DEF Pins, VersionsAreStored
<1>4. VersionsAreStored'
  BY <1>3 DEF Pins, VersionsAreStored
<1>. QED  BY <1>1, <1>2, <1>4 DEF Pins

LEMMA CalculateKeepsPins ==
  ASSUME \A c \in Calculator : ServiceOf[c] \in Stored,
         Described, Pins, NEW c \in Calculator, Calculate(c), ~Commit(c)
  PROVE  Pins'
<1>0. /\ DOMAIN calc = Calculator /\ DOMAIN calc[c] = DOMAIN NotRunning
      /\ calc[c].at \in 0 .. 7 /\ Chosen(calc[c], c, snapshots) /\ clock \in Nat
      /\ IsSequence(snapshots)
  BY Calculation DEF Pins, VersionsAreStored, Moments, Described
<1>1. CASE Start(c)
  <2>1. PICK q \in CalculationRequests :
          calc' = [calc EXCEPT ![c].at = 1, ![c].moment = clock + 1, ![c].adopt = q.adopt,
                               ![c].excluded = q.excluded, ![c].from = revision]
    BY <1>1 DEF Start
  <2>2. /\ calc'[c].at = 1 /\ calc'[c].moment = clock + 1
        /\ \A d \in Calculator \ {c} : calc'[d] = calc[d]
    BY <1>0, <2>1 DEF NotRunning
  <2>3. snapshots' = snapshots /\ clock' = clock + 1 /\ calc[c].at = 0
    BY <1>1 DEF Start
  <2>4. Moments'
    <3>1. \A n \in 1 .. clock : n \in 1 .. clock' /\ n # clock + 1
      BY <1>0, <2>3
    <3>. QED  BY <1>0, <2>2, <2>3, <3>1 DEF Pins, Moments
  <2>5. LatestExists'
    BY <2>3 DEF Pins, LatestExists
  <2>6. \A d \in Calculator : Chosen(calc'[d], d, snapshots)
    BY <2>2 DEF Pins, VersionsAreStored, Chosen
  <2>7. VersionsAreStored'
    BY <2>3, <2>6 DEF Pins, VersionsAreStored
  <2>. QED  BY <2>4, <2>5, <2>7 DEF Pins
<1>2. CASE ReadTemplate(c)
  <2>. DEFINE v == TemplateFor(c, calc[c].adopt)
  <2>1. /\ calc'[c].at = 2 /\ calc'[c].moment = calc[c].moment /\ calc'[c].adopt = calc[c].adopt
        /\ calc'[c].version = v /\ calc'[c].known = Len(snapshots)
        /\ \A d \in Calculator \ {c} : calc'[d] = calc[d]
    BY <1>0, <1>2 DEF ReadTemplate, NotRunning
  <2>2. v = Pinned(c, calc[c].adopt, snapshots) /\ v \in Stored
    BY PinnedNow DEF Pinned
  <2>3. Len(snapshots) \in Nat
    BY <1>0, AppendedSequence
  <2>. HIDE DEF v
  <2>4. Chosen(calc'[c], c, snapshots)
    BY <2>1, <2>2, <2>3 DEF Chosen
  <2>5. UNCHANGED <<snapshots, clock>> /\ calc[c].at # 0
    BY <1>2 DEF ReadTemplate
  <2>. QED  BY <2>1, <2>4, <2>5, CalculatingKeepsPins
<1>3. CASE ReadFacts(c) \/ ReadSnapshot(c)
  <2>1. /\ calc'[c].moment = calc[c].moment /\ calc'[c].adopt = calc[c].adopt
        /\ calc'[c].version = calc[c].version /\ calc'[c].known = calc[c].known
        /\ \A d \in Calculator \ {c} : calc'[d] = calc[d]
    <3>1. CASE ReadSnapshot(c)
      BY <1>0, <3>1 DEF ReadSnapshot, NotRunning
    <3>2. CASE ReadFacts(c)
      <4>. DEFINE kind == ReadOrder[calc[c].at]
                  next == calc[c].at + 1
      <4>1. \/ calc' = [calc EXCEPT ![c].revision = revision, ![c].at = next]
            \/ calc' = [calc EXCEPT ![c].seen[kind] = facts[kind], ![c].at = next]
        BY <3>2 DEF ReadFacts
      <4>. QED  BY <1>0, <4>1 DEF NotRunning
    <3>. QED  BY <1>3, <3>1, <3>2
  <2>2. calc[c].at >= 2 /\ UNCHANGED <<snapshots, clock>>
    BY <1>0, <1>3, Order DEF ReadFacts, ReadSnapshot
  <2>3. Chosen(calc'[c], c, snapshots)
    BY <1>0, <2>1, <2>2 DEF Chosen
  <2>. QED  BY <1>0, <2>1, <2>2, <2>3, CalculatingKeepsPins
<1>4. CASE Retry(c)
  <2>1. /\ calc'[c].at = 0 \/ (calc'[c].at = 1 /\ calc'[c].moment = calc[c].moment)
        /\ \A d \in Calculator \ {c} : calc'[d] = calc[d]
        /\ UNCHANGED <<snapshots, clock>>
    BY <1>0, <1>4 DEF Retry, NotRunning
  <2>2. calc[c].at # 0
    BY <1>4, Order DEF Retry
  <2>3. Chosen(calc'[c], c, snapshots)
    BY <2>1 DEF Chosen
  <2>. QED  BY <2>1, <2>2, <2>3, CalculatingKeepsPins
<1>. QED  BY <1>1, <1>2, <1>3, <1>4 DEF Calculate

\* The snapshot a calculation commits, and what that makes the latest one.
LEMMA CommitKeepsPins ==
  ASSUME Described, Pins, NEW c \in Calculator, Commit(c)
  PROVE  /\ Pins'
         /\ snapshots # <<>> /\ Serializable =>
              Latest'.version = Latest.version \/ snapshots'[Len(snapshots')].adopted
<1>. DEFINE s == Snapshot(calc[c])
            last == Len(snapshots) + 1
<1>0. /\ DOMAIN calc = Calculator /\ Chosen(calc[c], c, snapshots) /\ clock \in Nat
      /\ IsSequence(snapshots) /\ NotRunning.at = 0
  BY Calculation DEF Pins, VersionsAreStored, Moments, Described, NotRunning
<1>1. /\ calc[c].at = 7 /\ snapshots' = Append(snapshots, s)
      /\ calc' = [calc EXCEPT ![c] = NotRunning] /\ clock' = clock
      /\ Serializable => calc[c].known = Len(snapshots)
  BY Order DEF Commit
<1>2. /\ s.moment = calc[c].moment /\ s.version = calc[c].version /\ s.adopted = calc[c].adopt
  BY DEF Snapshot
<1>. HIDE DEF s
<1>3. /\ Len(snapshots) \in Nat /\ Len(snapshots') = last
      /\ DOMAIN snapshots = 1 .. Len(snapshots) /\ DOMAIN snapshots' = 1 .. last
      /\ snapshots'[last] = s
      /\ \A n \in DOMAIN snapshots : snapshots'[n] = snapshots[n]
  BY <1>0, <1>1, AppendedSequence
<1>4. /\ last \in DOMAIN snapshots' /\ last \notin DOMAIN snapshots
      /\ \A n \in DOMAIN snapshots' : n \in DOMAIN snapshots \/ n = last
      /\ \A n \in DOMAIN snapshots : n \in DOMAIN snapshots'
  BY <1>3
<1>5. /\ calc'[c].at = 0 /\ \A d \in Calculator \ {c} : calc'[d] = calc[d]
  BY <1>0, <1>1
<1>6. /\ s.moment \in 1 .. clock /\ s.version \in Stored
      /\ \A n \in DOMAIN snapshots : snapshots[n].moment # s.moment
      /\ \A d \in Calculator \ {c} : calc[d].at # 0 => calc[d].moment # s.moment
  BY <1>0, <1>1, <1>2 DEF Pins, Moments, Chosen
<1>7. Moments'
  BY <1>0, <1>1, <1>3, <1>4, <1>5, <1>6 DEF Pins, Moments
<1>8. \A n \in DOMAIN snapshots' : snapshots'[n].moment \in Nat
  BY <1>0, <1>1, <1>7 DEF Moments
<1>9. \E m \in DOMAIN snapshots' : \A n \in DOMAIN snapshots' :
        snapshots'[n].moment <= snapshots'[m].moment
  <2>1. CASE snapshots = <<>>
    <3>1. DOMAIN snapshots' = {last}
      BY <1>3, <2>1
    <3>. QED  BY <1>4, <1>8, <3>1
  <2>2. CASE snapshots # <<>>
    <3>1. PICK m \in DOMAIN snapshots : \A n \in DOMAIN snapshots :
                  snapshots[n].moment <= snapshots[m].moment
      BY <2>2 DEF Pins, LatestExists
    <3>2. CASE s.moment <= snapshots[m].moment
      BY <1>3, <1>4, <3>1, <3>2
    <3>3. CASE ~(s.moment <= snapshots[m].moment)
      <4>1. \A n \in DOMAIN snapshots : snapshots[n].moment <= s.moment
        BY <1>3, <1>4, <1>8, <3>1, <3>3
      <4>2. s.moment <= s.moment
        BY <1>3, <1>4, <1>8
      <4>3. \A n \in DOMAIN snapshots' : snapshots'[n].moment <= snapshots'[last].moment
        BY <1>3, <1>4, <4>1, <4>2
      <4>. QED  BY <1>4, <4>3
    <3>. QED  BY <3>2, <3>3
  <2>. QED  BY <2>1, <2>2
<1>10. LatestExists'
  BY <1>9 DEF LatestExists
<1>11. VersionsAreStored'
  <2>1. ASSUME NEW d \in Calculator  PROVE Chosen(calc'[d], d, snapshots')
    <3>1. CASE d = c
      BY <1>5, <3>1 DEF Chosen
    <3>2. CASE d # c
      <4>1. Chosen(calc[d], d, snapshots)
        BY DEF Pins, VersionsAreStored
      <4>. QED  BY <1>3, <1>5, <3>2, <4>1 DEF Chosen
    <3>. QED  BY <3>1, <3>2
  <2>. QED  BY <1>3, <1>4, <1>6, <2>1 DEF Pins, VersionsAreStored
<1>12. ASSUME snapshots # <<>>, Serializable
       PROVE  Latest'.version = Latest.version \/ snapshots'[Len(snapshots')].adopted
  <2>1. PICK m \in DOMAIN snapshots : /\ Latest = snapshots[m]
                                      /\ \A n \in DOMAIN snapshots :
                                           snapshots[n].moment <= snapshots[m].moment
    BY <1>12, LatestIsLast, PinnedNow DEF Pins, LatestExists
  <2>2. PICK n \in DOMAIN snapshots' : /\ Latest' = snapshots'[n]
                                       /\ \A o \in DOMAIN snapshots' :
                                            snapshots'[o].moment <= snapshots'[n].moment
    BY <1>9, LatestIsLast, PinnedNow
  <2>3. CASE n = last
    <3>1. s.version = Pinned(c, calc[c].adopt, snapshots)
      BY <1>0, <1>1, <1>2, <1>12 DEF Chosen
    <3>2. Latest.version \in Stored
      BY <2>1 DEF Pins, VersionsAreStored
    <3>. QED  BY <1>2, <1>3, <1>12, <2>2, <2>3, <3>1, <3>2, PinnedNow DEF Pinned
  <2>4. CASE n # last
    <3>1. n \in DOMAIN snapshots /\ snapshots'[n] = snapshots[n] /\ snapshots'[m] = snapshots[m]
      BY <1>3, <1>4, <2>4
    <3>2. snapshots[n].moment = snapshots[m].moment
      BY <1>4, <1>8, <2>1, <2>2, <3>1
    <3>3. n = m
      BY <3>1, <3>2 DEF Pins, Moments
    <3>. QED  BY <2>1, <2>2, <3>1, <3>3
  <2>. QED  BY <2>3, <2>4
<1>. QED  BY <1>7, <1>10, <1>11, <1>12 DEF Pins

LEMMA InitPins == Init => Pins
<1>. SUFFICES ASSUME Init  PROVE  Pins
  OBVIOUS
<1>1. \A c \in Calculator : calc[c] = NotRunning
  BY DEF Init
<1>2. DOMAIN snapshots = {} /\ snapshots = <<>> /\ clock = 0
  BY DEF Init
<1>3. NotRunning.at = 0
  BY DEF NotRunning
<1>. QED  BY <1>1, <1>2, <1>3 DEF Pins, Moments, LatestExists, VersionsAreStored, Chosen

\* Where stale reads are refused and every shipped version has been stored
\* (install_template writes each), a project keeps the template version of its
\* latest snapshot until a calculation is asked to adopt another.
THEOREM PinsHold ==
  ASSUME \A c \in Calculator : ServiceOf[c] \in Stored
  PROVE  Spec => PinHolds
<1>. DEFINE Holds == Serializable /\ snapshots # <<>> /\ snapshots' # snapshots
                       => \/ Latest'.version = Latest.version
                          \/ snapshots'[Len(snapshots')].adopted
<1>1. Described /\ Pins /\ [Next]_vars => Pins' /\ [Holds]_vars
  <2>. SUFFICES ASSUME Described, Pins, [Next]_vars  PROVE  Pins' /\ Holds
    OBVIOUS
  <2>1. CASE UNCHANGED vars
    BY <2>1 DEF vars, Pins, Moments, LatestExists, VersionsAreStored
  <2>2. CASE ProjectChanges
    <3>1. UNCHANGED <<snapshots, calc, clock>>
      BY <2>2 DEF ProjectChanges, KnowledgeMoves, AssignArea, RecordContradiction,
                  ResolveContradiction, RaiseBlocker, ResolveBlocker, Change
    <3>. QED  BY <3>1 DEF Pins, Moments, LatestExists, VersionsAreStored
  <2>3. ASSUME NEW c \in Calculator, Calculate(c), ~Commit(c)  PROVE  Pins' /\ Holds
    <3>1. snapshots' = snapshots
      BY <2>3 DEF Calculate, Start, ReadTemplate, ReadFacts, ReadSnapshot, Retry
    <3>. QED  BY <2>3, <3>1, CalculateKeepsPins
  <2>4. ASSUME NEW c \in Calculator, Commit(c)  PROVE  Pins' /\ Holds
    BY <2>4, CommitKeepsPins
  <2>. QED  BY <2>1, <2>2, <2>3, <2>4 DEF Next
<1>. HIDE DEF Holds
<1>2. (Spec => [][Holds]_vars)
  BY <1>1, InitPins, DescribedHolds, PTL DEF Spec
<1>. QED  BY <1>2 DEF PinHolds, Holds

-----------------------------------------------------------------------------
(* What a response leaves out (Responses)                                  *)

\* A leaf of a payload: the keys on the way to it, and not where the report of
\* what was left out is put.
IsLeaf(leaf) == IsSequence(leaf) /\ Len(leaf) \in Nat \ {0}
Clear(leaf)  == IsLeaf(leaf) /\ leaf[1] # "truncation"

LEMMA PairsAreLeaves ==
  \A a, b : /\ IsLeaf(<<a>>) /\ <<a>>[1] = a
            /\ IsLeaf(<<a, b>>) /\ <<a, b>>[1] = a
<1>1. ASSUME NEW a, NEW b
      PROVE  IsLeaf(<<a>>) /\ IsLeaf(<<a, b>>)
  <2>. PICK S : S = {a, b}
    OBVIOUS
  <2>1. <<a>> \in Seq(S) /\ <<a, b>> \in Seq(S) /\ Len(<<a>>) = 1 /\ Len(<<a, b>>) = 2
    OBVIOUS
  <2>. QED  BY <2>1 DEF IsLeaf, IsSequence
<1>. QED  BY <1>1

LEMMA KeysAreLeaves ==
  ASSUME NEW names, NEW leaf \in Keys(names)
  PROVE  IsLeaf(leaf) /\ leaf[1] \in names
<1>1. PICK name \in names : leaf = <<name>>
  BY DEF Keys
<1>. QED  BY <1>1, PairsAreLeaves

LEMMA BelowAreLeaves ==
  ASSUME NEW key, NEW leaves, \A rest \in leaves : IsLeaf(rest), NEW leaf \in Below(key, leaves)
  PROVE  IsLeaf(leaf) /\ leaf[1] = key
<1>1. PICK rest \in leaves : leaf = <<key>> \o rest
  BY DEF Below
<1>2. PICK S : rest \in Seq(S)
  BY DEF IsLeaf, IsSequence
<1>. PICK T : T = S \cup {key}
  OBVIOUS
<1>3. rest \in Seq(T) /\ <<key>> \in Seq(T) /\ Len(rest) \in Nat /\ Len(<<key>>) = 1 /\ <<key>>[1] = key
  BY <1>2
<1>4. leaf \in Seq(T) /\ Len(leaf) = 1 + Len(rest) /\ leaf[1] = key
  BY <1>1, <1>3, ConcatProperties
<1>. QED  BY <1>3, <1>4 DEF IsLeaf, IsSequence

LEMMA ClearParts ==
  /\ \A a, b : a # "truncation" => Clear(<<a, b>>)
  /\ \A names : /\ \A leaf \in Keys(names) : IsLeaf(leaf)
                /\ "truncation" \notin names => \A leaf \in Keys(names) : Clear(leaf)
  /\ \A key, leaves : (\A rest \in leaves : IsLeaf(rest)) /\ key # "truncation" =>
       \A leaf \in Below(key, leaves) : IsLeaf(leaf) /\ Clear(leaf)
BY PairsAreLeaves, KeysAreLeaves, BelowAreLeaves DEF Clear

LEMMA BriefingIsClear == \A leaf \in BriefingPayload : Clear(leaf)
<1>. DEFINE E == {<<"method">>, <<"areas", "state">>, <<"areas", "credit">>}
            P == {<<"requires">>, <<"note">>}
            S == {<<"area">>, <<"statements", "text">>, <<"statements", "label">>}
            T == {<<"included">>, <<"excluded">>, <<"operational_state", "authority">>,
                  <<"operational_state", "state">>}
<1>1. \A leaf \in E \cup P \cup S \cup T : IsLeaf(leaf)
  BY PairsAreLeaves
<1>. HIDE DEF E, P, S, T
<1>2. \A leaf \in Below("explanation", E) \cup Below("projection", P) : IsLeaf(leaf)
  BY <1>1, ClearParts
<1>. PICK R : R = Keys({"scope", "percentage", "status", "status_label", "draft_eligible",
                        "implementation_eligible", "ready_for", "missing_mandatory_areas"})
                    \cup Below("explanation", E) \cup Below("projection", P)
  OBVIOUS
<1>3. \A leaf \in R : IsLeaf(leaf)
  BY <1>2, ClearParts
<1>4. \A leaf \in Below("readiness", R) \cup Below("sections", S) \cup Below("tiers", T) : Clear(leaf)
  BY <1>1, <1>3, ClearParts
<1>5. BriefingPayload =
        Keys({"knowledge_revision", "knowledge_health", "statement_count", "open_questions",
              "complete", "unassigned_confirmed_count"})
          \cup Below("project", Keys({"project_id", "name", "key"})) \cup Below("readiness", R)
          \cup Below("sections", S)
          \cup Below("findings", Keys({"kind", "severity", "summary", "area", "knowledge_ids"}))
          \cup Below("tiers", T)
  BY DEF BriefingPayload, E, P, S, T
<1>. QED  BY <1>4, <1>5, ClearParts

LEMMA OthersAreClear ==
  \A leaf \in ReadinessPayload \cup ClarificationPayload \cup AnswerPayload : Clear(leaf)
<1>1. \A leaf \in ReadinessPayload : Clear(leaf)
  BY ClearParts DEF ReadinessPayload
<1>2. \A leaf \in ClarificationPayload : Clear(leaf)
  BY ClearParts DEF ClarificationPayload
<1>3. \A leaf \in AnswerPayload : Clear(leaf)
  BY ClearParts DEF AnswerPayload
<1>. QED  BY <1>1, <1>2, <1>3

LEMMA PayloadsAreClear ==
  ASSUME NEW tool \in DOMAIN ToolLevels, NEW named, NEW leaf \in Payload[tool] \cup Echo(named)
  PROVE  Clear(leaf)
<1>1. CASE leaf \in Echo(named)
  <2>1. leaf = <<"resolved_project", "project_key">>
    BY <1>1 DEF Echo
  <2>. QED  BY <2>1, ClearParts
<1>2. CASE leaf \in Payload[tool]
  BY <1>2, BriefingIsClear, OthersAreClear DEF Payload, ToolLevels
<1>. QED  BY <1>1, <1>2

\* A leaf is there, or what it went with is reported and had no field of the
\* integrity registry above it.
Admitted(leaf, reply) ==
  \/ leaf \in reply.fields
  \/ \E n \in DOMAIN leaf : /\ Path(leaf, n) \in reply.dropped
                            /\ \A m \in 1 .. n : leaf[m] \notin IntegrityFields

LEMMA ProjectionAdmits ==
  ASSUME NEW payload, NEW policy, NEW levels, NEW leaf \in payload, Clear(leaf)
  PROVE  Admitted(leaf, Projected(payload, policy, levels))
<1>. DEFINE reply == Projected(payload, policy, levels)
            cut == CutAt(leaf, policy, levels)
<1>1. CASE cut = {}
  <2>1. leaf \in reply.fields
    BY <1>1 DEF Projected, Clear
  <2>. QED  BY <2>1 DEF Admitted
<1>2. CASE cut # {}
  <2>1. cut \subseteq DOMAIN leaf /\ cut \subseteq Nat
    BY DEF CutAt, Clear, IsLeaf
  <2>2. Min(cut) \in cut
    BY <1>2, <2>1, LeastOf DEF Min
  <2>3. Path(leaf, Min(cut)) \in reply.dropped
    BY <1>2 DEF Projected, Dropped
  <2>4. \A m \in 1 .. Min(cut) : leaf[m] \notin IntegrityFields
    BY <2>2 DEF CutAt, Guarded
  <2>. QED  BY <2>1, <2>2, <2>3, <2>4 DEF Admitted
<1>. QED  BY <1>1, <1>2

LEMMA RepliesAdmit ==
  ASSUME NEW tool \in DOMAIN ToolLevels, NEW named, NEW arguments, NEW base,
         Reply(tool, named, arguments, base).policy # Unset
  PROVE  \A leaf \in Payload[tool] \cup Echo(named) :
           Admitted(leaf, Reply(tool, named, arguments, base))
<1>1. \A kind : Error(kind).policy = Unset
  BY DEF Error, Whole
<1>2. Reply(tool, named, arguments, base) =
        Projected(Payload[tool] \cup Echo(named), Policy(arguments, base), ToolLevels[tool])
  BY <1>1 DEF Reply
<1>. QED  BY <1>2, PayloadsAreClear, ProjectionAdmits

-----------------------------------------------------------------------------
(* What a briefing withholds (Briefing)                                    *)

\* Links are between what there is.
FactsFit(f) == IsFacts(f) /\ f.links \subseteq Item \X Area \X (Claim \cup {NoClaim})

\* An area whose claims are not told apart is no better covered.
LEMMA UnclaimedIsNoBetter ==
  ASSUME NEW f, FactsFit(f), NEW v \in Version, NEW a \in Area, ~Suffices(f, v, a)
  PROVE  Unfinished(f, v, a)
<1>. DEFINE g == Unclaimed(f)
            d == Template[v][a]
<1>1. g.links = {<<l[1], l[2], NoClaim>> : l \in f.links} /\ g.life = f.life
  BY FactKinds DEF Unclaimed, FactsFit, IsFacts
<1>. HIDE DEF g
<1>2. CASE DOMAIN d.claims # {}
  <2>1. PICK c : c \in DOMAIN d.claims
    BY <1>2
  <2>2. c # NoClaim /\ d.claims[c] \in Nat \ {0}
    BY <2>1, TemplateAssumption, FiniteAssumption DEF IsDefinition
  <2>3. Establishing(g, v, a, c) = {}
    BY <1>1, <2>2 DEF Establishing
  <2>4. ~(Cardinality(Establishing(g, v, a, c)) >= d.claims[c])
    BY <2>2, <2>3, FS_EmptySet
  <2>. QED  BY <1>2, <2>1, <2>4 DEF Unfinished, Suffices, g
<1>3. CASE DOMAIN d.claims = {}
  <2>1. ASSUME NEW i \in Item
        PROVE  (\E c \in Claim \cup {NoClaim} : <<i, a, c>> \in g.links)
                 <=> (\E c \in Claim \cup {NoClaim} : <<i, a, c>> \in f.links)
    <3>1. ASSUME NEW c \in Claim \cup {NoClaim}, <<i, a, c>> \in f.links
          PROVE  <<i, a, NoClaim>> \in g.links
      BY <1>1, <3>1
    <3>2. ASSUME NEW c \in Claim \cup {NoClaim}, <<i, a, c>> \in g.links
          PROVE  \E k \in Claim \cup {NoClaim} : <<i, a, k>> \in f.links
      <4>1. PICK l \in f.links : l[1] = i /\ l[2] = a
        BY <1>1, <3>2
      <4>2. l = <<i, a, l[3]>> /\ l[3] \in Claim \cup {NoClaim}
        BY <4>1 DEF FactsFit
      <4>. QED  BY <4>1, <4>2
    <3>. QED  BY <3>1, <3>2
  <2>2. Confirmed(g, v, a) = Confirmed(f, v, a)
    BY <1>1, <2>1 DEF Confirmed, InArea
  <2>. QED  BY <1>3, <2>2 DEF Unfinished, Suffices, g
<1>. QED  BY <1>2, <1>3

\* What an explanation is: a finding about something the project lacks.
Explains(g, excluded) ==
  \/ g.kind \in {"missing_area", "partial_area"} /\ g.severity # "minor" /\ g.area \notin excluded
  \/ g.kind \in {"unresolved_contradiction", "open_blocker"} /\ g.severity = "critical"

LEMMA FindingsExplain ==
  ASSUME NEW f, FactsFit(f), NEW v \in Version, ~Eligible(f, v, {})
  PROVE  \E g \in Findings(f, v) : Explains(g, {})
<1>1. CASE \E a \in MandatoryAreas(v) : State(f, v, a, {}) \notin {"sufficient", "not_applicable"}
  <2>1. PICK a \in Area : Template[v][a].mandatory /\ State(f, v, a, {}) # "sufficient"
    BY <1>1 DEF MandatoryAreas
  <2>2. ~Suffices(f, v, a)
    BY <2>1 DEF State
  <2>3. AreaFinding(f, v, a) \in Findings(f, v)
    BY <2>2, UnclaimedIsNoBetter DEF Findings, AreaFindings
  <2>4. Explains(AreaFinding(f, v, a), {})
    BY <2>1 DEF Explains, AreaFinding, Finding
  <2>. QED  BY <2>3, <2>4
<1>2. CASE "critical" \in f.blockers
  <2>. DEFINE g == Finding("open_blocker", "critical", NoArea, {})
  <2>1. g \in Findings(f, v)
    BY <1>2 DEF Findings, BlockerFindings
  <2>2. Explains(g, {})
    BY DEF Explains, Finding
  <2>. QED  BY <2>1, <2>2
<1>3. CASE \E a \in MandatoryAreas(v) \ {} : Contradicted(f, v, a)
  <2>1. PICK e \in f.contradictions : TRUE
    BY <1>3 DEF Contradicted
  <2>. DEFINE g == Finding("unresolved_contradiction", "critical", NoArea, {e[1], e[2]})
  <2>2. g \in Findings(f, v)
    BY <2>1 DEF Findings, ContradictionFindings
  <2>3. Explains(g, {})
    BY DEF Explains, Finding
  <2>. QED  BY <2>2, <2>3
<1>. QED  BY <1>1, <1>2, <1>3 DEF Eligible, Blocked

LEMMA ChangesFit ==
  ASSUME FactsFit(facts), revision \in Nat, ProjectChanges
  PROVE  FactsFit(facts)' /\ revision' = revision + 1 /\ snapshots' = snapshots
<1>1. PICK f : IsFacts(f) /\ Change(f)
  BY ChangesAreFacts DEF FactsFit
<1>2. IsFacts(facts') /\ revision' = revision + 1 /\ snapshots' = snapshots
  BY <1>1 DEF Change, Bumped
<1>3. facts'.links \subseteq Item \X Area \X (Claim \cup {NoClaim})
  <2>0. /\ \A i, x : [facts EXCEPT !.life[i] = x].links = facts.links
        /\ \A x : /\ [facts EXCEPT !.contradictions = x].links = facts.links
                  /\ [facts EXCEPT !.blockers = x].links = facts.links
                  /\ [facts EXCEPT !.links = x].links = x
    BY FactKinds DEF FactsFit, IsFacts
  <2>1. CASE \E c \in Calculator : AssignArea(c)
    <3>1. PICK i \in Item, a \in Area, k \in Claim \cup {NoClaim} :
            facts' = [facts EXCEPT !.links = @ \cup {<<i, a, k>>}]
      BY <2>1 DEF AssignArea, Change
    <3>2. facts'.links = facts.links \cup {<<i, a, k>>}
      BY <2>0, <3>1
    <3>. QED  BY <3>2 DEF FactsFit
  <2>2. CASE KnowledgeMoves
    BY <2>0, <2>2 DEF KnowledgeMoves, Change, FactsFit
  <2>3. CASE RecordContradiction \/ ResolveContradiction \/ RaiseBlocker \/ ResolveBlocker
    BY <2>0, <2>3 DEF RecordContradiction, ResolveContradiction, RaiseBlocker, ResolveBlocker,
       Change, FactsFit
  <2>. QED  BY <2>1, <2>2, <2>3 DEF ProjectChanges
<1>. QED  BY <1>2, <1>3 DEF FactsFit

\* The requests are of the tools that are modelled.
RequestsAreOfTools == \A f : \A r \in Requested(f) : r.tool \in DOMAIN Steps

-----------------------------------------------------------------------------
(* The answer in progress                                                  *)

AnswerShape == DOMAIN answer = DOMAIN NoAnswer /\ DOMAIN answer.parts = DOMAIN Nothing

LEMMA NothingYet ==
  /\ DOMAIN NoAnswer = {"request", "step", "parts", "reply"}
  /\ DOMAIN Nothing = {"snapshot", "blueprint", "findings", "unknowns", "revision"}
  /\ NoAnswer.step = 0 /\ NoAnswer.reply = Unset /\ NoAnswer.parts = Nothing
  /\ NoAnswer.request = Unset /\ Nothing.blueprint = Unset
  /\ \A r : LET a == [NoAnswer EXCEPT !.request = r, !.step = 1]
             IN /\ DOMAIN a = DOMAIN NoAnswer /\ a.request = r /\ a.step = 1
                /\ a.parts = Nothing /\ a.reply = Unset
<1>1. /\ DOMAIN NoAnswer = {"request", "step", "parts", "reply"}
      /\ NoAnswer.step = 0 /\ NoAnswer.reply = Unset /\ NoAnswer.parts = Nothing
      /\ NoAnswer.request = Unset
  BY DEF NoAnswer
<1>2. /\ DOMAIN Nothing = {"snapshot", "blueprint", "findings", "unknowns", "revision"}
      /\ Nothing.blueprint = Unset
  BY DEF Nothing
<1>3. \A r : LET a == [NoAnswer EXCEPT !.request = r, !.step = 1]
             IN /\ DOMAIN a = DOMAIN NoAnswer /\ a.request = r /\ a.step = 1
                /\ a.parts = Nothing /\ a.reply = Unset
  BY DEF NoAnswer
<1>. QED  BY <1>1, <1>2, <1>3

\* What a step does to the answer that is not about its parts.
LEMMA AnswerMoves ==
  ASSUME AnswerShape, BriefingNext
  PROVE  /\ AnswerShape'
         /\ \/ answer' = answer
            \/ answer'.reply = Unset
            \/ answer'.reply = Error("project")
            \/ /\ answer'.request = answer.request
               /\ answer'.reply = IF Tool \in DOMAIN ToolLevels
                    THEN Reply(Tool, answer.request.named, answer.request.arguments, Deployment)
                    ELSE Whole({<<"results">>, <<"total">>, <<"guidance">>})
<1>. USE NothingYet
<1>1. CASE Ask
  BY <1>1 DEF Ask, AnswerShape
<1>2. CASE RefuseProject
  BY <1>2 DEF RefuseProject, AnswerShape
<1>3. CASE ReadPart
  <2>1. PICK kind, part : answer' = [answer EXCEPT !.step = @ + 1, !.parts[kind] = part]
    BY <1>3 DEF ReadPart
  <2>2. answer.reply = Unset
    BY <1>3 DEF ReadPart, Working
  <2>3. DOMAIN answer' = DOMAIN answer /\ answer'.reply = answer.reply
        /\ answer'.parts = [answer.parts EXCEPT ![kind] = part]
    BY <2>1 DEF AnswerShape
  <2>. QED  BY <2>2, <2>3 DEF AnswerShape
<1>4. CASE Answer
  BY <1>4 DEF Answer, AnswerShape
<1>5. CASE ProjectChanges /\ UNCHANGED answer
  BY <1>5 DEF AnswerShape
<1>. QED  BY <1>1, <1>2, <1>3, <1>4, <1>5 DEF BriefingNext

\* Nothing a response leaves out is left out silently, and no field of the
\* integrity registry is cut by itself (response_policy.py).
THEOREM AdmissionsAreKept == BriefingSpec => []AdmissionsSurvive
<1>1. BriefingInit => AnswerShape /\ AdmissionsSurvive
  BY NothingYet DEF BriefingInit, AnswerShape, AdmissionsSurvive, Given
<1>2. ASSUME AnswerShape /\ AdmissionsSurvive, [BriefingNext]_bvars
      PROVE  (AnswerShape /\ AdmissionsSurvive)'
  <2>1. CASE UNCHANGED bvars
    BY <1>2, <2>1 DEF bvars, AnswerShape, AdmissionsSurvive, Given, Tool
  <2>2. CASE BriefingNext
    <3>1. AnswerShape'
      BY <1>2, <2>2, AnswerMoves
    <3>2. CASE answer' = answer
      BY <1>2, <3>1, <3>2 DEF AdmissionsSurvive, Given, Tool
    <3>3. CASE answer'.reply = Unset
      BY <3>1, <3>3 DEF AdmissionsSurvive, Given
    <3>4. CASE answer'.reply = Error("project")
      BY <3>1, <3>4 DEF AdmissionsSurvive, Error, Whole
    <3>5. CASE /\ answer'.request = answer.request
               /\ answer'.reply = IF Tool \in DOMAIN ToolLevels
                    THEN Reply(Tool, answer.request.named, answer.request.arguments, Deployment)
                    ELSE Whole({<<"results">>, <<"total">>, <<"guidance">>})
      <4>. SUFFICES ASSUME Tool' \in DOMAIN ToolLevels, answer'.reply.policy # Unset,
                           NEW leaf \in Payload[Tool'] \cup Echo(answer'.request.named)
                    PROVE  Admitted(leaf, answer'.reply)
        BY <3>1 DEF AdmissionsSurvive, Admitted
      <4>1. /\ Tool' = Tool
            /\ answer'.reply = Reply(Tool, answer.request.named, answer.request.arguments, Deployment)
        BY <3>5 DEF Tool
      <4>. QED  BY <3>5, <4>1, RepliesAdmit
    <3>. QED  BY <1>2, <2>2, <3>2, <3>3, <3>4, <3>5, AnswerMoves
  <2>. QED  BY <1>2, <2>1, <2>2
<1>. QED  BY <1>1, <1>2, PTL DEF BriefingSpec

-----------------------------------------------------------------------------
(* What a briefing carries, step by step                                   *)

\* The snapshot is of a state of the project, and of this one unless the
\* project has moved on.
SnapshotFits(s) ==
  /\ s.revision \in Nat /\ s.revision <= revision /\ s.excluded = {}
  /\ s.revision = revision /\ ~s.eligible => ~Eligible(facts, Shipped, {})

\* So are the findings, as long as the snapshot still is of this state.
FindingsFit(parts) == parts.snapshot.revision = revision => parts.findings = Findings(facts, Shipped)

\* At the end the revision tells whether they are of one state.
EndFits(parts) ==
  /\ parts.revision \in Nat /\ parts.revision <= revision
  /\ parts.snapshot.revision = parts.revision /\ ~parts.snapshot.eligible =>
       \E g \in parts.findings : Explains(g, {})

BriefingFits ==
  Tool = "briefing" => /\ answer.step >= 2 => SnapshotFits(answer.parts.snapshot)
                       /\ answer.step >= 4 => FindingsFit(answer.parts)
                       /\ answer.step = 5 => EndFits(answer.parts)
AnswerSteps ==
  /\ answer.step \in 0 .. 5
  /\ answer.step = 0 => answer = NoAnswer
  /\ answer.step > 0 => Tool \in DOMAIN Steps
  /\ answer.step = 1 => answer.parts = Nothing
  /\ answer.step < 2 => snapshots = <<>>
  /\ answer.step > 0 /\ Tool # "briefing" => answer.parts.blueprint = Unset
  /\ answer.step > 0 => BriefingFits
  /\ answer.step > 0 /\ Given /\ Tool = "briefing" => answer.step \in {1, 5}
AnswerInv == FactsFit(facts) /\ revision \in Nat /\ AnswerShape /\ AnswerSteps

LEMMA StepKinds ==
  /\ DOMAIN Steps = {"briefing", "readiness", "decisions", "clarifications", "answer"}
  /\ DOMAIN Steps["briefing"] = 1 .. 4 /\ Len(Steps["briefing"]) = 4
  /\ Steps["briefing"][1] = "snapshot" /\ Steps["briefing"][2] = "blueprint"
  /\ Steps["briefing"][3] = "findings" /\ Steps["briefing"][4] = "revision"
<1>1. /\ DOMAIN Steps = {"briefing", "readiness", "decisions", "clarifications", "answer"}
      /\ Steps["briefing"] = <<"snapshot", "blueprint", "findings", "revision">>
  BY DEF Steps
<1>. QED  BY <1>1

LEMMA OtherKinds ==
  ASSUME NEW tool \in DOMAIN Steps, tool # "briefing", NEW n \in DOMAIN Steps[tool]
  PROVE  n \in 1 .. 3 /\ Steps[tool][n] # "blueprint"
<1>1. /\ Steps["readiness"] = <<"snapshot", "revision">>
      /\ Steps["decisions"] = <<"unknowns", "findings", "revision">>
      /\ Steps["clarifications"] = <<"revision">> /\ Steps["answer"] = <<"revision">>
  BY DEF Steps
<1>2. tool \in {"readiness", "decisions", "clarifications", "answer"}
  BY StepKinds
<1>. QED  BY <1>1, <1>2

\* The first snapshot is of the project as it is.
LEMMA FreshFits ==
  ASSUME revision \in Nat, snapshots = <<>>
  PROVE  SnapshotFits(Known)
<1>1. Known = Fresh
  BY DEF Known
<1>2. Fresh.revision = revision /\ Fresh.excluded = {}
      /\ Fresh.eligible = Eligible(facts, Shipped, {})
  BY DEF Fresh, Snapshot, NotRunning
<1>. QED  BY <1>1, <1>2 DEF SnapshotFits

LEMMA PartsRead ==
  ASSUME AnswerShape, ReadPart
  PROVE  LET kind == Steps[Tool][answer.step]
         IN /\ answer.step \in DOMAIN Steps[Tool]
            /\ answer'.step = answer.step + 1 /\ answer'.request = answer.request
            /\ answer'.reply = answer.reply /\ answer.reply = Unset
            /\ Tool' = Tool
            /\ kind \in DOMAIN answer.parts => answer'.parts[kind] = Part(kind)
            /\ \A k \in DOMAIN answer.parts : k # kind => answer'.parts[k] = answer.parts[k]
            /\ facts' = facts /\ revision' = revision
<1>. DEFINE kind == Steps[Tool][answer.step]
<1>1. answer' = [answer EXCEPT !.step = @ + 1, !.parts[kind] = Part(kind)]
      /\ answer.step \in DOMAIN Steps[Tool] /\ answer.reply = Unset
      /\ facts' = facts /\ revision' = revision
  BY DEF ReadPart, Working
<1>. HIDE DEF kind
<1>2. /\ answer'.step = answer.step + 1 /\ answer'.request = answer.request
      /\ answer'.reply = answer.reply
      /\ answer'.parts = [answer.parts EXCEPT ![kind] = Part(kind)]
  BY <1>1, NothingYet DEF AnswerShape
<1>. QED  BY <1>1, <1>2 DEF Tool, kind

LEMMA AskKeeps ==
  ASSUME RequestsAreOfTools, AnswerInv, Ask
  PROVE  AnswerInv'
<1>1. PICK r \in Requested(facts) : answer' = [NoAnswer EXCEPT !.request = r, !.step = 1]
  BY DEF Ask
<1>2. /\ answer'.step = 1 /\ answer'.request = r /\ answer'.parts = Nothing
      /\ answer'.reply = Unset /\ DOMAIN answer' = DOMAIN NoAnswer
  BY <1>1, NothingYet
<1>3. r.tool \in DOMAIN Steps
  BY DEF RequestsAreOfTools
<1>4. UNCHANGED vars /\ snapshots = <<>>
  BY NothingYet DEF Ask, NotAsked, AnswerInv, AnswerSteps
<1>5. AnswerSteps'
  BY <1>2, <1>3, <1>4, NothingYet DEF AnswerSteps, BriefingFits, Given, Tool, vars
<1>. QED  BY <1>2, <1>4, <1>5 DEF AnswerInv, AnswerShape, FactsFit, IsFacts, vars

LEMMA ReplyKeeps ==
  ASSUME AnswerInv, RefuseProject \/ Answer
  PROVE  AnswerInv'
<1>1. PICK reply : answer' = [answer EXCEPT !.reply = reply]
  BY DEF RefuseProject, Answer
<1>2. /\ answer'.step = answer.step /\ answer'.request = answer.request
      /\ answer'.parts = answer.parts /\ DOMAIN answer' = DOMAIN answer
  BY <1>1, NothingYet DEF AnswerInv, AnswerShape
<1>3. UNCHANGED vars /\ answer.step > 0
  BY NothingYet DEF RefuseProject, Answer, Working, AnswerInv, AnswerSteps
<1>4. Tool = "briefing" => answer.step \in {1, 5}
  <2>1. CASE RefuseProject
    BY <2>1 DEF RefuseProject
  <2>2. CASE Answer
    <3>. SUFFICES ASSUME Tool = "briefing"  PROVE answer.step = 5
      OBVIOUS
    <3>1. answer.step = Len(Steps[Tool]) + 1
      BY <2>2 DEF Answer
    <3>2. Len(Steps[Tool]) = 4
      BY StepKinds
    <3>. QED  BY <3>1, <3>2
  <2>. QED  BY <2>1, <2>2
<1>5. AnswerSteps'
  <2>1. BriefingFits'
    BY <1>2, <1>3 DEF AnswerInv, AnswerSteps, BriefingFits, Tool, SnapshotFits, FindingsFit, EndFits,
       vars
  <2>. QED  BY <1>2, <1>3, <1>4, <2>1 DEF AnswerInv, AnswerSteps, Tool, vars
<1>. QED  BY <1>2, <1>3, <1>5 DEF AnswerInv, AnswerShape, FactsFit, IsFacts, vars

LEMMA ChangesKeep ==
  ASSUME AnswerInv, ProjectChanges, UNCHANGED answer
  PROVE  AnswerInv'
<1>1. FactsFit(facts)' /\ revision' = revision + 1 /\ snapshots' = snapshots
  BY ChangesFit DEF AnswerInv
<1>2. ASSUME answer.step > 0  PROVE BriefingFits'
  <2>. SUFFICES ASSUME Tool = "briefing", answer.step >= 2  PROVE BriefingFits'
    BY DEF BriefingFits, Tool, AnswerInv, AnswerSteps
  <2>1. /\ SnapshotFits(answer.parts.snapshot)
        /\ answer.step = 5 => EndFits(answer.parts)
    BY <1>2 DEF AnswerInv, AnswerSteps, BriefingFits
  <2>2. SnapshotFits(answer.parts.snapshot)'
    BY <1>1, <2>1 DEF SnapshotFits, AnswerInv
  <2>3. FindingsFit(answer.parts)'
    BY <1>1, <2>1 DEF SnapshotFits, FindingsFit, AnswerInv
  <2>4. answer.step = 5 => EndFits(answer.parts)'
    BY <1>1, <2>1 DEF EndFits, AnswerInv
  <2>. QED  BY <2>2, <2>3, <2>4 DEF BriefingFits
<1>. QED  BY <1>1, <1>2 DEF AnswerInv, AnswerShape, AnswerSteps, Given, Tool

LEMMA PartsKeep ==
  ASSUME AnswerInv, ReadPart
  PROVE  AnswerInv'
<1>. DEFINE kind == Steps[Tool][answer.step]
<1>0. /\ Tool \in DOMAIN Steps /\ answer.step \in 1 .. 5
      /\ answer.step \in DOMAIN Steps[Tool]
      /\ answer'.step = answer.step + 1 /\ Tool' = Tool
      /\ answer'.reply = Unset
      /\ kind \in DOMAIN answer.parts => answer'.parts[kind] = Part(kind)
      /\ \A k \in DOMAIN answer.parts : k # kind => answer'.parts[k] = answer.parts[k]
      /\ facts' = facts /\ revision' = revision
  <2>1. answer.step > 0
    BY NothingYet DEF ReadPart, Working, AnswerInv, AnswerSteps
  <2>. QED  BY <2>1, PartsRead DEF AnswerInv, AnswerSteps
<1>. HIDE DEF kind
<1>1. AnswerShape'
  BY AnswerMoves DEF AnswerInv, BriefingNext
<1>2. CASE Tool # "briefing"
  <2>1. answer.step \in 1 .. 3 /\ kind # "blueprint"
    BY <1>0, <1>2, OtherKinds DEF kind
  <2>2. answer'.parts.blueprint = answer.parts.blueprint
    BY <1>0, <2>1, NothingYet DEF AnswerInv, AnswerShape
  <2>3. AnswerSteps'
    BY <1>0, <1>2, <2>1, <2>2 DEF AnswerInv, AnswerSteps, BriefingFits, Given
  <2>. QED  BY <1>0, <1>1, <2>3 DEF AnswerInv, FactsFit, IsFacts
<1>3. CASE Tool = "briefing"
  <2>1. /\ answer.step \in 1 .. 4
        /\ answer.step = 1 => kind = "snapshot"
        /\ answer.step = 2 => kind = "blueprint"
        /\ answer.step = 3 => kind = "findings"
        /\ answer.step = 4 => kind = "revision"
    BY <1>0, <1>3, StepKinds DEF kind
  <2>2. answer'.parts.snapshot = IF answer.step = 1 THEN Known ELSE answer.parts.snapshot
    BY <1>0, <2>1, NothingYet DEF AnswerInv, AnswerShape, Part
  <2>3. SnapshotFits(answer'.parts.snapshot)
    <3>1. CASE answer.step = 1
      BY <2>2, <3>1, FreshFits DEF AnswerInv, AnswerSteps
    <3>2. CASE answer.step >= 2
      BY <1>0, <1>3, <2>2, <3>2 DEF AnswerInv, AnswerSteps, BriefingFits
    <3>. QED  BY <2>1, <3>1, <3>2
  <2>4. answer.step >= 3 => FindingsFit(answer'.parts)
    <3>1. CASE answer.step = 3
      <4>1. answer'.parts.findings = Findings(facts, Shipped)
        BY <1>0, <2>1, <3>1, NothingYet DEF AnswerInv, AnswerShape, Part
      <4>. QED  BY <4>1 DEF FindingsFit
    <3>2. CASE answer.step = 4
      <4>1. answer'.parts.findings = answer.parts.findings
        BY <1>0, <2>1, <3>2, NothingYet DEF AnswerInv, AnswerShape
      <4>2. FindingsFit(answer.parts)
        BY <1>0, <1>3, <3>2 DEF AnswerInv, AnswerSteps, BriefingFits
      <4>. QED  BY <2>2, <3>2, <4>1, <4>2 DEF FindingsFit
    <3>. QED  BY <2>1, <3>1, <3>2
  <2>5. answer.step = 4 => EndFits(answer'.parts)
    <3>. SUFFICES ASSUME answer.step = 4  PROVE EndFits(answer'.parts)
      OBVIOUS
    <3>1. answer'.parts.revision = revision /\ revision \in Nat
      BY <1>0, <2>1, NothingYet DEF AnswerInv, AnswerShape, Part
    <3>2. ASSUME answer'.parts.snapshot.revision = revision, ~answer'.parts.snapshot.eligible
          PROVE  \E g \in answer'.parts.findings : Explains(g, {})
      <4>1. ~Eligible(facts, Shipped, {})
        BY <2>3, <3>2 DEF SnapshotFits
      <4>2. answer'.parts.findings = Findings(facts, Shipped)
        BY <2>4, <3>2 DEF FindingsFit
      <4>. QED  BY <4>1, <4>2, FindingsExplain, BriefingAssumption DEF AnswerInv
    <3>. QED  BY <3>1, <3>2 DEF EndFits
  <2>6. BriefingFits'
    <3>1. /\ SnapshotFits(answer.parts.snapshot)'
          /\ answer.step >= 3 => FindingsFit(answer.parts)'
          /\ answer.step = 4 => EndFits(answer.parts)'
      BY <1>0, <2>3, <2>4, <2>5 DEF SnapshotFits, FindingsFit, EndFits
    <3>. QED  BY <1>0, <2>1, <3>1 DEF BriefingFits
  <2>7. AnswerSteps'
    BY <1>0, <1>3, <2>1, <2>6 DEF AnswerInv, AnswerSteps, Given
  <2>. QED  BY <1>0, <1>1, <2>7 DEF AnswerInv, FactsFit, IsFacts
<1>. QED  BY <1>2, <1>3

LEMMA AnswerInvExplains == AnswerInv => WithheldIsExplained
<1>. SUFFICES ASSUME AnswerInv, Briefed, Current, ~answer.parts.snapshot.eligible
              PROVE  \E g \in answer.parts.findings : Explains(g, answer.parts.snapshot.excluded)
  BY DEF WithheldIsExplained, Explains
<1>1. answer.step = 5 /\ Tool = "briefing"
  BY NothingYet DEF AnswerInv, AnswerSteps, Briefed, Given
<1>2. SnapshotFits(answer.parts.snapshot) /\ EndFits(answer.parts)
  BY <1>1 DEF AnswerInv, AnswerSteps, BriefingFits
<1>. QED  BY <1>2 DEF SnapshotFits, EndFits, Current

\* A briefing that withholds the implementation blueprint says why, whatever
\* the project, its template and the changes made while it is composed
\* (kae_get_project_briefing).
THEOREM BriefingsExplain ==
  RequestsAreOfTools => (BriefingSpec => []WithheldIsExplained)
<1>. SUFFICES ASSUME RequestsAreOfTools  PROVE BriefingSpec => []WithheldIsExplained
  OBVIOUS
<1>1. BriefingInit => AnswerInv
  <2>. SUFFICES ASSUME BriefingInit  PROVE AnswerInv
    OBVIOUS
  <2>1. FactsFit(facts) /\ revision = 0 /\ snapshots = <<>>
    <3>1. facts = NoFacts /\ revision = 0 /\ snapshots = <<>>
      BY DEF BriefingInit, Init
    <3>2. IsFacts(NoFacts) /\ NoFacts.links = {}
      <4>1. NoFacts.life = [i \in Item |-> "absent"] /\ NoFacts.links = {}
        BY DEF NoFacts
      <4>. QED  BY <4>1 DEF IsFacts, Lifecycle
    <3>. QED  BY <3>1, <3>2 DEF FactsFit
  <2>. QED  BY <2>1, NothingYet DEF BriefingInit, AnswerInv, AnswerShape, AnswerSteps
<1>2. AnswerInv /\ [BriefingNext]_bvars => AnswerInv'
  <2>. SUFFICES ASSUME AnswerInv, [BriefingNext]_bvars  PROVE AnswerInv'
    OBVIOUS
  <2>1. CASE UNCHANGED bvars
    <3>1. BriefingFits => BriefingFits'
      BY <2>1 DEF bvars, vars, BriefingFits, Tool, SnapshotFits, FindingsFit, EndFits
    <3>. QED  BY <2>1, <3>1 DEF bvars, vars, AnswerInv, AnswerShape, AnswerSteps, Given, Tool,
       FactsFit, IsFacts
  <2>. QED  BY <2>1, AskKeeps, ReplyKeeps, PartsKeep, ChangesKeep DEF BriefingNext
<1>. QED  BY <1>1, <1>2, AnswerInvExplains, PTL DEF BriefingSpec
===============================================================================
