-------------------------- MODULE SynthesisProofs --------------------------
(***************************************************************************)
(* What people settled, what events stand for and what running again       *)
(* changes, for any evidence, readings, runs and people, and at either     *)
(* isolation level where the property says so.                             *)
(***************************************************************************)
EXTENDS SynthesisRuns, SequenceTheorems, WellFoundedInduction, TLAPS

-----------------------------------------------------------------------------
(* Sequences *)

IsSequence(s) == \E S : s \in Seq(S)

LEMMA Sequenced ==
  ASSUME NEW s, IsSequence(s)
  PROVE  /\ Len(s) \in Nat /\ DOMAIN s = 1 .. Len(s) /\ s \in Seq(Range(s))
         /\ s = <<>> \/ 1 \in DOMAIN s
<1>1. PICK S : s \in Seq(S)
  BY DEF IsSequence
<1>2. Len(s) \in Nat /\ DOMAIN s = 1 .. Len(s) /\ s \in [1 .. Len(s) -> S]
  BY <1>1, LenProperties
<1>3. s \in [1 .. Len(s) -> Range(s)]
  BY <1>2 DEF Range
<1>4. s \in Seq(Range(s))
  BY <1>2, <1>3, SeqDef
<1>5. s = <<>> \/ Len(s) \in Nat \ {0}
  BY <1>1, EmptySeq
<1>. QED  BY <1>2, <1>4, <1>5

LEMMA Listed ==
  ASSUME NEW n \in Nat, NEW s, s = [j \in 1 .. n |-> s[j]]
  PROVE  IsSequence(s) /\ Len(s) = n /\ DOMAIN s = 1 .. n
<1>1. s \in [1 .. n -> {s[j] : j \in 1 .. n}]
  OBVIOUS
<1>2. s \in Seq({s[j] : j \in 1 .. n})
  BY <1>1, SeqDef
<1>. QED  BY <1>2, LenProperties DEF IsSequence

LEMMA Single ==
  ASSUME NEW x
  PROVE  IsSequence(<<x>>) /\ Range(<<x>>) = {x} /\ IsSequence(<<>>) /\ Range(<<>>) = {}
<1>1. <<x>> \in Seq({x}) /\ <<>> \in Seq({x})
  OBVIOUS
<1>2. DOMAIN <<x>> = {1} /\ <<x>>[1] = x /\ DOMAIN <<>> = {}
  OBVIOUS
<1>. QED  BY <1>1, <1>2 DEF IsSequence, Range

LEMMA Joined ==
  ASSUME NEW s, IsSequence(s), NEW t, IsSequence(t)
  PROVE  /\ IsSequence(s \o t) /\ Range(s \o t) = Range(s) \cup Range(t)
         /\ IsInjective(s) /\ IsInjective(t) /\ Range(s) \cap Range(t) = {} => IsInjective(s \o t)
<1>. DEFINE S == Range(s) \cup Range(t)
<1>1. s \in Seq(S) /\ t \in Seq(S)
  BY Sequenced, SeqMonotonic
<1>2. /\ Len(s) \in Nat /\ Len(t) \in Nat /\ DOMAIN s = 1 .. Len(s) /\ DOMAIN t = 1 .. Len(t)
      /\ s \o t \in Seq(S) /\ Len(s \o t) = Len(s) + Len(t)
      /\ DOMAIN (s \o t) = 1 .. Len(s \o t)
      /\ \A i \in 1 .. Len(s) + Len(t) :
           (s \o t)[i] = IF i <= Len(s) THEN s[i] ELSE t[i - Len(s)]
  BY <1>1, LenProperties, ConcatProperties
<1>3. Range(s \o t) \subseteq S
  BY <1>2 DEF Range
<1>4. Range(s) \subseteq Range(s \o t)
  BY <1>2 DEF Range
<1>5. ASSUME NEW i \in 1 .. Len(t) PROVE t[i] \in Range(s \o t)
  <2>1. Len(s) + i \in 1 .. Len(s) + Len(t) /\ (s \o t)[Len(s) + i] = t[i]
    BY <1>2
  <2>. QED  BY <1>2, <2>1 DEF Range
<1>6. Range(t) \subseteq Range(s \o t)
  BY <1>2, <1>5 DEF Range
<1>7. ASSUME IsInjective(s), IsInjective(t), Range(s) \cap Range(t) = {}
      PROVE  IsInjective(s \o t)
  <2>. SUFFICES ASSUME NEW i \in 1 .. Len(s) + Len(t), NEW j \in 1 .. Len(s) + Len(t),
                       (s \o t)[i] = (s \o t)[j], i <= j
                PROVE  i = j
    BY <1>2 DEF IsInjective
  <2>1. CASE j <= Len(s)
    BY <1>2, <1>7, <2>1 DEF IsInjective
  <2>2. CASE i > Len(s)
    <3>1. i - Len(s) \in 1 .. Len(t) /\ j - Len(s) \in 1 .. Len(t) /\ t[i - Len(s)] = t[j - Len(s)]
      BY <1>2, <2>2
    <3>2. i - Len(s) = j - Len(s)
      BY <1>2, <1>7, <3>1 DEF IsInjective
    <3>. QED  BY <1>2, <3>2
  <2>3. CASE i <= Len(s) /\ j > Len(s)
    <3>1. i \in 1 .. Len(s) /\ j - Len(s) \in 1 .. Len(t) /\ s[i] = t[j - Len(s)]
      BY <1>2, <2>3
    <3>2. s[i] \in Range(s) /\ t[j - Len(s)] \in Range(t)
      BY <1>2, <3>1 DEF Range
    <3>. QED  BY <1>7, <3>1, <3>2
  <2>. QED  BY <1>2, <2>1, <2>2, <2>3
<1>. QED  BY <1>2, <1>3, <1>4, <1>6, <1>7 DEF IsSequence

\* Induction over the numbers, for a set of numbers.
LEMMA LeastOf ==
  ASSUME NEW T, T \subseteq Nat, T # {}
  PROVE  \E n \in T : \A m \in T : n <= m
<1>1. PICK n \in T : \A m \in T : ~(<<m, n>> \in OpToRel(<, Nat))
  BY NatLessThanWellFounded, WFMin
<1>2. \A m \in T : ~(m < n)
  BY <1>1 DEF OpToRel
<1>. QED  BY <1>2

LEMMA Induction ==
  ASSUME NEW T, 1 \in T, \A n \in Nat : n \in T => n + 1 \in T
  PROVE  \A n \in Nat : n >= 1 => n \in T
<1>. SUFFICES ASSUME NEW n \in Nat, n >= 1, n \notin T PROVE FALSE
  OBVIOUS
<1>. DEFINE U == {m \in Nat : m >= 1 /\ m \notin T}
<1>1. PICK m \in U : \A k \in U : m <= k
  <2>1. U \subseteq Nat /\ U # {}
    OBVIOUS
  <2>. QED  BY <2>1, LeastOf
<1>2. m - 1 \in Nat /\ m >= 1 /\ m \notin T /\ m # 1 /\ m - 1 \notin U
  BY <1>1
<1>3. m - 1 \in T
  BY <1>2
<1>. QED  BY <1>2, <1>3

\* What the flattening of ss[1] .. ss[n] is made of, as FlattenSeq builds it.
Flattens(f, ss, n) == f = [i \in 1 .. n |-> IF i = 1 THEN ss[i] ELSE f[i - 1] \o ss[i]]

LEMMA FlatteningExists ==
  ASSUME NEW ss
  PROVE  \A n \in Nat : n >= 1 => \E f : Flattens(f, ss, n)
<1>. DEFINE T == {n \in Nat : \E f : Flattens(f, ss, n)}
<1>1. 1 \in T
  <2>. DEFINE f == [i \in 1 .. 1 |-> ss[i]]
  <2>1. Flattens(f, ss, 1)
    BY DEF Flattens
  <2>. QED  BY <2>1
<1>2. ASSUME NEW n \in Nat, n \in T PROVE n + 1 \in T
  <2>1. CASE n = 0
    BY <1>1, <2>1
  <2>2. CASE n # 0
    <3>1. PICK f : Flattens(f, ss, n)
      BY <1>2
    <3>. DEFINE g == [i \in 1 .. n + 1 |-> IF i = n + 1 THEN f[n] \o ss[n + 1] ELSE f[i]]
    <3>2. \A i \in 1 .. n : f[i] = IF i = 1 THEN ss[i] ELSE f[i - 1] \o ss[i]
      BY <3>1 DEF Flattens
    <3>3. \A i \in 1 .. n + 1 : g[i] = IF i = 1 THEN ss[i] ELSE g[i - 1] \o ss[i]
      <4>. TAKE i \in 1 .. n + 1
      <4>1. CASE i = n + 1
        <5>1. i - 1 = n /\ n \in 1 .. n + 1 /\ i # 1 /\ n # n + 1
          BY <2>2, <4>1
        <5>2. g[n] = f[n] /\ g[i] = f[n] \o ss[n + 1]
          BY <4>1, <5>1
        <5>. QED  BY <4>1, <5>1, <5>2
      <4>2. CASE i # n + 1
        <5>1. i \in 1 .. n /\ (i # 1 => i - 1 \in 1 .. n + 1 /\ i - 1 # n + 1)
          BY <4>2
        <5>. QED  BY <4>2, <3>2, <5>1
      <4>. QED  BY <4>1, <4>2
    <3>4. Flattens(g, ss, n + 1)
      BY <3>3 DEF Flattens
    <3>. QED  BY <3>4
  <2>. QED  BY <2>1, <2>2
<1>3. \A n \in Nat : n >= 1 => n \in T
  <2>. HIDE DEF T
  <2>. QED  BY <1>1, <1>2, Induction
<1>. QED  BY <1>3

\* No element is in two of the parts, or twice in one.
Apart(ss) == \A j \in DOMAIN ss : /\ IsInjective(ss[j])
                                  /\ \A k \in DOMAIN ss : j # k => Range(ss[j]) \cap Range(ss[k]) = {}

\* Every element of a flattened sequence is an element of one of its parts, and
\* all of those are.
LEMMA Flattened ==
  ASSUME NEW ss, IsSequence(ss), \A j \in DOMAIN ss : IsSequence(ss[j])
  PROVE  /\ IsSequence(FlattenSeq(ss))
         /\ Range(FlattenSeq(ss)) = UNION {Range(ss[j]) : j \in DOMAIN ss}
         /\ Apart(ss) => IsInjective(FlattenSeq(ss))
<1>. DEFINE n == Len(ss)
<1>1. n \in Nat /\ DOMAIN ss = 1 .. n
  BY Sequenced
<1>2. CASE n = 0
  <2>1. FlattenSeq(ss) = ss /\ DOMAIN ss = {}
    BY <1>1, <1>2 DEF FlattenSeq
  <2>. QED  BY <2>1 DEF Range, IsInjective
<1>3. CASE n # 0
  <2>. DEFINE f == CHOOSE g : Flattens(g, ss, n)
  <2>1. FlattenSeq(ss) = f[n]
    BY <1>3 DEF FlattenSeq, Flattens
  <2>2. Flattens(f, ss, n)
    BY <1>1, <1>3, FlatteningExists
  <2>. HIDE DEF f
  <2>3. \A i \in 1 .. n : f[i] = IF i = 1 THEN ss[i] ELSE f[i - 1] \o ss[i]
    BY <2>2 DEF Flattens
  <2>. DEFINE Good(i) == /\ IsSequence(f[i]) /\ Range(f[i]) = UNION {Range(ss[j]) : j \in 1 .. i}
                         /\ Apart(ss) => IsInjective(f[i])
              T == {i \in Nat : i <= n => Good(i)}
  <2>4. 1 \in T
    <3>1. f[1] = ss[1] /\ 1 .. 1 = {1} /\ IsSequence(ss[1])
      BY <1>1, <1>3, <2>3
    <3>2. Apart(ss) => IsInjective(f[1])
      BY <1>1, <1>3, <3>1 DEF Apart
    <3>. QED  BY <3>1, <3>2
  <2>5. ASSUME NEW i \in Nat, i \in T PROVE i + 1 \in T
    <3>. SUFFICES ASSUME i + 1 <= n PROVE Good(i + 1)
      OBVIOUS
    <3>0. CASE i = 0
      BY <2>4, <3>0, <1>1
    <3>1. CASE i # 0
      <4>1. f[i + 1] = f[i] \o ss[i + 1] /\ Good(i) /\ IsSequence(ss[i + 1])
        <5>1. i + 1 \in 1 .. n /\ i + 1 # 1 /\ (i + 1) - 1 = i /\ i <= n
          BY <1>1, <3>1
        <5>. QED  BY <1>1, <2>3, <2>5, <5>1
      <4>2. IsSequence(f[i + 1]) /\ Range(f[i + 1]) = Range(f[i]) \cup Range(ss[i + 1])
        BY <4>1, Joined
      <4>3. 1 .. i + 1 = (1 .. i) \cup {i + 1}
        OBVIOUS
      <4>4. ASSUME Apart(ss) PROVE IsInjective(f[i + 1])
        <5>1. /\ i + 1 \in DOMAIN ss
              /\ \A j \in 1 .. i : j \in DOMAIN ss /\ j # i + 1
          BY <1>1
        <5>2. IsInjective(ss[i + 1]) /\ \A j \in 1 .. i : Range(ss[j]) \cap Range(ss[i + 1]) = {}
          BY <4>4, <5>1 DEF Apart
        <5>3. Range(f[i]) \cap Range(ss[i + 1]) = {}
          BY <4>1, <5>2
        <5>. QED  BY <4>1, <4>4, <5>2, <5>3, Joined
      <4>. QED  BY <4>1, <4>2, <4>3, <4>4
    <3>. QED  BY <3>0, <3>1
  <2>6. Good(n)
    <3>1. \A i \in Nat : i >= 1 => i \in T
      <4>. HIDE DEF T
      <4>. QED  BY <2>4, <2>5, Induction
    <3>2. n \in T
      BY <1>1, <1>3, <3>1
    <3>. QED  BY <3>2, <1>1
  <2>. QED  BY <1>1, <2>1, <2>6
<1>. QED  BY <1>2, <1>3

LEMMA ChosenElements ==
  ASSUME NEW seq, IsSequence(seq), NEW S
  PROVE  /\ IsSequence(Chosen(seq, S)) /\ Range(Chosen(seq, S)) = Range(seq) \cap S
         /\ IsInjective(seq) => IsInjective(Chosen(seq, S))
<1>. DEFINE ss == [j \in DOMAIN seq |-> IF seq[j] \in S THEN <<seq[j]>> ELSE <<>>]
<1>1. Len(seq) \in Nat /\ DOMAIN seq = 1 .. Len(seq)
  BY Sequenced
<1>2. IsSequence(ss)
  BY <1>1, Listed
<1>3. \A j \in DOMAIN ss : /\ IsSequence(ss[j])
                           /\ Range(ss[j]) = IF seq[j] \in S THEN {seq[j]} ELSE {}
  BY Single
<1>4. /\ IsSequence(FlattenSeq(ss)) /\ Range(FlattenSeq(ss)) = UNION {Range(ss[j]) : j \in DOMAIN ss}
      /\ Apart(ss) => IsInjective(FlattenSeq(ss))
  <2>. HIDE DEF ss
  <2>. QED  BY <1>2, <1>3, Flattened
<1>5. UNION {Range(ss[j]) : j \in DOMAIN ss} = Range(seq) \cap S
  <2>1. Range(seq) = {seq[j] : j \in DOMAIN seq} /\ DOMAIN ss = DOMAIN seq
    BY DEF Range
  <2>. HIDE DEF ss
  <2>2. \A x : x \in UNION {Range(ss[j]) : j \in DOMAIN ss} <=> x \in Range(seq) \cap S
    BY <1>3, <2>1
  <2>. QED  BY <2>2
<1>6. Chosen(seq, S) = FlattenSeq(ss)
  BY DEF Chosen
<1>7. IsInjective(seq) => Apart(ss)
  <2>1. \A j \in DOMAIN ss : IsInjective(ss[j])
    BY DEF IsInjective
  <2>2. ASSUME IsInjective(seq), NEW j \in DOMAIN ss, NEW k \in DOMAIN ss, j # k
        PROVE  Range(ss[j]) \cap Range(ss[k]) = {}
    <3>1. seq[j] # seq[k]
      BY <2>2 DEF IsInjective
    <3>2. Range(ss[j]) \subseteq {seq[j]} /\ Range(ss[k]) \subseteq {seq[k]}
      BY <1>3
    <3>. HIDE DEF ss
    <3>. QED  BY <3>1, <3>2
  <2>. HIDE DEF ss
  <2>. QED  BY <2>1, <2>2 DEF Apart
<1>. QED  BY <1>4, <1>5, <1>6, <1>7

-----------------------------------------------------------------------------
(* Plans: whatever the evidence and the readings, a plan is a sequence of  *)
(* calls that are about the kind of record they write, not empty, and it   *)
(* agrees with itself unless it words an object in two ways.               *)

Kinds == [put |-> "object", correct |-> "object", bind |-> "link", role |-> "role",
          assign |-> "cell", effect |-> "effect", attend |-> "attention", record |-> "event",
          move |-> "attention", criterion |-> "criterion", mechanism |-> "mechanism",
          attribute |-> "attribution"]

Proper(call) == call.op \in DOMAIN Kinds /\ call.row[1] = Kinds[call.op]
Planned(s)   == IsSequence(s) /\ \A call \in Range(s) : Proper(call)

LEMMA CallsAreProper ==
  ASSUME NEW k, NEW i, NEW x
  PROVE  /\ Proper(Put(k, x)) /\ Proper(CorrectTo(k, x)) /\ Proper(Bind(k, i, x))
         /\ Proper(Role(i, x)) /\ Proper(Record(k, x))
BY DEF Proper, Kinds, Put, CorrectTo, Bind, Role, Record

LEMMA PlannedOne ==
  ASSUME NEW x, Proper(x)
  PROVE  Planned(<<x>>)
BY Single DEF Planned

\* The call is made for the group c: its record has the key of the group, and
\* what it writes there is a function of the group.
Ground(c, ev, d) ==
  CASE d = "unknown" -> Explain(c)
    [] d = "actor"   -> Reading[c.text].subject
    [] OTHER         -> OpenProposals(ev, Reading[c.text].sufficient)
Raised(c, d) == IF d = "unknown" THEN c.key ELSE <<"conflict", c.key>>
Made(call, c, ev, d) ==
  \/ /\ call.op \in {"put", "correct"}
     /\ call.row = <<"object", c.key>> /\ call.text = c.text
  \/ /\ call.op = "bind" /\ call.text = "supports"
     /\ \E i : call.row = <<"link", c.key, i>>
  \/ /\ call.op = "role" /\ call.text = "supporting"
     /\ \E i : call.row = <<"role", i>>
  \/ /\ call.op = "assign" /\ call.text = Letter(c.text)
     /\ \E x : call.row = <<"cell", c.key, x>>
  \/ /\ call.op = "effect"
     /\ \E i : call.row = <<"effect", c.key, i>> /\ call.text = Effect(c.text, ev[i].says)
  \/ /\ call.op = "attend"
     /\ call.row = <<"attention", Raised(c, d)>> /\ call.text = Ground(c, ev, d)

LEMMA CallsAreMade ==
  ASSUME NEW c, NEW ev, NEW d, NEW i
  PROVE  /\ Made(Put(c.key, c.text), c, ev, d) /\ Made(CorrectTo(c.key, c.text), c, ev, d)
         /\ Made(Bind(c.key, i, "supports"), c, ev, d) /\ Made(Role(i, "supporting"), c, ev, d)
         /\ Made(Assign(c.key, i, Letter(c.text)), c, ev, d)
         /\ Made(Reach(c.key, i, Effect(c.text, ev[i].says)), c, ev, d)
         /\ Made(Attend(Raised(c, d), Ground(c, ev, d)), c, ev, d)
BY DEF Made, Put, CorrectTo, Bind, Role, Assign, Reach, Attend

\* A sequence of calls, each made for one of the groups cs.
MadeFor(s, cs, ev, d) ==
  IsSequence(s) /\ \A call \in Range(s) : \E c \in cs : Made(call, c, ev, d)

LEMMA MadeIsPlanned ==
  ASSUME NEW s, NEW cs, NEW ev, NEW d, MadeFor(s, cs, ev, d)
  PROVE  Planned(s)
BY DEF MadeFor, Made, Planned, Proper, Kinds

LEMMA MadeJoined ==
  ASSUME NEW cs, NEW ev, NEW d, NEW s, MadeFor(s, cs, ev, d), NEW t, MadeFor(t, cs, ev, d)
  PROVE  MadeFor(s \o t, cs, ev, d) /\ Range(s \o t) = Range(s) \cup Range(t)
BY Joined DEF MadeFor

LEMMA MadeOne ==
  ASSUME NEW cs, NEW ev, NEW d, NEW x
  PROVE  /\ MadeFor(<<>>, cs, ev, d)
         /\ (\E c \in cs : Made(x, c, ev, d)) => MadeFor(<<x>>, cs, ev, d)
BY Single DEF MadeFor

LEMMA MadeListed ==
  ASSUME NEW cs, NEW ev, NEW d, NEW n \in Nat, NEW s, s = [j \in 1 .. n |-> s[j]],
         \A j \in 1 .. n : \E c \in cs : Made(s[j], c, ev, d)
  PROVE  MadeFor(s, cs, ev, d)
BY Listed DEF MadeFor, Range

\* One sequence of calls for each element of seq, one after the other.
LEMMA MadeChained ==
  ASSUME NEW cs, NEW ev, NEW d, NEW seq, IsSequence(seq),
         NEW ss, ss = [j \in DOMAIN seq |-> ss[j]],
         \A j \in DOMAIN seq : MadeFor(ss[j], cs, ev, d)
  PROVE  /\ MadeFor(FlattenSeq(ss), cs, ev, d)
         /\ \A j \in DOMAIN seq : Range(ss[j]) \subseteq Range(FlattenSeq(ss))
<1>1. Len(seq) \in Nat /\ DOMAIN seq = 1 .. Len(seq)
  BY Sequenced
<1>2. IsSequence(ss) /\ DOMAIN ss = DOMAIN seq
  BY <1>1, Listed
<1>3. /\ IsSequence(FlattenSeq(ss))
      /\ Range(FlattenSeq(ss)) = UNION {Range(ss[j]) : j \in DOMAIN ss}
  BY <1>2, Flattened DEF MadeFor
<1>. QED  BY <1>2, <1>3 DEF MadeFor

\* Candidates, clusters and what is chosen of them have sequences of members.
Groups(cs) == IsSequence(cs) /\ \A c \in Range(cs) : IsSequence(c.members)

LEMMA GroupsChosen ==
  ASSUME NEW cs, Groups(cs), NEW S
  PROVE  Groups(Chosen(cs, S)) /\ Range(Chosen(cs, S)) \subseteq Range(cs)
BY ChosenElements DEF Groups

LEMMA ItemsAreSequences ==
  ASSUME NEW S
  PROVE  IsSequence(Chosen(ItemOrder, S)) /\ IsSequence(Chosen(KeyOrder, S))
BY PlansAssumption, ChosenElements DEF IsSequence

LEMMA CandidatesAreGroups ==
  ASSUME NEW ev, NEW d
  PROVE  Groups(Candidates(ev, d))
<1>. DEFINE spoken == Chosen(KeyOrder, {k \in Range(KeyOrder) : MembersOf(ev, d, k) # <<>>})
            of(k) == MembersOf(ev, d, k)
            cs == [j \in DOMAIN spoken |->
                    [key |-> spoken[j], members |-> of(spoken[j]),
                     text |-> ev[Head(of(spoken[j]))].says,
                     confirmed |-> \E i \in Range(of(spoken[j])) : ev[i].life = "validated"]]
<1>1. Len(spoken) \in Nat /\ DOMAIN spoken = 1 .. Len(spoken)
  BY ItemsAreSequences, Sequenced
<1>2. \A k : IsSequence(of(k))
  BY ItemsAreSequences DEF MembersOf
<1>. HIDE DEF spoken, of
<1>3. IsSequence(cs)
  BY <1>1, Listed
<1>4. \A j \in DOMAIN cs : IsSequence(cs[j].members)
  BY <1>2
<1>5. Candidates(ev, d) = cs
  BY DEF Candidates, spoken, of
<1>6. Groups(cs)
  BY <1>3, <1>4 DEF Groups, Range
<1>. QED  BY <1>5, <1>6

LEMMA ClustersAreGroups ==
  ASSUME NEW ev, NEW items, IsSequence(items), NEW compared
  PROVE  Groups(Clusters(ev, items, compared))
<1>. DEFINE heads == Chosen(items, {i \in Range(items) : Head(ClusterOf(ev, items, i, compared)) = i})
            of(j) == ClusterOf(ev, items, heads[j], compared)
            cs == [j \in DOMAIN heads |->
                    [key |-> Key[ev[heads[j]].says], members |-> of(j),
                     text |-> ev[heads[j]].says]]
<1>1. Len(heads) \in Nat /\ DOMAIN heads = 1 .. Len(heads)
  BY ChosenElements, Sequenced
<1>2. \A j : IsSequence(of(j))
  BY ChosenElements DEF ClusterOf
<1>. HIDE DEF heads, of
<1>3. IsSequence(cs)
  BY <1>1, Listed
<1>4. \A j \in DOMAIN cs : IsSequence(cs[j].members)
  BY <1>2
<1>5. Clusters(ev, items, compared) = cs
  BY DEF Clusters, heads, of
<1>6. Groups(cs)
  BY <1>3, <1>4 DEF Groups, Range
<1>. QED  BY <1>5, <1>6

\* Every group is put and bound, and perhaps settled in between.
LEMMA BoundIsMade ==
  ASSUME NEW cs, NEW ev, NEW d, NEW c \in cs, IsSequence(c.members), NEW x
  PROVE  /\ MadeFor(Bound(c), cs, ev, d)
         /\ MadeFor(<<Put(c.key, c.text)>>, cs, ev, d)
         /\ MadeFor(PutAndBind(c), cs, ev, d) /\ Put(c.key, c.text) \in Range(PutAndBind(c))
         /\ MadeFor(SettleAndBind(c, x), cs, ev, d) /\ Put(c.key, c.text) \in Range(SettleAndBind(c, x))
<1>1. Len(c.members) \in Nat /\ DOMAIN c.members = 1 .. Len(c.members)
  BY Sequenced
<1>2. MadeFor(Bound(c), cs, ev, d)
  <2>1. PICK s : s = Bound(c)
    OBVIOUS
  <2>2. /\ s = [j \in 1 .. Len(c.members) |-> s[j]]
        /\ \A j \in 1 .. Len(c.members) : s[j] = Bind(c.key, c.members[j], "supports")
    BY <1>1, <2>1 DEF Bound
  <2>3. \A j \in 1 .. Len(c.members) : Made(s[j], c, ev, d)
    BY <2>2, CallsAreMade
  <2>. QED  BY <1>1, <2>1, <2>2, <2>3, MadeListed
<1>3. /\ MadeFor(<<Put(c.key, c.text)>>, cs, ev, d)
      /\ Range(<<Put(c.key, c.text)>>) = {Put(c.key, c.text)}
  BY MadeOne, CallsAreMade, Single
<1>4. MadeFor(IF x THEN <<CorrectTo(c.key, c.text)>> ELSE <<>>, cs, ev, d)
  BY MadeOne, CallsAreMade
<1>5. MadeFor(PutAndBind(c), cs, ev, d) /\ Put(c.key, c.text) \in Range(PutAndBind(c))
  BY <1>2, <1>3, MadeJoined DEF PutAndBind
<1>6. PICK settling : settling = IF x THEN <<CorrectTo(c.key, c.text)>> ELSE <<>>
  OBVIOUS
<1>7. MadeFor(<<Put(c.key, c.text)>> \o settling, cs, ev, d)
      /\ Put(c.key, c.text) \in Range(<<Put(c.key, c.text)>> \o settling)
  BY <1>3, <1>4, <1>6, MadeJoined
<1>8. SettleAndBind(c, x) = (<<Put(c.key, c.text)>> \o settling) \o Bound(c)
  BY <1>6 DEF SettleAndBind
<1>9. MadeFor(SettleAndBind(c, x), cs, ev, d) /\ Put(c.key, c.text) \in Range(SettleAndBind(c, x))
  BY <1>2, <1>7, <1>8, MadeJoined
<1>. QED  BY <1>2, <1>3, <1>5, <1>9

\* All of the groups are put.
AllPut(q, cs) == \A c \in cs : Put(c.key, c.text) \in Range(q)

LEMMA AllPutJoined ==
  ASSUME NEW cs, NEW ev, NEW d, NEW q, MadeFor(q, cs, ev, d), AllPut(q, cs),
         NEW t, MadeFor(t, cs, ev, d)
  PROVE  MadeFor(q \o t, cs, ev, d) /\ AllPut(q \o t, cs)
BY MadeJoined DEF AllPut

LEMMA EachGroupIsMade ==
  ASSUME NEW ev, NEW d, NEW seq, Groups(seq), NEW ss, ss = [j \in DOMAIN seq |-> ss[j]],
         \A j \in DOMAIN seq : /\ MadeFor(ss[j], Range(seq), ev, d)
                               /\ Put(seq[j].key, seq[j].text) \in Range(ss[j])
  PROVE  MadeFor(FlattenSeq(ss), Range(seq), ev, d) /\ AllPut(FlattenSeq(ss), Range(seq))
<1>1. /\ MadeFor(FlattenSeq(ss), Range(seq), ev, d)
      /\ \A j \in DOMAIN seq : Range(ss[j]) \subseteq Range(FlattenSeq(ss))
  BY MadeChained DEF Groups
<1>. QED  BY <1>1 DEF AllPut, Range

LEMMA EachIsBound ==
  ASSUME NEW ev, NEW d, NEW seq, Groups(seq)
  PROVE  /\ MadeFor(Chain(seq, PutAndBind), Range(seq), ev, d)
         /\ AllPut(Chain(seq, PutAndBind), Range(seq))
<1>. DEFINE ss == [j \in DOMAIN seq |-> PutAndBind(seq[j])]
<1>1. \A j \in DOMAIN seq : seq[j] \in Range(seq) /\ IsSequence(seq[j].members)
  BY DEF Groups, Range
<1>2. \A j \in DOMAIN seq : /\ MadeFor(ss[j], Range(seq), ev, d)
                            /\ Put(seq[j].key, seq[j].text) \in Range(ss[j])
  BY <1>1, BoundIsMade
<1>3. MadeFor(FlattenSeq(ss), Range(seq), ev, d) /\ AllPut(FlattenSeq(ss), Range(seq))
  <2>. HIDE DEF ss
  <2>1. ss = [j \in DOMAIN seq |-> ss[j]]
    BY DEF ss
  <2>. QED  BY <1>2, <2>1, EachGroupIsMade
<1>. QED  BY <1>3 DEF Chain

LEMMA EachIsSettled ==
  ASSUME NEW ev, NEW d, NEW seq, Groups(seq), NEW settled
  PROVE  LET ss == [j \in DOMAIN seq |-> SettleAndBind(seq[j], settled[j])]
         IN MadeFor(FlattenSeq(ss), Range(seq), ev, d) /\ AllPut(FlattenSeq(ss), Range(seq))
<1>. DEFINE ss == [j \in DOMAIN seq |-> SettleAndBind(seq[j], settled[j])]
<1>1. \A j \in DOMAIN seq : seq[j] \in Range(seq) /\ IsSequence(seq[j].members)
  BY DEF Groups, Range
<1>2. \A j \in DOMAIN seq : /\ MadeFor(ss[j], Range(seq), ev, d)
                            /\ Put(seq[j].key, seq[j].text) \in Range(ss[j])
  BY <1>1, BoundIsMade
<1>. HIDE DEF ss
<1>3. ss = [j \in DOMAIN seq |-> ss[j]]
  BY DEF ss
<1>4. MadeFor(FlattenSeq(ss), Range(seq), ev, d) /\ AllPut(FlattenSeq(ss), Range(seq))
  BY <1>2, <1>3, EachGroupIsMade
<1>. QED  BY <1>4 DEF ss

\* One more call for some of the groups.
LEMMA EachCallIsMade ==
  ASSUME NEW cs, NEW ev, NEW d, NEW seq, IsSequence(seq), Range(seq) \subseteq cs,
         NEW ss, ss = [j \in DOMAIN seq |-> ss[j]],
         \A j \in DOMAIN seq : \E call : Made(call, seq[j], ev, d) /\ ss[j] = <<call>>
  PROVE  MadeFor(FlattenSeq(ss), cs, ev, d)
<1>1. \A j \in DOMAIN seq : seq[j] \in cs
  BY DEF Range
<1>2. \A j \in DOMAIN seq : MadeFor(ss[j], cs, ev, d)
  BY <1>1, MadeOne
<1>. QED  BY <1>2, MadeChained

\* A plan ends with the event of its run.
Ended(p, cs, ev, d) ==
  \E q, key, x : MadeFor(q, cs, ev, d) /\ AllPut(q, cs) /\ p = q \o <<Record(key, x)>>

\* The calls of a plan on one record agree about what it is to say, unless the
\* plan words an object in two ways.
PlanOps == {"put", "correct", "bind", "role", "assign", "effect", "attend", "record"}
Agreeing(p) == \A i, j \in DOMAIN p : p[i].row = p[j].row => p[i].text = p[j].text
Fits(p) == (\A i \in DOMAIN p : p[i].op \in PlanOps) /\ (Reworded(p) \/ Agreeing(p))

LEMMA GroundsTell ==
  ASSUME NEW ev, NEW d, NEW c, NEW e, c.text = e.text, d = "unknown" => Explain(c) = Explain(e)
  PROVE  Ground(c, ev, d) = Ground(e, ev, d)
BY DEF Ground

LEMMA MadeTells ==
  ASSUME NEW ev, NEW d, NEW a, NEW b, NEW c, NEW e, Made(a, c, ev, d), Made(b, e, ev, d),
         a.row = b.row, c.key = e.key => c.text = e.text /\ Ground(c, ev, d) = Ground(e, ev, d)
  PROVE  a.text = b.text
<1>1. a.row[1] = b.row[1] /\ a.row[2] = b.row[2] /\ a.row[3] = b.row[3]
  OBVIOUS
<1>2. CASE a.row[1] \in {"object", "link", "role", "cell"}
  BY <1>1, <1>2 DEF Made
<1>3. CASE a.row[1] = "effect"
  <2>1. /\ a.row[2] = c.key /\ a.text = Effect(c.text, ev[a.row[3]].says)
        /\ b.row[2] = e.key /\ b.text = Effect(e.text, ev[b.row[3]].says)
    BY <1>1, <1>3 DEF Made
  <2>. QED  BY <1>1, <2>1
<1>4. CASE a.row[1] = "attention"
  <2>1. /\ a.row[2] = Raised(c, d) /\ a.text = Ground(c, ev, d)
        /\ b.row[2] = Raised(e, d) /\ b.text = Ground(e, ev, d)
    BY <1>1, <1>4 DEF Made
  <2>2. Raised(c, d) = Raised(e, d) => c.key = e.key
    BY DEF Raised
  <2>. QED  BY <1>1, <2>1, <2>2
<1>. QED  BY <1>2, <1>3, <1>4 DEF Made

LEMMA EndedFits ==
  ASSUME NEW p, NEW cs, NEW ev, NEW d, Ended(p, cs, ev, d),
         d = "unknown" => \A c, e \in cs : c.text = e.text => Explain(c) = Explain(e)
  PROVE  Planned(p) /\ p # <<>> /\ Fits(p)
<1>. PICK q, key, x : MadeFor(q, cs, ev, d) /\ AllPut(q, cs) /\ p = q \o <<Record(key, x)>>
  BY DEF Ended
<1>. PICK last : last = Record(key, x)
  OBVIOUS
<1>0. last.row = <<"event", key>> /\ last.op = "record" /\ Proper(last)
  BY CallsAreProper DEF Record
<1>1. Planned(q) /\ IsSequence(<<last>>) /\ Range(<<last>>) = {last}
  BY MadeIsPlanned, Single
<1>2. IsSequence(p) /\ Range(p) = Range(q) \cup {last}
  BY <1>1, Joined DEF Planned
<1>3. Planned(p) /\ p # <<>>
  BY <1>0, <1>1, <1>2, Single DEF Planned
<1>4. \A call \in Range(p) : call = last \/ \E c \in cs : Made(call, c, ev, d)
  BY <1>2 DEF MadeFor
<1>5. \A i \in DOMAIN p : p[i] \in Range(p)
  BY DEF Range
<1>6. \A i \in DOMAIN p : p[i].op \in PlanOps
  BY <1>0, <1>4, <1>5 DEF PlanOps, Made
<1>7. ASSUME ~Reworded(p), NEW i \in DOMAIN p, NEW j \in DOMAIN p, p[i].row = p[j].row
      PROVE  p[i].text = p[j].text
  <2>1. ASSUME NEW c \in cs, NEW e \in cs, c.key = e.key
        PROVE  c.text = e.text
    <3>1. Put(c.key, c.text) \in Range(p) /\ Put(e.key, e.text) \in Range(p)
      BY <1>2 DEF AllPut
    <3>2. PICK m \in DOMAIN p, n \in DOMAIN p : p[m] = Put(c.key, c.text) /\ p[n] = Put(e.key, e.text)
      BY <3>1 DEF Range
    <3>3. /\ p[m].op = "put" /\ p[n].op = "put" /\ p[m].row = p[n].row
          /\ p[m].text = c.text /\ p[n].text = e.text
      BY <2>1, <3>2 DEF Put
    <3>. QED  BY <1>7, <3>3 DEF Reworded
  <2>2. CASE \E c, e \in cs : Made(p[i], c, ev, d) /\ Made(p[j], e, ev, d)
    <3>1. PICK c \in cs, e \in cs : Made(p[i], c, ev, d) /\ Made(p[j], e, ev, d)
      BY <2>2
    <3>2. c.key = e.key => c.text = e.text /\ Ground(c, ev, d) = Ground(e, ev, d)
      BY <2>1, GroundsTell
    <3>. QED  BY <1>7, <3>1, <3>2, MadeTells
  <2>3. CASE p[i] = last \/ p[j] = last
    <3>1. p[i].row[1] = "event" /\ p[j].row[1] = "event"
      BY <1>0, <1>7, <2>3
    <3>2. p[i] = last /\ p[j] = last
      BY <1>4, <1>5, <3>1 DEF Made
    <3>. QED  BY <3>2
  <2>. QED  BY <1>4, <1>5, <2>2, <2>3
<1>. QED  BY <1>3, <1>6, <1>7 DEF Fits, Agreeing

LEMMA GoalsAreMade ==
  ASSUME NEW ev, NEW ctx
  PROVE  \E cs : Ended(PlanGoals(ev, ctx), cs, ev, "goal")
<1>1. PICK items : items = LiveItems(ev, "goal")
  OBVIOUS
<1>2. PICK all : all = Clusters(ev, items, ctx.compared)
  OBVIOUS
<1>3. PICK promoted : promoted = Chosen(all, {c \in Range(all) : Promoted(c, ctx)})
  OBVIOUS
<1>4. Groups(promoted)
  BY <1>1, <1>2, <1>3, ItemsAreSequences, ClustersAreGroups, GroupsChosen DEF LiveItems
<1>. DEFINE supporting(c) == [j \in 1 .. Len(c.members) - 1 |-> Role(c.members[j + 1], "supporting")]
            asked(c) == <<Put(c.key, c.text)>> \o Bound(c) \o supporting(c)
            ss == [j \in DOMAIN promoted |-> asked(promoted[j])]
<1>5. ASSUME NEW c \in Range(promoted), IsSequence(c.members)
      PROVE  /\ MadeFor(asked(c), Range(promoted), ev, "goal")
             /\ Put(c.key, c.text) \in Range(asked(c))
  <2>1. MadeFor(supporting(c), Range(promoted), ev, "goal")
    <3>1. Len(c.members) \in Nat
      BY <1>5, Sequenced
    <3>2. \A j \in 1 .. Len(c.members) - 1 : Made(supporting(c)[j], c, ev, "goal")
      BY CallsAreMade
    <3>3. CASE Len(c.members) = 0
      <4>1. PICK s : s = supporting(c)
        OBVIOUS
      <4>2. s = [j \in 1 .. 0 |-> s[j]] /\ \A j \in 1 .. 0 : FALSE
        BY <3>3, <4>1
      <4>. QED  BY <4>1, <4>2, MadeListed
    <3>4. CASE Len(c.members) # 0
      <4>1. Len(c.members) - 1 \in Nat
        BY <3>1, <3>4
      <4>. QED  BY <3>2, <4>1, MadeListed
    <3>. QED  BY <3>3, <3>4
  <2>. HIDE DEF supporting
  <2>2. /\ MadeFor(<<Put(c.key, c.text)>>, Range(promoted), ev, "goal")
        /\ MadeFor(Bound(c), Range(promoted), ev, "goal")
        /\ Range(<<Put(c.key, c.text)>>) = {Put(c.key, c.text)}
    BY <1>5, BoundIsMade, Single
  <2>3. /\ MadeFor(<<Put(c.key, c.text)>> \o Bound(c), Range(promoted), ev, "goal")
        /\ Put(c.key, c.text) \in Range(<<Put(c.key, c.text)>> \o Bound(c))
    BY <2>2, MadeJoined
  <2>. QED  BY <2>1, <2>3, MadeJoined
<1>. HIDE DEF asked
<1>6. \A j \in DOMAIN promoted : /\ MadeFor(ss[j], Range(promoted), ev, "goal")
                                 /\ Put(promoted[j].key, promoted[j].text) \in Range(ss[j])
  BY <1>4, <1>5 DEF Groups, Range
<1>7. MadeFor(FlattenSeq(ss), Range(promoted), ev, "goal") /\ AllPut(FlattenSeq(ss), Range(promoted))
  <2>. HIDE DEF ss
  <2>1. ss = [j \in DOMAIN promoted |-> ss[j]]
    BY DEF ss
  <2>. QED  BY <1>4, <1>6, <2>1, EachGroupIsMade
<1>8. \E key, x : PlanGoals(ev, ctx) = FlattenSeq(ss) \o <<Record(key, x)>>
  BY <1>1, <1>2, <1>3 DEF PlanGoals, Chain, asked
<1>. QED  BY <1>7, <1>8 DEF Ended

LEMMA ActorsAreMade ==
  ASSUME NEW ev, NEW ctx
  PROVE  \E cs : Ended(PlanActors(ev, ctx), cs, ev, "actor")
<1>1. PICK all : all = Candidates(ev, "actor")
  OBVIOUS
<1>2. PICK model : model = RoleModel(all)
  OBVIOUS
<1>3. Groups(all) /\ Groups(model.held) /\ Groups(model.torn)
      /\ Range(model.held) \subseteq Range(all) /\ Range(model.torn) \subseteq Range(all)
  <2>1. PICK claims : claims = Chosen(all, {c \in Range(all) : /\ Reading[c.text].subject # Nothing
                                                               /\ Reading[c.text].letter # Nothing})
    OBVIOUS
  <2>2. \E torn : model.held = Chosen(claims, Range(claims) \ torn) /\ model.torn = Chosen(claims, torn)
    BY <1>2, <2>1 DEF RoleModel
  <2>3. Groups(all) /\ Groups(claims) /\ Range(claims) \subseteq Range(all)
    BY <1>1, <2>1, CandidatesAreGroups, GroupsChosen
  <2>. QED  BY <2>2, <2>3, GroupsChosen
<1>. DEFINE assigned == [j \in DOMAIN model.held |->
              <<Assign(model.held[j].key, Reading[model.held[j].text].subject,
                       Letter(model.held[j].text))>>]
            contested == [j \in DOMAIN model.torn |->
              <<Attend(<<"conflict", model.torn[j].key>>, Reading[model.torn[j].text].subject)>>]
<1>4. \A j \in DOMAIN model.held : \E call : Made(call, model.held[j], ev, "actor") /\ assigned[j] = <<call>>
  BY CallsAreMade
<1>5. \A j \in DOMAIN model.torn : \E call : Made(call, model.torn[j], ev, "actor") /\ contested[j] = <<call>>
  <2>1. \A c : /\ Raised(c, "actor") = <<"conflict", c.key>>
               /\ Ground(c, ev, "actor") = Reading[c.text].subject
    BY DEF Raised, Ground
  <2>2. \A c : Made(Attend(Raised(c, "actor"), Ground(c, ev, "actor")), c, ev, "actor")
    BY CallsAreMade
  <2>. QED  BY <2>1, <2>2
<1>6. /\ assigned = [j \in DOMAIN model.held |-> assigned[j]]
      /\ contested = [j \in DOMAIN model.torn |-> contested[j]]
  OBVIOUS
<1>7. \E key, x : PlanActors(ev, ctx) =
        Chain(all, PutAndBind) \o FlattenSeq(assigned) \o FlattenSeq(contested) \o <<Record(key, x)>>
  <2>1. /\ FlattenSeq(assigned) = Chain(model.held, LAMBDA c :
              <<Assign(c.key, Reading[c.text].subject, Letter(c.text))>>)
        /\ FlattenSeq(contested) = Chain(model.torn, LAMBDA c :
              <<Attend(<<"conflict", c.key>>, Reading[c.text].subject)>>)
    BY DEF Chain
  <2>. QED  BY <1>1, <1>2, <2>1 DEF PlanActors, Chain
<1>. HIDE DEF assigned, contested
<1>8. /\ MadeFor(FlattenSeq(assigned), Range(all), ev, "actor")
      /\ MadeFor(FlattenSeq(contested), Range(all), ev, "actor")
  BY <1>3, <1>4, <1>5, <1>6, EachCallIsMade DEF Groups
<1>9. LET q == Chain(all, PutAndBind) \o FlattenSeq(assigned) \o FlattenSeq(contested)
      IN MadeFor(q, Range(all), ev, "actor") /\ AllPut(q, Range(all))
  <2>1. PICK bound : bound = Chain(all, PutAndBind)
    OBVIOUS
  <2>2. MadeFor(bound, Range(all), ev, "actor") /\ AllPut(bound, Range(all))
    BY <1>3, <2>1, EachIsBound
  <2>3. /\ MadeFor(bound \o FlattenSeq(assigned), Range(all), ev, "actor")
        /\ AllPut(bound \o FlattenSeq(assigned), Range(all))
    BY <1>8, <2>2, AllPutJoined
  <2>. QED  BY <1>8, <2>1, <2>3, AllPutJoined
<1>. QED  BY <1>7, <1>9 DEF Ended

LEMMA DecisionsAreMade ==
  ASSUME NEW ev, NEW ctx
  PROVE  \E cs : Ended(PlanDecisions(ev, ctx), cs, ev, "decision")
<1>1. PICK all : all = Candidates(ev, "decision")
  OBVIOUS
<1>2. PICK model : model = DecisionModel(ev, all)
  OBVIOUS
<1>3. Groups(all) /\ Groups(model.conflicts) /\ Range(model.conflicts) \subseteq Range(all)
  BY <1>1, <1>2, CandidatesAreGroups, GroupsChosen DEF DecisionModel
<1>. DEFINE settled == [j \in DOMAIN all |-> all[j] \in Range(model.settled)]
            ss == [j \in DOMAIN all |-> SettleAndBind(all[j], settled[j])]
            contested == [j \in DOMAIN model.conflicts |->
              <<Attend(<<"conflict", model.conflicts[j].key>>,
                       OpenProposals(ev, Reading[model.conflicts[j].text].sufficient))>>]
<1>4. \A j \in DOMAIN model.conflicts :
        \E call : Made(call, model.conflicts[j], ev, "decision") /\ contested[j] = <<call>>
  <2>1. \A c : /\ Raised(c, "decision") = <<"conflict", c.key>>
               /\ Ground(c, ev, "decision") = OpenProposals(ev, Reading[c.text].sufficient)
    BY DEF Raised, Ground
  <2>2. \A c : Made(Attend(Raised(c, "decision"), Ground(c, ev, "decision")), c, ev, "decision")
    BY CallsAreMade
  <2>. QED  BY <2>1, <2>2
<1>5. contested = [j \in DOMAIN model.conflicts |-> contested[j]]
  OBVIOUS
<1>6. \E key, x : PlanDecisions(ev, ctx) =
        FlattenSeq(ss) \o FlattenSeq(contested) \o <<Record(key, x)>>
  <2>1. ss = [j \in DOMAIN all |-> SettleAndBind(all[j], all[j] \in Range(model.settled))]
    OBVIOUS
  <2>. QED  BY <1>1, <1>2, <2>1 DEF PlanDecisions, Chain
<1>. HIDE DEF contested, settled
<1>7. MadeFor(FlattenSeq(contested), Range(all), ev, "decision")
  BY <1>3, <1>4, <1>5, EachCallIsMade DEF Groups
<1>8. MadeFor(FlattenSeq(ss), Range(all), ev, "decision") /\ AllPut(FlattenSeq(ss), Range(all))
  BY <1>3, EachIsSettled
<1>. HIDE DEF ss
<1>9. /\ MadeFor(FlattenSeq(ss) \o FlattenSeq(contested), Range(all), ev, "decision")
      /\ AllPut(FlattenSeq(ss) \o FlattenSeq(contested), Range(all))
  BY <1>7, <1>8, AllPutJoined
<1>. QED  BY <1>6, <1>9 DEF Ended

LEMMA AssumptionsAreMade ==
  ASSUME NEW ev, NEW ctx
  PROVE  \E cs : Ended(PlanAssumptions(ev, ctx), cs, ev, "assumption")
<1>1. PICK all : all = Candidates(ev, "assumption")
  OBVIOUS
<1>2. PICK model : model = AssumptionModel(ev, all)
  OBVIOUS
<1>3. Groups(model.assumed)
  BY <1>1, <1>2, CandidatesAreGroups, GroupsChosen DEF AssumptionModel
<1>. DEFINE settled == [j \in DOMAIN model.assumed |-> model.assumed[j].confirmed]
            ss == [j \in DOMAIN model.assumed |-> SettleAndBind(model.assumed[j], settled[j])]
<1>4. \E key, x : PlanAssumptions(ev, ctx) = FlattenSeq(ss) \o <<Record(key, x)>>
  <2>1. ss = [j \in DOMAIN model.assumed |->
               SettleAndBind(model.assumed[j], model.assumed[j].confirmed)]
    OBVIOUS
  <2>. QED  BY <1>1, <1>2, <2>1 DEF PlanAssumptions, Chain
<1>. HIDE DEF settled
<1>5. /\ MadeFor(FlattenSeq(ss), Range(model.assumed), ev, "assumption")
      /\ AllPut(FlattenSeq(ss), Range(model.assumed))
  BY <1>3, EachIsSettled
<1>. QED  BY <1>4, <1>5 DEF Ended

LEMMA ConstraintsAreMade ==
  ASSUME NEW ev, NEW ctx
  PROVE  \E cs : Ended(PlanConstraints(ev, ctx), cs, ev, "constraint")
<1>1. PICK all : all = Candidates(ev, "constraint")
  OBVIOUS
<1>2. PICK accepted : accepted = Chosen(all, {c \in Range(all) : c.confirmed})
  OBVIOUS
<1>3. Groups(all) /\ Groups(accepted) /\ Range(accepted) \subseteq Range(all)
  BY <1>1, <1>2, CandidatesAreGroups, GroupsChosen
<1>4. ASSUME NEW c \in Range(all) PROVE MadeFor(EffectsOf(ev, c), Range(all), ev, "constraint")
  <2>1. PICK reached : reached = Chosen(OpenItems(ev),
                                   {i \in Item : Effect(c.text, ev[i].says) # Nothing})
    OBVIOUS
  <2>2. IsSequence(reached)
    BY <2>1, ItemsAreSequences, ChosenElements DEF OpenItems
  <2>3. Len(reached) \in Nat /\ DOMAIN reached = 1 .. Len(reached)
    BY <2>2, Sequenced
  <2>4. PICK s : /\ s = EffectsOf(ev, c)
                 /\ s = [j \in 1 .. Len(reached) |->
                          Reach(c.key, reached[j], Effect(c.text, ev[reached[j]].says))]
    BY <2>1, <2>3 DEF EffectsOf
  <2>5. ASSUME NEW j \in 1 .. Len(reached) PROVE Made(s[j], c, ev, "constraint")
    <3>1. PICK i : i = reached[j]
      OBVIOUS
    <3>2. s[j] = Reach(c.key, i, Effect(c.text, ev[i].says))
      BY <2>4, <3>1
    <3>. QED  BY <3>2, CallsAreMade
  <2>6. s = [j \in 1 .. Len(reached) |-> s[j]]
    BY <2>4
  <2>. QED  BY <2>3, <2>4, <2>5, <2>6, MadeListed
<1>. DEFINE ss == [j \in DOMAIN accepted |-> EffectsOf(ev, accepted[j])]
<1>5. \A j \in DOMAIN accepted : MadeFor(ss[j], Range(all), ev, "constraint")
  BY <1>3, <1>4 DEF Range
<1>6. ss = [j \in DOMAIN accepted |-> ss[j]]
  OBVIOUS
<1>7. \E key, x : PlanConstraints(ev, ctx) =
        Chain(all, PutAndBind) \o FlattenSeq(ss) \o <<Record(key, x)>>
  <2>1. FlattenSeq(ss) = Chain(accepted, LAMBDA c : EffectsOf(ev, c))
    BY DEF Chain
  <2>. QED  BY <1>1, <1>2, <2>1 DEF PlanConstraints, Chain
<1>. HIDE DEF ss
<1>8. MadeFor(FlattenSeq(ss), Range(all), ev, "constraint")
  BY <1>3, <1>5, <1>6, MadeChained DEF Groups
<1>9. LET q == Chain(all, PutAndBind) \o FlattenSeq(ss)
      IN MadeFor(q, Range(all), ev, "constraint") /\ AllPut(q, Range(all))
  <2>1. PICK bound : bound = Chain(all, PutAndBind)
    OBVIOUS
  <2>2. MadeFor(bound, Range(all), ev, "constraint") /\ AllPut(bound, Range(all))
    BY <1>3, <2>1, EachIsBound
  <2>. QED  BY <1>8, <2>1, <2>2, AllPutJoined
<1>. QED  BY <1>7, <1>9 DEF Ended

LEMMA RequirementsAndRulesAreMade ==
  ASSUME NEW ev, NEW ctx
  PROVE  /\ \E cs : Ended(PlanRequirements(ev, ctx), cs, ev, "requirement")
         /\ \E cs : Ended(PlanRules(ev, ctx), cs, ev, "rule")
<1>1. \E cs : Ended(PlanRequirements(ev, ctx), cs, ev, "requirement")
  <2>1. PICK all : all = Candidates(ev, "requirement")
    OBVIOUS
  <2>2. PICK model : model = RequirementModel(all, ctx.criteria)
    OBVIOUS
  <2>3. Groups(model.required)
    BY <2>1, <2>2, CandidatesAreGroups, GroupsChosen DEF RequirementModel
  <2>4. PICK bound : bound = Chain(model.required, PutAndBind)
    OBVIOUS
  <2>5. /\ MadeFor(bound, Range(model.required), ev, "requirement")
        /\ AllPut(bound, Range(model.required))
    BY <2>3, <2>4, EachIsBound
  <2>6. \E key, x : PlanRequirements(ev, ctx) = bound \o <<Record(key, x)>>
    BY <2>1, <2>2, <2>4 DEF PlanRequirements
  <2>. QED  BY <2>5, <2>6 DEF Ended
<1>2. \E cs : Ended(PlanRules(ev, ctx), cs, ev, "rule")
  <2>1. PICK all : all = Candidates(ev, "rule")
    OBVIOUS
  <2>2. PICK bound : bound = Chain(all, PutAndBind)
    OBVIOUS
  <2>3. MadeFor(bound, Range(all), ev, "rule") /\ AllPut(bound, Range(all))
    BY <2>1, <2>2, CandidatesAreGroups, EachIsBound
  <2>4. \E key, x : PlanRules(ev, ctx) = bound \o <<Record(key, x)>>
    BY <2>1, <2>2 DEF PlanRules
  <2>. QED  BY <2>3, <2>4 DEF Ended
<1>. QED  BY <1>1, <1>2

\* What ranks the themes keeps them.
LEMMA ThemesAreGroups ==
  ASSUME NEW cs, Groups(cs), NEW most \in Nat
  PROVE  Groups(ByRepetition(cs, most)) /\ Range(ByRepetition(cs, most)) \subseteq Range(cs)
<1>. DEFINE counts == [n \in 1 .. most |-> most - n + 1]
            of(n) == Chosen(cs, {c \in Range(cs) : Len(c.members) = n})
            ss == [j \in DOMAIN counts |-> of(counts[j])]
<1>1. \A n : IsSequence(of(n)) /\ Range(of(n)) \subseteq Range(cs)
  BY ChosenElements DEF Groups
<1>. HIDE DEF of
<1>2. IsSequence(ss) /\ \A j \in DOMAIN ss : IsSequence(ss[j]) /\ Range(ss[j]) \subseteq Range(cs)
  BY <1>1, Listed
<1>3. ByRepetition(cs, most) = FlattenSeq(ss)
  BY DEF ByRepetition, Chain, of
<1>. HIDE DEF ss
<1>4. /\ IsSequence(FlattenSeq(ss))
      /\ Range(FlattenSeq(ss)) = UNION {Range(ss[j]) : j \in DOMAIN ss}
  BY <1>2, Flattened
<1>. QED  BY <1>2, <1>3, <1>4 DEF Groups

LEMMA GroupsJoined ==
  ASSUME NEW cs, Groups(cs), NEW ds, Groups(ds)
  PROVE  Groups(cs \o ds) /\ Range(cs \o ds) = Range(cs) \cup Range(ds)
BY Joined DEF Groups

\* Two clusters under one wording are as large: with vectors they are the same
\* items, and without them each is one item.
LEMMA WordingsTellSizes ==
  ASSUME NEW ev, NEW items, IsSequence(items), IsInjective(items), Range(items) \subseteq Item,
         NEW compared, NEW i \in Range(items), NEW j \in Range(items), ev[i].says = ev[j].says
  PROVE  Len(ClusterOf(ev, items, i, compared)) = Len(ClusterOf(ev, items, j, compared))
<1>1. CASE compared
  <2>1. \A k \in Item : (k = i \/ (compared /\ Theme[ev[k].says] = Theme[ev[i].says]))
                          <=> (k = j \/ (compared /\ Theme[ev[k].says] = Theme[ev[j].says]))
    BY <1>1
  <2>2. {k \in Item : k = i \/ (compared /\ Theme[ev[k].says] = Theme[ev[i].says])}
          = {k \in Item : k = j \/ (compared /\ Theme[ev[k].says] = Theme[ev[j].says])}
    BY <2>1
  <2>. QED  BY <2>2 DEF ClusterOf
<1>2. CASE ~compared
  <2>1. ASSUME NEW k \in Range(items) PROVE Len(ClusterOf(ev, items, k, compared)) = 1
    <3>1. PICK s : s = ClusterOf(ev, items, k, compared)
      OBVIOUS
    <3>2. {l \in Item : l = k \/ (compared /\ Theme[ev[l].says] = Theme[ev[k].says])} = {k}
      BY <1>2
    <3>3. IsSequence(s) /\ Range(s) = {k} /\ IsInjective(s)
      BY <3>1, <3>2, ChosenElements DEF ClusterOf
    <3>4. Len(s) \in Nat /\ DOMAIN s = 1 .. Len(s) /\ \A m \in DOMAIN s : s[m] = k
      BY <3>3, Sequenced DEF Range
    <3>5. s # <<>> /\ 1 \in DOMAIN s
      BY <3>3, Sequenced, Single
    <3>6. \A m \in DOMAIN s : m = 1
      BY <3>3, <3>4, <3>5 DEF IsInjective
    <3>7. Len(s) \in DOMAIN s
      BY <3>4, <3>5
    <3>. QED  BY <3>1, <3>6, <3>7
  <2>. QED  BY <2>1
<1>. QED  BY <1>1, <1>2

LEMMA ClustersTell ==
  ASSUME NEW ev, NEW items, IsSequence(items), IsInjective(items), Range(items) \subseteq Item,
         NEW compared,
         NEW c \in Range(Clusters(ev, items, compared)), NEW e \in Range(Clusters(ev, items, compared)),
         c.text = e.text
  PROVE  Explain(c) = Explain(e)
<1>1. PICK heads : heads = Chosen(items, {i \in Range(items) : Head(ClusterOf(ev, items, i, compared)) = i})
  OBVIOUS
<1>2. Range(heads) \subseteq Range(items)
  BY <1>1, ChosenElements
<1>3. Clusters(ev, items, compared) =
        [j \in DOMAIN heads |-> [key |-> Key[ev[heads[j]].says],
                                 members |-> ClusterOf(ev, items, heads[j], compared),
                                 text |-> ev[heads[j]].says]]
  BY <1>1 DEF Clusters
<1>4. ASSUME NEW g \in Range(Clusters(ev, items, compared))
      PROVE  \E i \in Range(items) : /\ g.text = ev[i].says
                                     /\ g.members = ClusterOf(ev, items, i, compared)
  <2>1. PICK j \in DOMAIN heads : g = [key |-> Key[ev[heads[j]].says],
                                       members |-> ClusterOf(ev, items, heads[j], compared),
                                       text |-> ev[heads[j]].says]
    BY <1>3 DEF Range
  <2>2. heads[j] \in Range(items)
    BY <1>2 DEF Range
  <2>. QED  BY <2>1, <2>2
<1>5. Len(c.members) = Len(e.members)
  BY <1>4, WordingsTellSizes
<1>. QED  BY <1>5 DEF Explain

LEMMA UnknownsAreMade ==
  ASSUME NEW ev, NEW ctx
  PROVE  \E cs : /\ Ended(PlanUnknowns(ev, ctx), cs, ev, "unknown")
                 /\ \A c, e \in cs : c.text = e.text => Explain(c) = Explain(e)
<1>1. PICK items : items = LiveItems(ev, "unknown")
  OBVIOUS
<1>2. PICK themes : themes = UnknownThemes(ev, items, ctx)
  OBVIOUS
<1>3. PICK current : current = Chosen(items, {i \in Item :
                       ctx.roles[i] \in {"active", "supporting", "conflicting"}})
  OBVIOUS
<1>4. PICK all : all = Clusters(ev, current, ctx.compared)
  OBVIOUS
<1>5. /\ IsSequence(current) /\ IsInjective(current) /\ Range(current) \subseteq Item
      /\ IsSequence(items) /\ Len(items) \in Nat
  <2>1. IsSequence(ItemOrder)
    BY PlansAssumption DEF IsSequence
  <2>2. IsSequence(items) /\ IsInjective(items) /\ Range(items) \subseteq Range(ItemOrder)
    BY <1>1, <2>1, PlansAssumption, ChosenElements DEF LiveItems
  <2>3. IsSequence(current) /\ IsInjective(current) /\ Range(current) \subseteq Range(items)
    BY <1>3, <2>2, ChosenElements
  <2>. QED  BY <2>2, <2>3, Sequenced DEF Item
<1>6. Groups(themes) /\ Range(themes) \subseteq Range(all)
  <2>1. Groups(all)
    BY <1>4, <1>5, ClustersAreGroups
  <2>2. PICK S : S = {c \in Range(all) : Reading[c.text].blocks}
    OBVIOUS
  <2>3. themes = ByRepetition(Chosen(all, S), Len(items))
                 \o ByRepetition(Chosen(all, Range(all) \ S), Len(items))
    BY <1>2, <1>3, <1>4, <2>2 DEF UnknownThemes
  <2>4. \A Q : LET chosen == ByRepetition(Chosen(all, Q), Len(items))
               IN Groups(chosen) /\ Range(chosen) \subseteq Range(all)
    BY <1>5, <2>1, GroupsChosen, ThemesAreGroups
  <2>. QED  BY <2>3, <2>4, GroupsJoined
<1>. DEFINE n == IF Len(themes) < AttentionBound THEN Len(themes) ELSE AttentionBound
            raised == SubSeq(themes, 1, n)
<1>7. Groups(raised) /\ Range(raised) \subseteq Range(all)
  <2>1. /\ themes \in Seq(Range(themes)) /\ Len(themes) \in Nat /\ AttentionBound \in Nat
        /\ DOMAIN themes = 1 .. Len(themes)
    BY <1>6, Sequenced, PlansAssumption DEF Groups
  <2>2. n \in Nat /\ n <= Len(themes)
    BY <2>1
  <2>3. \A i \in 1 .. n : themes[i] \in Range(themes)
    BY <2>1, <2>2 DEF Range
  <2>. HIDE DEF n
  <2>4. raised \in Seq(Range(themes))
    BY <2>2, <2>3, SubSeqProperties
  <2>5. Range(raised) \subseteq Range(themes)
    BY <2>4, LenProperties DEF Range
  <2>. QED  BY <1>6, <2>4, <2>5 DEF Groups, IsSequence
<1>. DEFINE asked(c) == PutAndBind(c) \o <<Attend(c.key, Explain(c))>>
            ss == [j \in DOMAIN raised |-> asked(raised[j])]
<1>8. ASSUME NEW c \in Range(raised), IsSequence(c.members)
      PROVE  /\ MadeFor(asked(c), Range(raised), ev, "unknown")
             /\ Put(c.key, c.text) \in Range(asked(c))
  <2>1. Raised(c, "unknown") = c.key /\ Ground(c, ev, "unknown") = Explain(c)
    BY DEF Raised, Ground
  <2>2. Made(Attend(c.key, Explain(c)), c, ev, "unknown")
    BY <2>1, CallsAreMade
  <2>. HIDE DEF raised
  <2>3. MadeFor(<<Attend(c.key, Explain(c))>>, Range(raised), ev, "unknown")
    BY <2>2, MadeOne
  <2>4. MadeFor(PutAndBind(c), Range(raised), ev, "unknown") /\ Put(c.key, c.text) \in Range(PutAndBind(c))
    BY <1>8, BoundIsMade
  <2>. QED  BY <2>3, <2>4, MadeJoined
<1>. HIDE DEF asked, raised
<1>9. \A j \in DOMAIN raised : /\ MadeFor(ss[j], Range(raised), ev, "unknown")
                               /\ Put(raised[j].key, raised[j].text) \in Range(ss[j])
  BY <1>7, <1>8 DEF Groups, Range
<1>10. MadeFor(FlattenSeq(ss), Range(raised), ev, "unknown") /\ AllPut(FlattenSeq(ss), Range(raised))
  <2>. HIDE DEF ss
  <2>1. ss = [j \in DOMAIN raised |-> ss[j]]
    BY DEF ss
  <2>. QED  BY <1>7, <1>9, <2>1, EachGroupIsMade
<1>11. \E key, x : PlanUnknowns(ev, ctx) = FlattenSeq(ss) \o <<Record(key, x)>>
  BY <1>1, <1>2 DEF PlanUnknowns, Chain, asked, raised
<1>12. \A c, e \in Range(raised) : c.text = e.text => Explain(c) = Explain(e)
  BY <1>4, <1>5, <1>7, ClustersTell
<1>. QED  BY <1>10, <1>11, <1>12 DEF Ended

\* Every plan is made of proper calls, ends with its event, and agrees with
\* itself unless it words an object in two ways.
LEMMA PlansArePlanned ==
  ASSUME NEW d \in Domain, NEW ev, NEW ctx
  PROVE  Planned(PlanFor(d, ev, ctx)) /\ PlanFor(d, ev, ctx) # <<>> /\ Fits(PlanFor(d, ev, ctx))
<1>1. PICK p : p = PlanFor(d, ev, ctx)
  OBVIOUS
<1>2. /\ d = "goal" => p = PlanGoals(ev, ctx)
      /\ d = "unknown" => p = PlanUnknowns(ev, ctx)
      /\ d = "actor" => p = PlanActors(ev, ctx)
      /\ d = "decision" => p = PlanDecisions(ev, ctx)
      /\ d = "assumption" => p = PlanAssumptions(ev, ctx)
      /\ d = "constraint" => p = PlanConstraints(ev, ctx)
      /\ d = "requirement" => p = PlanRequirements(ev, ctx)
      /\ d = "rule" => p = PlanRules(ev, ctx)
  BY <1>1 DEF PlanFor
<1>3. \E cs : /\ Ended(p, cs, ev, d)
              /\ d = "unknown" => \A c, e \in cs : c.text = e.text => Explain(c) = Explain(e)
  <2>1. CASE d = "unknown"
    BY <1>2, <2>1, UnknownsAreMade
  <2>2. CASE d # "unknown"
    <3>1. \E cs : Ended(p, cs, ev, d)
      BY <1>2, <2>2, GoalsAreMade, ActorsAreMade, DecisionsAreMade, AssumptionsAreMade,
         ConstraintsAreMade, RequirementsAndRulesAreMade DEF Domain
    <3>. QED  BY <2>2, <3>1
  <2>. QED  BY <2>1, <2>2
<1>. QED  BY <1>1, <1>3, EndedFits

-----------------------------------------------------------------------------
(* What is written and what still has to be *)

Fixed == {"bind", "record"}

\* What the call p asks for is in the records d, links and events word by word.
Written(p, d) == p.row \in DOMAIN d /\ (p.op \in Fixed => d[p.row].text = p.text)

Shaped(row, r) == /\ row[1] = "object"    => DOMAIN r = {"text", "authority"}
                  /\ row[1] = "attention" => DOMAIN r = {"text", "status"}

\* The caller k has proper calls to make; what it loaded was there and, if it is
\* a link or an event, is there still.
Waiting(k) == /\ DOMAIN k = DOMAIN Idle
              /\ k.phase \in {"ready", "loaded"} => Planned(k.todo) /\ k.todo # <<>>
Loaded(k, d) ==
  k.phase = "loaded" /\ k.row # Absent =>
    /\ Head(k.todo).row \in DOMAIN d /\ Shaped(Head(k.todo).row, k.row)
    /\ Head(k.todo).op \in Fixed => d[Head(k.todo).row].text = k.row.text

\* The run k has made the first n calls of its plan.
Rest(todo, plan, n) == Len(todo) = Len(plan) - n /\ \A j \in 1 .. Len(todo) : todo[j] = plan[n + j]
Underway(k, d) ==
  k.phase \in {"ready", "loaded"} =>
    /\ Planned(k.plan)
    /\ \E n \in 0 .. Len(k.plan) : Rest(k.todo, k.plan, n) /\ \A j \in 1 .. n : Written(k.plan[j], d)
CallSound(c, k, d) == Waiting(k) /\ Loaded(k, d) /\ (c \in Runner => Underway(k, d))

PlanWritten(p, d) == Planned(p) /\ \A j \in DOMAIN p : Written(p[j], d)

Sound == /\ DOMAIN calls = Caller /\ domain \in Domain
         /\ \A row \in DOMAIN db : Shaped(row, db[row])
         /\ \A c \in Caller : CallSound(c, calls[c], db)
         /\ \A p \in recorded : PlanWritten(p, db)

\* Records stay, and links and events stay as they are.
Grows(d, e) == /\ DOMAIN d \subseteq DOMAIN e
               /\ \A row \in DOMAIN d : row[1] \in {"link", "event"} => e[row] = d[row]

LEMMA WrittenStays ==
  ASSUME NEW d, NEW e, Grows(d, e), NEW p, Proper(p), Written(p, d)
  PROVE  Written(p, e)
BY DEF Grows, Proper, Kinds, Written, Fixed

\* Another caller's write changes nothing about a call in progress.
LEMMA CallsStay ==
  ASSUME NEW d, NEW e, Grows(d, e), NEW c, NEW k, CallSound(c, k, d)
  PROVE  CallSound(c, k, e) /\ CallSound(c, [k EXCEPT !.alone = FALSE], e)
<1>1. Loaded(k, e)
  <2>. SUFFICES ASSUME k.phase = "loaded", k.row # Absent PROVE Loaded(k, e)
    BY DEF Loaded
  <2>1. PICK call : call = Head(k.todo)
    OBVIOUS
  <2>2. Proper(call)
    <3>1. Planned(k.todo) /\ k.todo # <<>>
      BY DEF CallSound, Waiting
    <3>2. Head(k.todo) \in Range(k.todo)
      BY <3>1, Sequenced, HeadTailProperties DEF Planned
    <3>. QED  BY <2>1, <3>1, <3>2 DEF Planned
  <2>3. call.row \in DOMAIN d /\ (call.op \in Fixed => d[call.row].text = k.row.text)
    BY <2>1 DEF CallSound, Loaded
  <2>4. call.row \in DOMAIN e /\ (call.op \in Fixed => e[call.row] = d[call.row])
    BY <2>2, <2>3 DEF Grows, Proper, Kinds, Fixed
  <2>. QED  BY <2>1, <2>3, <2>4 DEF CallSound, Loaded
<1>2. c \in Runner => Underway(k, e)
  <2>. SUFFICES ASSUME c \in Runner, k.phase \in {"ready", "loaded"} PROVE Underway(k, e)
    BY DEF Underway
  <2>1. PICK n \in 0 .. Len(k.plan) : Rest(k.todo, k.plan, n) /\ \A j \in 1 .. n : Written(k.plan[j], d)
    BY DEF CallSound, Underway
  <2>2. Planned(k.plan)
    BY DEF CallSound, Underway
  <2>3. \A j \in 1 .. n : Proper(k.plan[j])
    <3>1. Len(k.plan) \in Nat /\ DOMAIN k.plan = 1 .. Len(k.plan)
      BY <2>2, Sequenced DEF Planned
    <3>. QED  BY <2>2, <3>1 DEF Planned, Range
  <2>4. \A j \in 1 .. n : Written(k.plan[j], e)
    BY <2>1, <2>3, WrittenStays
  <2>. QED  BY <2>1, <2>2, <2>4 DEF Underway
<1>3. CallSound(c, k, e)
  BY <1>1, <1>2 DEF CallSound
<1>4. PICK u : u = [k EXCEPT !.alone = FALSE]
  OBVIOUS
<1>5. /\ DOMAIN u = DOMAIN k /\ u.phase = k.phase /\ u.todo = k.todo /\ u.plan = k.plan
      /\ u.row = k.row
  BY <1>4 DEF CallSound, Waiting, Idle
<1>6. CallSound(c, u, e)
  BY <1>3, <1>5 DEF CallSound, Waiting, Loaded, Underway
<1>. QED  BY <1>3, <1>4, <1>6

LEMMA PlansStay ==
  ASSUME NEW d, NEW e, Grows(d, e), NEW p, PlanWritten(p, d)
  PROVE  PlanWritten(p, e)
<1>1. \A j \in DOMAIN p : Proper(p[j])
  BY DEF PlanWritten, Planned, Range
<1>. QED  BY <1>1, WrittenStays DEF PlanWritten

\* What each operation of the service decides about the record it loaded.
Decided(call, r, v) ==
  /\ v.verdict = "same" => r # Absent /\ (call.op \in Fixed => r.text = call.text)
  /\ v.verdict = "write" =>
       /\ Shaped(call.row, v.row)
       /\ call.op \in Fixed => r = Absent /\ v.row = [text |-> call.text]
       /\ r # Absent /\ call.row[1] = "object" /\ r.authority = "human" =>
            call.op = "correct" /\ v.row = [text |-> call.text, authority |-> "human"]
       /\ r # Absent /\ call.row[1] = "attention" /\ r.status \in {"resolved", "dismissed"} =>
            DOMAIN v.row = DOMAIN r /\ v.row.status = r.status

LEMMA Decisions ==
  ASSUME NEW call, Proper(call), NEW r, r = Absent \/ Shaped(call.row, r),
         NEW v, v = Decide(call, r)
  PROVE  Decided(call, r, v)
<1>. USE DEF Decided, Fixed, Shaped, Same, Write, Refused, Proper, Kinds
<1>1. CASE call.op \in {"put", "correct"}
  BY <1>1 DEF Decide, PutObject, CorrectObject
<1>2. CASE call.op = "bind"
  BY <1>2 DEF Decide, BindEvidence
<1>3. CASE call.op = "record"
  BY <1>3 DEF Decide, RecordChange
<1>4. CASE call.op = "attend"
  BY <1>4 DEF Decide, PutAttention
<1>5. CASE call.op = "move"
  BY <1>5 DEF Decide, MoveAttention, AttentionMoves
<1>6. CASE call.op \in {"role", "attribute", "mechanism"}
  BY <1>6 DEF Decide, SetEvidenceRole, RecordAttribution, RecordMechanism
<1>7. CASE call.op \in {"assign", "effect", "criterion"}
  BY <1>7 DEF Decide, AssignResponsibility, RecordConstraintEffect, RecordCriterion, Upsert
<1>. QED  BY <1>1, <1>2, <1>3, <1>4, <1>5, <1>6, <1>7

LEMMA NextCall ==
  ASSUME NEW k, Waiting(k), k.phase \in {"ready", "loaded"}
  PROVE  /\ Proper(Head(k.todo)) /\ Head(k.todo) = k.todo[1] /\ Len(k.todo) \in Nat \ {0}
         /\ Planned(Tail(k.todo)) /\ Len(Tail(k.todo)) = Len(k.todo) - 1
         /\ \A j \in 1 .. Len(Tail(k.todo)) : Tail(k.todo)[j] = k.todo[j + 1]
         /\ Tail(k.todo) = <<>> => Len(k.todo) = 1
<1>1. Planned(k.todo) /\ k.todo # <<>> /\ k.todo \in Seq(Range(k.todo))
  BY Sequenced DEF Waiting, Planned
<1>2. /\ Head(k.todo) \in Range(k.todo) /\ Tail(k.todo) \in Seq(Range(k.todo))
      /\ Len(Tail(k.todo)) = Len(k.todo) - 1
      /\ \A j \in 1 .. Len(Tail(k.todo)) : Tail(k.todo)[j] = k.todo[j + 1]
  BY <1>1, HeadTailProperties
<1>3. Range(Tail(k.todo)) \subseteq Range(k.todo)
  BY <1>2, LenProperties, ElementOfSeq DEF Range
<1>4. Len(k.todo) \in Nat \ {0} /\ Head(k.todo) = k.todo[1]
  BY <1>1, EmptySeq
<1>5. Planned(Tail(k.todo)) /\ Proper(Head(k.todo))
  BY <1>1, <1>2, <1>3 DEF Planned, IsSequence
<1>6. Tail(k.todo) = <<>> => Len(k.todo) = 1
  <2>. SUFFICES ASSUME Tail(k.todo) = <<>> PROVE Len(k.todo) = 1
    OBVIOUS
  <2>1. Len(<<>>) = 0
    BY EmptySeq
  <2>2. Len(Tail(k.todo)) = 0
    BY <2>1, Zenon
  <2>. QED  BY <1>2, <1>4, <2>2
<1>. QED  BY <1>2, <1>4, <1>5, <1>6

\* A caller that made a call goes on; a run whose last call this was is recorded
\* with everything it planned.
LEMMA GoingOnIsSound ==
  ASSUME Sound, NEW c \in Caller, calls[c].phase = "loaded", NEW wrote, Advance(c, wrote),
         NEW e, Grows(db, e), Written(Head(calls[c].todo), e)
  PROVE  /\ DOMAIN calls' = Caller
         /\ \A d \in Caller : CallSound(d, calls'[d], e)
         /\ \A p \in recorded' : PlanWritten(p, e)
<1>. DEFINE k == calls[c]
            rest == Tail(k.todo)
<1>1. CallSound(c, k, db) /\ Waiting(k) /\ DOMAIN k = DOMAIN Idle
  BY DEF Sound, CallSound, Waiting
<1>2. /\ Proper(Head(k.todo)) /\ Head(k.todo) = k.todo[1] /\ Len(k.todo) \in Nat \ {0}
      /\ Planned(rest) /\ Len(rest) = Len(k.todo) - 1
      /\ \A j \in 1 .. Len(rest) : rest[j] = k.todo[j + 1]
      /\ rest = <<>> => Len(k.todo) = 1
  BY <1>1, NextCall
\* One more call of the plan is made.
<1>3. ASSUME c \in Runner
      PROVE  /\ Planned(k.plan) /\ Len(k.plan) \in Nat
             /\ \E n \in 1 .. Len(k.plan) : /\ Rest(rest, k.plan, n)
                                            /\ \A j \in 1 .. n : Written(k.plan[j], e)
  <2>1. PICK n \in 0 .. Len(k.plan) : Rest(k.todo, k.plan, n) /\ \A j \in 1 .. n : Written(k.plan[j], db)
    BY <1>1, <1>3 DEF CallSound, Underway
  <2>2. Planned(k.plan) /\ Len(k.plan) \in Nat /\ DOMAIN k.plan = 1 .. Len(k.plan)
    BY <1>1, <1>3, Sequenced DEF CallSound, Underway, Planned
  <2>3. Len(k.todo) = Len(k.plan) - n /\ \A j \in 1 .. Len(k.todo) : k.todo[j] = k.plan[n + j]
    BY <2>1 DEF Rest
  <2>4. n + 1 \in 1 .. Len(k.plan) /\ k.plan[n + 1] = Head(k.todo)
    BY <1>2, <2>2, <2>3
  <2>5. \A j \in 1 .. n : Written(k.plan[j], e)
    <3>1. \A j \in 1 .. n : Proper(k.plan[j])
      BY <2>2 DEF Planned, Range
    <3>. QED  BY <2>1, <3>1, WrittenStays
  <2>6. \A j \in 1 .. n + 1 : Written(k.plan[j], e)
    <3>1. \A j \in 1 .. n + 1 : j \in 1 .. n \/ j = n + 1
      BY <2>2
    <3>. QED  BY <2>4, <2>5, <3>1
  <2>7. Rest(rest, k.plan, n + 1)
    <3>1. Len(rest) = Len(k.plan) - (n + 1)
      BY <1>2, <2>2, <2>3
    <3>2. ASSUME NEW j \in 1 .. Len(rest) PROVE rest[j] = k.plan[(n + 1) + j]
      <4>1. j + 1 \in 1 .. Len(k.todo) /\ n + (j + 1) = (n + 1) + j
        BY <1>2, <2>2
      <4>. QED  BY <1>2, <2>3, <4>1
    <3>. QED  BY <3>1, <3>2 DEF Rest
  <2>. QED  BY <2>2, <2>4, <2>6, <2>7
<1>4. DOMAIN calls' = Caller
  BY DEF Advance
<1>5. ASSUME NEW d \in Caller, d # c PROVE CallSound(d, calls'[d], e)
  <2>1. calls'[d] = calls[d] \/ calls'[d] = [calls[d] EXCEPT !.alone = FALSE]
    BY <1>5 DEF Advance
  <2>2. CallSound(d, calls[d], db)
    BY DEF Sound
  <2>. QED  BY <2>1, <2>2, CallsStay
<1>6. CallSound(c, calls'[c], e)
  <2>1. CASE rest = <<>>
    <3>1. calls'[c] = Idle
      BY <2>1 DEF Advance
    <3>. QED  BY <3>1 DEF CallSound, Waiting, Loaded, Underway, Idle
  <2>2. CASE rest # <<>>
    <3>1. PICK u : u = [k EXCEPT !.phase = "ready", !.todo = rest, !.row = Absent]
      OBVIOUS
    <3>2. calls'[c] = u
      BY <2>2, <3>1 DEF Advance
    <3>3. DOMAIN u = DOMAIN Idle /\ u.phase = "ready" /\ u.todo = rest /\ u.plan = k.plan
      BY <1>1, <3>1 DEF Idle
    <3>4. Waiting(u) /\ Loaded(u, e)
      BY <1>2, <2>2, <3>3 DEF Waiting, Loaded
    <3>5. c \in Runner => Underway(u, e)
      BY <1>3, <3>3 DEF Underway
    <3>. QED  BY <3>2, <3>4, <3>5 DEF CallSound
  <2>. QED  BY <2>1, <2>2
<1>7. \A p \in recorded : PlanWritten(p, e)
  BY PlansStay DEF Sound
<1>8. ASSUME c \in Runner, rest = <<>> PROVE PlanWritten(k.plan, e)
  <2>1. PICK n \in 1 .. Len(k.plan) : Rest(rest, k.plan, n) /\ \A j \in 1 .. n : Written(k.plan[j], e)
    BY <1>3, <1>8
  <2>2. Len(rest) = 0 /\ Len(k.plan) \in Nat
    BY <1>2, <1>3, <1>8
  <2>3. n = Len(k.plan)
    <3>1. Len(rest) = Len(k.plan) - n
      BY <2>1 DEF Rest
    <3>. HIDE DEF rest, k
    <3>. QED  BY <2>1, <2>2, <3>1
  <2>4. DOMAIN k.plan = 1 .. Len(k.plan)
    BY <1>3, <1>8, Sequenced DEF Planned
  <2>. QED  BY <1>3, <1>8, <2>1, <2>3, <2>4 DEF PlanWritten
<1>9. recorded' = recorded \/ (c \in Runner /\ rest = <<>> /\ recorded' = recorded \cup {k.plan})
  BY DEF Advance
<1>10. \A p \in recorded' : PlanWritten(p, e)
  BY <1>7, <1>8, <1>9
<1>. QED  BY <1>4, <1>5, <1>6, <1>10

\* A call that is committed.
LEMMA CommittingKeepsSound ==
  ASSUME Sound, NEW c \in Caller, Commit(c)
  PROVE  Sound'
<1>1. PICK call : call = Head(calls[c].todo)
  OBVIOUS
<1>2. PICK v : v = Decide(call, calls[c].row)
  OBVIOUS
<1>3. /\ calls[c].phase = "loaded" /\ UNCHANGED domain /\ domain \in Domain
      /\ CallSound(c, calls[c], db) /\ Proper(call)
  BY <1>1, NextCall DEF Commit, Sound, CallSound
<1>4. /\ calls[c].row # Absent => /\ call.row \in DOMAIN db /\ Shaped(call.row, calls[c].row)
                                  /\ call.op \in Fixed => db[call.row].text = calls[c].row.text
      /\ calls[c].row = Absent => call.row \notin DOMAIN db
  BY <1>1, <1>3 DEF CallSound, Loaded, Commit, Collides
<1>5. /\ v.verdict = "same" => /\ calls[c].row # Absent
                               /\ call.op \in Fixed => calls[c].row.text = call.text
      /\ v.verdict = "write" => /\ Shaped(call.row, v.row)
                                /\ call.op \in Fixed => /\ calls[c].row = Absent
                                                        /\ v.row = [text |-> call.text]
  <2>1. Decided(call, calls[c].row, v)
    BY <1>2, <1>3, <1>4, Decisions
  <2>. QED  BY <2>1 DEF Decided
<1>6. CASE v.verdict = "same" /\ Advance(c, FALSE) /\ UNCHANGED db
  <2>1. Grows(db, db) /\ Written(call, db)
    BY <1>4, <1>5, <1>6 DEF Grows, Written
  <2>2. /\ DOMAIN calls' = Caller
        /\ \A d \in Caller : CallSound(d, calls'[d], db)
        /\ \A p \in recorded' : PlanWritten(p, db)
    BY <1>1, <1>3, <1>6, <2>1, GoingOnIsSound
  <2>. QED  BY <1>3, <1>6, <2>2 DEF Sound
<1>7. ASSUME v.verdict = "write", Advance(c, TRUE), NEW new, NEW e,
             new = Merged(At(call.row), calls[c].row, v.row),
             e = [row \in DOMAIN db \cup {call.row} |-> IF row = call.row THEN new ELSE db[row]],
             db' = e
      PROVE  Sound'
  <2>1. Shaped(call.row, new) /\ (call.op \in Fixed => new = [text |-> call.text])
    BY <1>5, <1>7 DEF Merged, Shaped
  <2>2. Grows(db, e)
    BY <1>3, <1>4, <1>5, <1>7 DEF Grows, Proper, Kinds, Fixed
  <2>3. Written(call, e)
    BY <1>7, <2>1 DEF Written
  <2>4. \A row \in DOMAIN e : Shaped(row, e[row])
    BY <1>7, <2>1 DEF Sound
  <2>5. /\ DOMAIN calls' = Caller
        /\ \A d \in Caller : CallSound(d, calls'[d], e)
        /\ \A p \in recorded' : PlanWritten(p, e)
    BY <1>1, <1>3, <1>7, <2>2, <2>3, GoingOnIsSound
  <2>. QED  BY <1>3, <1>7, <2>4, <2>5 DEF Sound
<1>8. \/ v.verdict = "same" /\ Advance(c, FALSE) /\ UNCHANGED db
      \/ /\ v.verdict = "write" /\ Advance(c, TRUE)
         /\ db' = [row \in DOMAIN db \cup {call.row} |->
                     IF row = call.row THEN Merged(At(call.row), calls[c].row, v.row) ELSE db[row]]
  BY <1>1, <1>2 DEF Commit
<1>. QED  BY <1>6, <1>7, <1>8

\* One caller's state becomes k, and nothing is written.
LEMMA OneCallKeepsSound ==
  ASSUME Sound, NEW c \in Caller, NEW k, CallSound(c, k, db),
         calls' = [calls EXCEPT ![c] = k], UNCHANGED <<db, domain, recorded>>
  PROVE  Sound'
BY DEF Sound

LEMMA IdleIsSound ==
  ASSUME NEW c, NEW d
  PROVE  CallSound(c, Idle, d)
BY DEF CallSound, Waiting, Loaded, Underway, Idle

LEMMA LoadingKeepsSound ==
  ASSUME Sound, NEW c \in Caller, Load(c) \/ Retry(c)
  PROVE  Sound'
<1>1. CallSound(c, calls[c], db) /\ calls[c].phase \in {"ready", "loaded"}
      /\ DOMAIN calls[c] = DOMAIN Idle
  BY DEF Sound, Load, Retry, CallSound, Waiting
<1>2. CASE Load(c)
  <2>1. PICK r : r = At(Head(calls[c].todo).row)
    OBVIOUS
  <2>2. PICK k : k = [calls[c] EXCEPT !.phase = "loaded", !.row = r]
    OBVIOUS
  <2>3. /\ DOMAIN k = DOMAIN Idle /\ k.phase = "loaded" /\ k.row = r
        /\ k.todo = calls[c].todo /\ k.plan = calls[c].plan
    BY <1>1, <2>2 DEF Idle
  <2>4. Loaded(k, db)
    BY <2>1, <2>3 DEF Loaded, At, Sound
  <2>5. CallSound(c, k, db)
    BY <1>1, <2>3, <2>4 DEF CallSound, Waiting, Underway
  <2>6. calls' = [calls EXCEPT ![c] = k]
    BY <1>2, <2>1, <2>2 DEF Load, Sound
  <2>. QED  BY <1>2, <2>5, <2>6, OneCallKeepsSound DEF Load
<1>3. CASE Retry(c)
  <2>1. PICK k : k = [calls[c] EXCEPT !.phase = "ready", !.row = Absent]
    OBVIOUS
  <2>2. /\ DOMAIN k = DOMAIN Idle /\ k.phase = "ready"
        /\ k.todo = calls[c].todo /\ k.plan = calls[c].plan
    BY <1>1, <2>1 DEF Idle
  <2>3. CallSound(c, k, db)
    BY <1>1, <2>2 DEF CallSound, Waiting, Underway, Loaded
  <2>4. calls' = [calls EXCEPT ![c] = k]
    BY <1>3, <2>1 DEF Retry, Sound
  <2>. QED  BY <1>3, <2>3, <2>4, OneCallKeepsSound DEF Retry
<1>. QED  BY <1>2, <1>3

LEMMA PlanningKeepsSound ==
  ASSUME Sound, NEW r \in Runner, PlanRun(r)
  PROVE  Sound'
<1>0. PICK p \in Provided :
        LET seen == calls[r].seen
            plan == PlanFor(domain, seen.evidence,
                            Beside(p.compared, p.judged, p.approved, seen.roles))
        IN calls' = [calls EXCEPT ![r].phase = "ready", ![r].plan = plan, ![r].todo = plan,
                                  ![r].seen = <<>>]
  BY DEF PlanRun
<1>. DEFINE ev == calls[r].seen.evidence
            ctx == Beside(p.compared, p.judged, p.approved, calls[r].seen.roles)
<1>1. PICK plan : /\ plan = PlanFor(domain, ev, ctx)
                  /\ calls' = [calls EXCEPT ![r].phase = "ready", ![r].plan = plan,
                                            ![r].todo = plan, ![r].seen = <<>>]
  BY <1>0
<1>. HIDE DEF ev, ctx
<1>2. r \in Caller /\ DOMAIN calls[r] = DOMAIN Idle
  BY DEF Caller, Sound, CallSound, Waiting
<1>3. Planned(plan) /\ plan # <<>> /\ Len(plan) \in Nat
  BY <1>1, PlansArePlanned, Sequenced DEF Sound, Planned
<1>4. PICK k : k = [calls[r] EXCEPT !.phase = "ready", !.plan = plan, !.todo = plan, !.seen = <<>>]
  OBVIOUS
<1>5. DOMAIN k = DOMAIN Idle /\ k.phase = "ready" /\ k.todo = plan /\ k.plan = plan
  BY <1>2, <1>4 DEF Idle
<1>6. Rest(plan, plan, 0)
  BY <1>3 DEF Rest
<1>7. Underway(k, db)
  <2>1. 0 \in 0 .. Len(plan) /\ \A j \in 1 .. 0 : Written(plan[j], db)
    BY <1>3
  <2>. QED  BY <1>3, <1>5, <1>6, <2>1 DEF Underway
<1>8. CallSound(r, k, db)
  BY <1>3, <1>5, <1>7 DEF CallSound, Waiting, Loaded
<1>9. calls' = [calls EXCEPT ![r] = k]
  BY <1>1, <1>2, <1>4 DEF Sound
<1>. QED  BY <1>2, <1>8, <1>9, OneCallKeepsSound DEF PlanRun

LEMMA RequestsAreProper ==
  ASSUME NEW call \in Requests
  PROVE  Proper(call)
<1>1. \/ \E k, i, x : call \in {Put(k, x), CorrectTo(k, x), Bind(k, i, x), Role(i, x)}
      \/ \E row \in DOMAIN db : row[1] = "attention" /\ call.op = "move" /\ call.row = row
      \/ \E k : call.op = "criterion" /\ call.row = <<"criterion", k>>
      \/ \E k : call.op = "mechanism" /\ call.row = <<"mechanism", k>>
      \/ \E k : call.op = "attribute" /\ call.row = <<"attribution", k>>
  BY DEF Requests
<1>2. ASSUME NEW k, NEW i, NEW x, call \in {Put(k, x), CorrectTo(k, x), Bind(k, i, x), Role(i, x)}
      PROVE  Proper(call)
  BY <1>2, CallsAreProper
<1>. QED  BY <1>1, <1>2 DEF Proper, Kinds

LEMMA AskingKeepsSound ==
  ASSUME Sound, NEW p \in Person, Ask(p)
  PROVE  Sound'
<1>1. PICK call \in Requests :
        calls' = [calls EXCEPT ![p] = [Idle EXCEPT !.phase = "ready", !.todo = <<call>>]]
  BY DEF Ask
<1>2. PICK k : k = [Idle EXCEPT !.phase = "ready", !.todo = <<call>>]
  OBVIOUS
<1>3. DOMAIN k = DOMAIN Idle /\ k.phase = "ready" /\ k.todo = <<call>>
  BY <1>2 DEF Idle
<1>4. Planned(<<call>>) /\ <<call>> # <<>>
  BY RequestsAreProper, PlannedOne
<1>5. CallSound(p, k, db)
  BY <1>3, <1>4, RunsAssumption DEF CallSound, Waiting, Loaded
<1>. QED  BY <1>1, <1>2, <1>5, OneCallKeepsSound DEF Ask, Caller

LEMMA NextKeepsSound == Sound /\ [Next]_vars => Sound'
<1>. SUFFICES ASSUME Sound, [Next]_vars PROVE Sound'
  OBVIOUS
<1>1. CASE UNCHANGED vars \/ EvidenceMoves
  <2>1. UNCHANGED <<db, calls, domain, recorded>>
    BY <1>1 DEF vars, EvidenceMoves
  <2>. QED  BY <2>1 DEF Sound
<1>2. ASSUME NEW r \in Runner, ReadEvidence(r) PROVE Sound'
  <2>1. PICK seen : calls' = [calls EXCEPT ![r] = [Idle EXCEPT !.phase = "planning", !.seen = seen]]
    BY <1>2 DEF ReadEvidence
  <2>2. CallSound(r, [Idle EXCEPT !.phase = "planning", !.seen = seen], db)
    BY DEF CallSound, Waiting, Loaded, Underway, Idle
  <2>. QED  BY <1>2, <2>1, <2>2, OneCallKeepsSound DEF ReadEvidence, Caller
<1>3. ASSUME NEW r \in Runner, PlanRun(r) PROVE Sound'
  BY <1>3, PlanningKeepsSound
<1>4. ASSUME NEW c \in Caller, Abandon(c) \/ Refuse(c) PROVE Sound'
  BY <1>4, IdleIsSound, OneCallKeepsSound DEF Abandon, Refuse
<1>5. ASSUME NEW p \in Person, Ask(p) PROVE Sound'
  BY <1>5, AskingKeepsSound
<1>6. ASSUME NEW c \in Caller, Load(c) \/ Retry(c) PROVE Sound'
  BY <1>6, LoadingKeepsSound
<1>7. ASSUME NEW c \in Caller, Commit(c) PROVE Sound'
  BY <1>7, CommittingKeepsSound
<1>. QED  BY <1>1, <1>2, <1>3, <1>4, <1>5, <1>6, <1>7 DEF Next, Caller

LEMMA InitSound == Init => Sound
<1>. SUFFICES ASSUME Init PROVE Sound
  OBVIOUS
<1>1. domain \in Domain
  BY RunsAssumption DEF Init
<1>2. DOMAIN db = {} /\ recorded = {}
  BY Single DEF Init, Range
<1>3. DOMAIN calls = Caller /\ \A c \in Caller : CallSound(c, calls[c], db)
  BY IdleIsSound DEF Init
<1>. QED  BY <1>1, <1>2, <1>3 DEF Sound

LEMMA SoundHolds == Spec => []Sound
BY InitSound, NextKeepsSound, PTL DEF Spec

-----------------------------------------------------------------------------
LEMMA SoundMeansWritten == Sound => EventMeansWritten
BY DEF Sound, PlanWritten, Written, Fixed, EventMeansWritten

\* The event of a run stands for all it planned: whatever raced it, was refused
\* or died half-way, every record of a recorded plan exists, and its links and
\* events read as planned (record_change is the last call of each synthesis
\* service).
THEOREM EventsAreTrue == Spec => []EventMeansWritten
BY SoundHolds, SoundMeansWritten, PTL

\* A record changes by a call of its own kind that was decided on what it holds.
LEMMA SettledByStep ==
  ASSUME Sound, [Next]_vars, Serializable, NEW row \in DOMAIN db, db'[row] # db[row]
  PROVE  /\ row[1] = "object" /\ db[row].authority = "human"
              => /\ db'[row].authority = "human"
                 /\ \E c \in Caller : Makes(c, {"correct"}, row)
         /\ row[1] = "attention" /\ db[row].status \in {"resolved", "dismissed"}
              => db'[row].status = db[row].status
<1>1. PICK c \in Caller : Commit(c)
  BY DEF Next, vars, ReadEvidence, PlanRun, Abandon, Ask, Load, Retry, Refuse, EvidenceMoves
<1>2. PICK call : call = Head(calls[c].todo)
  OBVIOUS
<1>3. PICK v : v = Decide(call, calls[c].row)
  OBVIOUS
<1>4. PICK r : r = calls[c].row
  OBVIOUS
<1>5. /\ calls[c].phase = "loaded" /\ r = At(call.row) /\ v.verdict = "write" /\ Advance(c, TRUE)
      /\ db' = [x \in DOMAIN db \cup {call.row} |->
                  IF x = call.row THEN Merged(At(call.row), calls[c].row, v.row) ELSE db[x]]
  BY <1>1, <1>2, <1>3, <1>4 DEF Commit
<1>6. row = call.row /\ r = db[row] /\ Shaped(row, r) /\ db'[row] = Merged(r, r, v.row)
  BY <1>4, <1>5 DEF At, Sound
<1>7. Proper(call)
  BY <1>2, <1>5, NextCall DEF Sound, CallSound
<1>8. row[1] \in {"object", "attention"} => r # Absent
  <2>1. DOMAIN Absent = {"absent"}
    BY DEF Absent
  <2>. QED  BY <1>6, <2>1 DEF Shaped
<1>9. /\ r # Absent /\ row[1] = "object" /\ r.authority = "human" =>
           call.op = "correct" /\ v.row = [text |-> call.text, authority |-> "human"]
      /\ r # Absent /\ row[1] = "attention" /\ r.status \in {"resolved", "dismissed"} =>
           DOMAIN v.row = DOMAIN r /\ v.row.status = r.status
  <2>1. v = Decide(call, r) /\ Shaped(call.row, r) /\ row = call.row
    BY <1>3, <1>4, <1>6
  <2>2. Decided(call, r, v)
    BY <1>7, <2>1, Decisions
  <2>. QED  BY <1>5, <2>1, <2>2 DEF Decided
<1>10. CASE row[1] = "object" /\ db[row].authority = "human"
  <2>1. call.op = "correct" /\ v.row = [text |-> call.text, authority |-> "human"]
    BY <1>6, <1>8, <1>9, <1>10
  <2>2. db'[row].authority = "human"
    BY <1>6, <1>10, <2>1 DEF Merged
  <2>3. calls'[c] # calls[c]
    <3>1. calls'[c].phase \in {"idle", "ready"}
      <4>1. DOMAIN calls[c] = DOMAIN Idle
        BY DEF Sound, CallSound, Waiting
      <4>. QED  BY <1>5, <4>1 DEF Advance, Idle
    <3>. QED  BY <1>5, <3>1
  <2>4. Makes(c, {"correct"}, row)
    BY <1>2, <1>5, <1>6, <2>1, <2>3 DEF Makes
  <2>. QED  BY <1>10, <2>2, <2>4
<1>11. CASE row[1] = "attention" /\ db[row].status \in {"resolved", "dismissed"}
  <2>1. DOMAIN v.row = DOMAIN r /\ v.row.status = r.status /\ DOMAIN r = {"text", "status"}
    BY <1>6, <1>8, <1>9, <1>11 DEF Shaped
  <2>. QED  BY <1>6, <1>8, <1>11, <2>1 DEF Merged
<1>. QED  BY <1>10, <1>11

\* Where stale reads are refused, what a person settled stays settled whatever
\* runs are in progress: a human-authoritative object changes by a correction
\* alone, and an attention item that was closed stays closed (put_object,
\* put_attention and the transition table of move_attention).
THEOREM SettledStays == Spec => SettledStaysSettled
<1>. DEFINE Kept ==
       Serializable =>
         \A row \in DOMAIN db :
           /\ row[1] = "object" /\ db[row].authority = "human" /\ db'[row] # db[row]
                => /\ db'[row].authority = "human"
                   /\ \E c \in Caller : Makes(c, {"correct"}, row)
           /\ row[1] = "attention" /\ db[row].status \in {"resolved", "dismissed"}
                => db'[row].status = db[row].status
<1>1. Sound /\ [Next]_vars => [Kept]_vars
  BY SettledByStep
<1>2. Spec => [][Kept]_vars
  BY <1>1, SoundHolds, PTL DEF Spec
<1>. QED  BY <1>2 DEF SettledStaysSettled

-----------------------------------------------------------------------------
(* What a run leaves behind that had the records to itself *)

Current(row, d) == IF row \in DOMAIN d THEN d[row] ELSE Absent

\* The records d read as the call p of a plan asks.
Agrees(p, d) == /\ p.row \in DOMAIN d /\ d[p.row].text = p.text
                /\ p.op = "correct" => d[p.row].authority = "human"

WellMade(row, r) ==
  /\ "text" \in DOMAIN r
  /\ row[1] = "object" => r = [text |-> r.text, authority |-> r.authority]
  /\ row[1] = "role"   => r = [text |-> r.text]

\* A run with a plan is making its calls; while nobody else writes, what it
\* loaded is current and the records read as it left them.
Peaceful(k, d) ==
  /\ k.phase = "loaded" => k.row = Current(Head(k.todo).row, d)
  /\ \A j \in 1 .. Len(k.plan) - Len(k.todo) : Agrees(k.plan[j], d)
CallSteady(c, k, d) ==
  /\ k.plan # <<>> => c \in Runner /\ k.phase \in {"ready", "loaded"} /\ Fits(k.plan)
  /\ c \in Runner /\ k.phase \in {"ready", "loaded"} =>
       /\ k.plan # <<>>
       /\ k.alone /\ ~Reworded(k.plan) => Peaceful(k, d)

\* Since the last run that finished, nothing was written but what it planned.
StillAgrees(p, d) == p # <<>> /\ (~Reworded(p) => \A j \in DOMAIN p : Agrees(p[j], d))

Steady == /\ \A row \in DOMAIN db : WellMade(row, db[row])
          /\ \A c \in Caller : CallSteady(c, calls[c], db)
          /\ clean => StillAgrees(finished, db)

\* What each operation makes of the record it loaded when it writes.
Wrote(call, r, row) ==
  /\ "text" \in DOMAIN row
  /\ call.row[1] = "object" => /\ DOMAIN row = {"text", "authority"}
                               /\ r = Absent =>
                                    row = [text |-> call.text, authority |-> "working_model"]
  /\ call.row[1] = "role" => row = [text |-> call.text]
  /\ call.op \in PlanOps => row.text = call.text
  /\ call.op = "put" /\ r # Absent => row.authority = r.authority
  /\ call.op = "correct" => r # Absent /\ row.authority = "human"

LEMMA Writes ==
  ASSUME NEW call, Proper(call), NEW r, r = Absent \/ Shaped(call.row, r),
         NEW v, v = Decide(call, r), v.verdict = "write"
  PROVE  Wrote(call, r, v.row)
<1>. USE DEF Wrote, Shaped, Same, Write, Refused, Proper, Kinds, PlanOps
<1>1. CASE call.op \in {"put", "correct"}
  BY <1>1 DEF Decide, PutObject, CorrectObject
<1>2. CASE call.op \in {"bind", "record"}
  BY <1>2 DEF Decide, BindEvidence, RecordChange
<1>3. CASE call.op = "attend"
  BY <1>3 DEF Decide, PutAttention
<1>4. CASE call.op = "move"
  BY <1>4 DEF Decide, MoveAttention, AttentionMoves
<1>5. CASE call.op \in {"role", "attribute", "mechanism"}
  BY <1>5 DEF Decide, SetEvidenceRole, RecordAttribution, RecordMechanism
<1>6. CASE call.op \in {"assign", "effect", "criterion"}
  BY <1>6 DEF Decide, AssignResponsibility, RecordConstraintEffect, RecordCriterion, Upsert
<1>. QED  BY <1>1, <1>2, <1>3, <1>4, <1>5, <1>6

\* What is found the same reads as the call asks.
LEMMA SameAgrees ==
  ASSUME NEW call, Proper(call), call.op \in PlanOps, NEW r, WellMade(call.row, r),
         NEW v, v = Decide(call, r), v.verdict = "same"
  PROVE  r.text = call.text /\ (call.op = "correct" => r.authority = "human")
<1>. USE DEF WellMade, Same, Write, Refused, Proper, Kinds, PlanOps
<1>1. CASE call.op \in {"put", "correct"}
  BY <1>1 DEF Decide, PutObject, CorrectObject
<1>2. CASE call.op \in {"bind", "record"}
  BY <1>2 DEF Decide, BindEvidence, RecordChange
<1>3. CASE call.op = "attend"
  BY <1>3 DEF Decide, PutAttention
<1>4. CASE call.op = "role"
  BY <1>4 DEF Decide, SetEvidenceRole
<1>5. CASE call.op \in {"assign", "effect"}
  BY <1>5 DEF Decide, AssignResponsibility, RecordConstraintEffect, Upsert
<1>. QED  BY <1>1, <1>2, <1>3, <1>4, <1>5

\* A call whose record reads as it asks changes nothing.
LEMMA AgreeingIsQuiet ==
  ASSUME NEW call, Proper(call), call.op \in PlanOps, NEW r, WellMade(call.row, r),
         r.text = call.text, call.op = "correct" => r.authority = "human",
         NEW v, v = Decide(call, r)
  PROVE  v.verdict = "same" \/ (v.verdict = "write" /\ v.row = r)
<1>0. r # Absent
  BY DEF WellMade, Absent
<1>. USE <1>0 DEF WellMade, Same, Write, Refused, Proper, Kinds, PlanOps
<1>1. CASE call.op = "put"
  BY <1>1 DEF Decide, PutObject
<1>6. CASE call.op = "correct"
  <2>1. r = [text |-> call.text, authority |-> "human"]
    <3>1. call.row[1] = "object" /\ r.authority = "human"
      BY <1>6
    <3>2. r = [text |-> r.text, authority |-> r.authority]
      BY <3>1 DEF WellMade
    <3>. QED  BY <3>1, <3>2
  <2>. QED  BY <1>6, <2>1 DEF Decide, CorrectObject
<1>2. CASE call.op \in {"bind", "record"}
  BY <1>2 DEF Decide, BindEvidence, RecordChange
<1>3. CASE call.op = "attend"
  BY <1>3 DEF Decide, PutAttention
<1>4. CASE call.op = "role"
  BY <1>4 DEF Decide, SetEvidenceRole
<1>5. CASE call.op \in {"assign", "effect"}
  BY <1>5 DEF Decide, AssignResponsibility, RecordConstraintEffect, Upsert
<1>. QED  BY <1>1, <1>2, <1>3, <1>4, <1>5, <1>6

\* What the unit of work makes of a record that was read as r and is now what
\* another transaction made of it.
LEMMA MergedReads ==
  ASSUME NEW call, Proper(call), NEW r, NEW now, NEW row, Wrote(call, r, row),
         NEW new, new = Merged(now, r, row)
  PROVE  /\ WellMade(call.row, new)
         /\ call.op \in PlanOps /\ (r = Absent \/ r = now \/ now.text = call.text)
              => new.text = call.text
         /\ call.op = "correct" /\ (r = now \/ now.authority = "human")
              => new.authority = "human"
         /\ call.op \in {"put", "correct"} /\ r # Absent /\ now.authority = "human"
              => new.authority = "human"
<1>1. CASE r = Absent
  <2>1. new = row
    BY <1>1 DEF Merged
  <2>. QED  BY <1>1, <2>1 DEF Wrote, WellMade, Proper, Kinds
<1>2. CASE r # Absent
  <2>1. new = [f \in DOMAIN row |-> IF row[f] # r[f] THEN row[f] ELSE now[f]]
    BY <1>2 DEF Merged
  <2>2. WellMade(call.row, new)
    <3>1. "text" \in DOMAIN new
      BY <2>1 DEF Wrote
    <3>2. ASSUME call.row[1] = "object" PROVE new = [text |-> new.text, authority |-> new.authority]
      BY <2>1, <3>2 DEF Wrote
    <3>3. ASSUME call.row[1] = "role" PROVE new = [text |-> new.text]
      BY <2>1, <3>3 DEF Wrote
    <3>. QED  BY <3>1, <3>2, <3>3 DEF WellMade
  <2>3. new.text = IF row.text # r.text THEN row.text ELSE now.text
    BY <2>1 DEF Wrote
  <2>4. call.op \in {"put", "correct"} =>
          new.authority = IF row.authority # r.authority THEN row.authority ELSE now.authority
    BY <2>1 DEF Wrote, Proper, Kinds
  <2>. QED  BY <1>2, <2>2, <2>3, <2>4 DEF Wrote
<1>. QED  BY <1>1, <1>2

\* Writing a call of a plan keeps what agreed with the plan.
Keeping(call, d, e) ==
  \A p : Proper(p) /\ Agrees(p, d) /\ (p.row = call.row => p.text = call.text) => Agrees(p, e)

\* The call that c is about to commit, its plan and what is left of it.
LEMMA RunAt ==
  ASSUME Sound, Steady, NEW c \in Caller, calls[c].phase = "loaded", calls[c].plan # <<>>
  PROVE  LET k == calls[c]
             call == Head(k.todo)
         IN /\ c \in Runner /\ Planned(k.plan) /\ Fits(k.plan) /\ call.op \in PlanOps
            /\ Len(k.plan) \in Nat /\ DOMAIN k.plan = 1 .. Len(k.plan)
            /\ Len(k.todo) \in Nat \ {0} /\ Len(k.todo) <= Len(k.plan)
            /\ call = k.plan[Len(k.plan) - Len(k.todo) + 1]
            /\ ~Reworded(k.plan) => \A j \in DOMAIN k.plan :
                                      k.plan[j].row = call.row => k.plan[j].text = call.text
<1>. DEFINE k == calls[c]
            call == Head(k.todo)
<1>1. c \in Runner /\ Fits(k.plan)
  BY DEF Steady, CallSteady
<1>2. Waiting(k) /\ Underway(k, db)
  BY <1>1 DEF Sound, CallSound
<1>3. Planned(k.plan) /\ Len(k.plan) \in Nat /\ DOMAIN k.plan = 1 .. Len(k.plan)
  BY <1>2, Sequenced DEF Underway, Planned
<1>4. call = k.todo[1] /\ Len(k.todo) \in Nat \ {0}
  BY <1>2, NextCall
<1>5. PICK n \in 0 .. Len(k.plan) : Rest(k.todo, k.plan, n)
  BY <1>2 DEF Underway
<1>. HIDE DEF k, call
<1>6. Len(k.todo) = Len(k.plan) - n /\ \A j \in 1 .. Len(k.todo) : k.todo[j] = k.plan[n + j]
  BY <1>5 DEF Rest
<1>7. n + 1 \in DOMAIN k.plan /\ call = k.plan[n + 1] /\ n + 1 = Len(k.plan) - Len(k.todo) + 1
      /\ Len(k.todo) <= Len(k.plan)
  BY <1>3, <1>4, <1>6
<1>8. call.op \in PlanOps
  BY <1>1, <1>7 DEF Fits
<1>9. ASSUME ~Reworded(k.plan), NEW j \in DOMAIN k.plan, k.plan[j].row = call.row
      PROVE  k.plan[j].text = call.text
  BY <1>1, <1>7, <1>9 DEF Fits, Agreeing
<1>10. call = k.plan[Len(k.plan) - Len(k.todo) + 1]
  BY <1>7, Zenon
<1>. QED  BY <1>1, <1>3, <1>4, <1>7, <1>8, <1>9, <1>10 DEF k, call

\* Another caller's step does not disturb a run that is no longer alone.
LEMMA OthersStaySteady ==
  ASSUME NEW c, NEW k, NEW d, NEW e, DOMAIN k = DOMAIN Idle, CallSteady(c, k, d)
  PROVE  /\ CallSteady(c, [k EXCEPT !.alone = FALSE], e)
         /\ k.phase \notin {"ready", "loaded"} => CallSteady(c, k, e)
<1>1. PICK u : u = [k EXCEPT !.alone = FALSE]
  OBVIOUS
<1>2. u.alone = FALSE /\ u.phase = k.phase /\ u.plan = k.plan
  BY <1>1 DEF Idle
<1>3. CallSteady(c, u, e)
  BY <1>2 DEF CallSteady
<1>. QED  BY <1>1, <1>3 DEF CallSteady

LEMMA IdleIsSteady ==
  ASSUME NEW c, NEW d
  PROVE  CallSteady(c, Idle, d)
BY DEF CallSteady, Idle

\* A caller that made a call goes on; a run whose last call this was leaves the
\* records as it planned them when nobody else wrote.
LEMMA GoingOnIsSteady ==
  ASSUME Sound, Steady, NEW c \in Caller, calls[c].phase = "loaded", NEW wrote \in BOOLEAN,
         Advance(c, wrote), NEW e, ~wrote => e = db,
         Head(calls[c].todo).op \in PlanOps =>
           /\ Keeping(Head(calls[c].todo), db, e)
           /\ calls[c].row = At(Head(calls[c].todo).row) => Agrees(Head(calls[c].todo), e)
  PROVE  /\ \A d \in Caller : CallSteady(d, calls'[d], e)
         /\ clean' => StillAgrees(finished', e)
<1>. DEFINE k == calls[c]
            call == Head(k.todo)
            rest == Tail(k.todo)
            n == Len(k.plan) - Len(k.todo)
<1>1. CallSteady(c, k, db) /\ Waiting(k) /\ DOMAIN k = DOMAIN Idle
  BY DEF Steady, Sound, CallSound, Waiting
<1>2. /\ Proper(call) /\ Len(rest) = Len(k.todo) - 1 /\ Len(k.todo) \in Nat \ {0}
      /\ rest = <<>> => Len(k.todo) = 1
  BY <1>1, NextCall
<1>3. ASSUME k.plan # <<>>
      PROVE  /\ c \in Runner /\ Planned(k.plan) /\ Fits(k.plan) /\ call.op \in PlanOps
             /\ Len(k.plan) \in Nat /\ DOMAIN k.plan = 1 .. Len(k.plan)
             /\ n \in Nat /\ n < Len(k.plan) /\ call = k.plan[n + 1]
             /\ ~Reworded(k.plan) => \A j \in DOMAIN k.plan :
                                       k.plan[j].row = call.row => k.plan[j].text = call.text
  <2>1. /\ c \in Runner /\ Planned(k.plan) /\ Fits(k.plan) /\ call.op \in PlanOps
        /\ Len(k.plan) \in Nat /\ DOMAIN k.plan = 1 .. Len(k.plan)
        /\ Len(k.todo) \in Nat \ {0} /\ Len(k.todo) <= Len(k.plan)
        /\ call = k.plan[n + 1]
        /\ ~Reworded(k.plan) => \A j \in DOMAIN k.plan :
                                  k.plan[j].row = call.row => k.plan[j].text = call.text
    BY <1>3, RunAt
  <2>2. n \in Nat /\ n < Len(k.plan)
    <3>1. \A a \in Nat, b \in Nat \ {0} : b <= a => a - b \in Nat /\ a - b < a
      OBVIOUS
    <3>. QED  BY <2>1, <3>1, Zenon DEF n
  <2>. QED  BY <2>1, <2>2
<1>. HIDE DEF n
\* What agreed with the plan still does.
<1>4. ASSUME k.plan # <<>>, ~Reworded(k.plan), NEW j \in DOMAIN k.plan, Agrees(k.plan[j], db)
      PROVE  Agrees(k.plan[j], e)
  <2>1. Proper(k.plan[j])
    BY <1>3, <1>4 DEF Planned, Range
  <2>2. Keeping(call, db, e)
    BY <1>3, <1>4
  <2>. QED  BY <1>3, <1>4, <2>1, <2>2 DEF Keeping
\* A run that was alone agrees with one more call of its plan.
<1>5. ASSUME c \in Runner, k.alone, ~Reworded(k.plan)
      PROVE  \A j \in 1 .. n + 1 : Agrees(k.plan[j], e)
  <2>1. k.plan # <<>> /\ Peaceful(k, db)
    BY <1>1, <1>5 DEF CallSteady
  <2>2. k.row = At(call.row) /\ \A j \in 1 .. n : Agrees(k.plan[j], db)
    BY <2>1 DEF Peaceful, Current, At, n
  <2>3. Agrees(call, e)
    BY <1>3, <2>1, <2>2
  <2>4. ASSUME NEW j \in 1 .. n + 1 PROVE Agrees(k.plan[j], e)
    <3>1. j = n + 1 \/ (j \in 1 .. n /\ j \in DOMAIN k.plan)
      BY <1>3, <2>1
    <3>2. CASE j = n + 1
      BY <1>3, <2>1, <2>3, <3>2
    <3>3. CASE j \in 1 .. n /\ j \in DOMAIN k.plan
      BY <1>4, <1>5, <2>1, <2>2, <3>3
    <3>. QED  BY <3>1, <3>2, <3>3
  <2>. QED  BY <2>4
<1>6. ASSUME NEW d \in Caller, d # c PROVE CallSteady(d, calls'[d], e)
  <2>1. CallSteady(d, calls[d], db) /\ DOMAIN calls[d] = DOMAIN Idle
    BY DEF Steady, Sound, CallSound, Waiting
  <2>2. CASE wrote /\ calls[d].phase # "idle"
    <3>1. calls'[d] = [calls[d] EXCEPT !.alone = FALSE]
      BY <1>6, <2>2 DEF Advance
    <3>. QED  BY <2>1, <3>1, OthersStaySteady
  <2>3. CASE wrote /\ calls[d].phase = "idle"
    <3>1. calls'[d] = calls[d]
      BY <1>6, <2>3 DEF Advance
    <3>. QED  BY <2>1, <2>3, <3>1, OthersStaySteady
  <2>4. CASE ~wrote
    <3>1. calls'[d] = calls[d] /\ e = db
      BY <1>6, <2>4 DEF Advance
    <3>. QED  BY <2>1, <3>1
  <2>. QED  BY <2>2, <2>3, <2>4
<1>7. CallSteady(c, calls'[c], e)
  <2>1. CASE rest = <<>>
    <3>1. calls'[c] = Idle
      BY <2>1 DEF Advance
    <3>. QED  BY <3>1, IdleIsSteady
  <2>2. CASE rest # <<>>
    <3>1. PICK u : u = [k EXCEPT !.phase = "ready", !.todo = rest, !.row = Absent]
      OBVIOUS
    <3>2. calls'[c] = u
      BY <2>2, <3>1 DEF Advance
    <3>3. /\ u.phase = "ready" /\ u.todo = rest /\ u.plan = k.plan /\ u.alone = k.alone
      BY <1>1, <3>1 DEF Idle
    <3>4. k.plan # <<>> => c \in Runner /\ Fits(k.plan)
      BY <1>3
    <3>5. c \in Runner => k.plan # <<>>
      BY <1>1 DEF CallSteady
    <3>6. ASSUME c \in Runner, k.alone, ~Reworded(k.plan) PROVE Peaceful(u, e)
      <4>1. Len(u.plan) - Len(u.todo) = n + 1
        <5>1. Len(k.plan) \in Nat /\ Len(u.plan) = Len(k.plan) /\ Len(u.todo) = Len(k.todo) - 1
              /\ Len(k.todo) \in Nat
          BY <1>2, <1>3, <3>3, <3>5, <3>6
        <5>2. \A a, b \in Nat : a - (b - 1) = (a - b) + 1
          OBVIOUS
        <5>3. Len(k.plan) - (Len(k.todo) - 1) = (Len(k.plan) - Len(k.todo)) + 1
          BY <5>1, <5>2, Zenon
        <5>. QED  BY <5>1, <5>3, Zenon DEF n
      <4>2. \A j \in 1 .. n + 1 : Agrees(k.plan[j], e)
        BY <1>5, <3>6
      <4>. QED  BY <3>3, <4>1, <4>2 DEF Peaceful
    <3>7. CallSteady(c, u, e)
      BY <3>3, <3>4, <3>5, <3>6 DEF CallSteady
    <3>. QED  BY <3>2, <3>7
  <2>. QED  BY <2>1, <2>2
<1>8. ASSUME clean' PROVE StillAgrees(finished', e)
  <2>1. CASE rest = <<>> /\ c \in Runner
    <3>1. finished' = k.plan /\ k.alone
      BY <1>8, <2>1 DEF Advance
    <3>2. k.plan # <<>>
      BY <1>1, <2>1 DEF CallSteady
    <3>3. n + 1 = Len(k.plan)
      <4>1. Len(k.todo) = 1 /\ Len(k.plan) \in Nat
        BY <1>2, <1>3, <2>1, <3>2
      <4>. HIDE DEF k
      <4>. QED  BY <4>1 DEF n
    <3>4. ~Reworded(k.plan) => \A j \in DOMAIN k.plan : Agrees(k.plan[j], e)
      BY <1>3, <1>5, <2>1, <3>1, <3>2, <3>3
    <3>. QED  BY <3>1, <3>2, <3>4 DEF StillAgrees
  <2>2. CASE ~(rest = <<>> /\ c \in Runner)
    <3>1. finished' = finished /\ clean /\ (wrote => k.plan = finished)
      BY <1>8, <2>2 DEF Advance
    <3>2. StillAgrees(finished, db)
      BY <3>1 DEF Steady
    <3>3. CASE ~wrote
      BY <3>1, <3>2, <3>3
    <3>4. CASE wrote
      <4>1. k.plan = finished /\ k.plan # <<>>
        BY <3>1, <3>2, <3>4 DEF StillAgrees
      <4>2. ~Reworded(k.plan) => \A j \in DOMAIN k.plan : Agrees(k.plan[j], e)
        BY <1>4, <3>2, <4>1 DEF StillAgrees
      <4>. QED  BY <3>1, <4>1, <4>2 DEF StillAgrees
    <3>. QED  BY <3>3, <3>4
  <2>. QED  BY <2>1, <2>2
<1>. QED  BY <1>6, <1>7, <1>8

LEMMA CommittingKeepsSteady ==
  ASSUME Sound, Steady, NEW c \in Caller, Commit(c)
  PROVE  Steady'
<1>1. PICK call : call = Head(calls[c].todo)
  OBVIOUS
<1>2. PICK r : r = calls[c].row
  OBVIOUS
<1>3. PICK v : v = Decide(call, r)
  OBVIOUS
<1>4. /\ calls[c].phase = "loaded" /\ CallSound(c, calls[c], db) /\ Proper(call)
  BY <1>1, NextCall DEF Commit, Sound, CallSound
<1>5. /\ r # Absent => call.row \in DOMAIN db /\ Shaped(call.row, r)
      /\ r = Absent => call.row \notin DOMAIN db
  BY <1>1, <1>2, <1>4 DEF CallSound, Loaded, Commit, Collides
<1>6. CASE v.verdict = "same" /\ Advance(c, FALSE) /\ UNCHANGED db
  <2>1. Keeping(call, db, db)
    BY DEF Keeping
  <2>2. ASSUME call.op \in PlanOps, r = At(call.row) PROVE Agrees(call, db)
    <3>1. call.row \in DOMAIN db /\ r = db[call.row]
      <4>1. r # Absent
        <5>1. Decided(call, r, v)
          BY <1>3, <1>4, <1>5, Decisions
        <5>. QED  BY <1>6, <5>1 DEF Decided
      <4>. QED  BY <1>5, <2>2, <4>1 DEF At
    <3>2. WellMade(call.row, r)
      BY <3>1 DEF Steady
    <3>. QED  BY <1>3, <1>4, <1>6, <2>2, <3>1, <3>2, SameAgrees DEF Agrees
  <2>3. /\ \A d \in Caller : CallSteady(d, calls'[d], db)
        /\ clean' => StillAgrees(finished', db)
    BY <1>1, <1>2, <1>4, <1>6, <2>1, <2>2, GoingOnIsSteady
  <2>. QED  BY <1>6, <2>3 DEF Steady
<1>7. ASSUME v.verdict = "write", Advance(c, TRUE), NEW now, NEW new, NEW e,
             now = At(call.row), new = Merged(now, r, v.row),
             e = [row \in DOMAIN db \cup {call.row} |-> IF row = call.row THEN new ELSE db[row]],
             db' = e
      PROVE  Steady'
  <2>1. Wrote(call, r, v.row)
    BY <1>3, <1>4, <1>5, <1>7, Writes
  <2>2. /\ WellMade(call.row, new)
        /\ call.op \in PlanOps /\ (r = Absent \/ r = now \/ now.text = call.text)
             => new.text = call.text
        /\ call.op = "correct" /\ (r = now \/ now.authority = "human")
             => new.authority = "human"
        /\ call.op \in {"put", "correct"} /\ r # Absent /\ now.authority = "human"
             => new.authority = "human"
    BY <1>4, <1>7, <2>1, MergedReads
  <2>3. \A row \in DOMAIN e : WellMade(row, e[row])
    BY <1>7, <2>2 DEF Steady
  <2>4. e[call.row] = new /\ call.row \in DOMAIN e
    BY <1>7
  <2>5. ASSUME call.op \in PlanOps, r = now PROVE Agrees(call, e)
    BY <2>2, <2>4, <2>5 DEF Agrees
  <2>6. ASSUME call.op \in PlanOps PROVE Keeping(call, db, e)
    <3>1. ASSUME NEW p, Proper(p), Agrees(p, db), p.row = call.row => p.text = call.text
          PROVE  Agrees(p, e)
      <4>1. CASE p.row # call.row
        BY <1>7, <3>1, <4>1 DEF Agrees
      <4>2. CASE p.row = call.row
        <5>1. now = db[call.row] /\ now.text = call.text /\ r # Absent
          BY <1>5, <1>7, <3>1, <4>2 DEF Agrees, At
        <5>2. new.text = p.text
          BY <2>2, <2>6, <3>1, <4>2, <5>1
        <5>3. ASSUME p.op = "correct" PROVE new.authority = "human"
          <6>1. call.op \in {"put", "correct"}
            BY <1>4, <2>6, <3>1, <4>2, <5>3 DEF Proper, Kinds, PlanOps
          <6>2. now.authority = "human"
            BY <3>1, <4>2, <5>1, <5>3 DEF Agrees
          <6>. QED  BY <2>2, <5>1, <6>1, <6>2
        <5>. QED  BY <2>4, <4>2, <5>2, <5>3 DEF Agrees
      <4>. QED  BY <4>1, <4>2
    <3>. QED  BY <3>1 DEF Keeping
  <2>7. /\ \A d \in Caller : CallSteady(d, calls'[d], e)
        /\ clean' => StillAgrees(finished', e)
    BY <1>1, <1>2, <1>4, <1>7, <2>5, <2>6, GoingOnIsSteady
  <2>. QED  BY <1>7, <2>3, <2>7 DEF Steady
<1>8. \/ v.verdict = "same" /\ Advance(c, FALSE) /\ UNCHANGED db
      \/ /\ v.verdict = "write" /\ Advance(c, TRUE)
         /\ db' = [row \in DOMAIN db \cup {call.row} |->
                     IF row = call.row THEN Merged(At(call.row), r, v.row) ELSE db[row]]
  BY <1>1, <1>2, <1>3 DEF Commit
<1>. QED  BY <1>6, <1>7, <1>8

\* One caller's state becomes k, and nothing is written.
LEMMA OneCallKeepsSteady ==
  ASSUME Sound, Steady, NEW c \in Caller, NEW k, CallSteady(c, k, db),
         calls' = [calls EXCEPT ![c] = k], UNCHANGED <<db, finished, clean>>
  PROVE  Steady'
BY DEF Steady, Sound

LEMMA LoadingKeepsSteady ==
  ASSUME Sound, Steady, NEW c \in Caller, Load(c) \/ Retry(c)
  PROVE  Steady'
<1>1. /\ CallSteady(c, calls[c], db) /\ calls[c].phase \in {"ready", "loaded"}
      /\ DOMAIN calls[c] = DOMAIN Idle
  BY DEF Sound, Steady, Load, Retry, CallSound, Waiting
<1>2. ASSUME NEW phase \in {"ready", "loaded"}, NEW r,
             phase = "loaded" => r = At(Head(calls[c].todo).row),
             calls' = [calls EXCEPT ![c] = [calls[c] EXCEPT !.phase = phase, !.row = r]],
             UNCHANGED <<db, finished, clean>>
      PROVE  Steady'
  <2>1. PICK k : k = [calls[c] EXCEPT !.phase = phase, !.row = r]
    OBVIOUS
  <2>2. /\ k.phase = phase /\ k.row = r /\ k.todo = calls[c].todo /\ k.plan = calls[c].plan
        /\ k.alone = calls[c].alone
    BY <1>1, <2>1 DEF Idle
  <2>3. Peaceful(calls[c], db) => Peaceful(k, db)
    BY <1>2, <2>2 DEF Peaceful, Current, At
  <2>4. CallSteady(c, k, db)
    BY <1>1, <2>2, <2>3 DEF CallSteady
  <2>. QED  BY <1>2, <2>1, <2>4, OneCallKeepsSteady
<1>3. CASE Load(c)
  <2>1. calls' = [calls EXCEPT ![c] =
                   [calls[c] EXCEPT !.phase = "loaded", !.row = At(Head(calls[c].todo).row)]]
    BY <1>3 DEF Load, Sound
  <2>. QED  BY <1>2, <1>3, <2>1 DEF Load
<1>4. CASE Retry(c)
  <2>1. calls' = [calls EXCEPT ![c] = [calls[c] EXCEPT !.phase = "ready", !.row = Absent]]
    BY <1>4 DEF Retry, Sound
  <2>. QED  BY <1>2, <1>4, <2>1 DEF Retry
<1>. QED  BY <1>3, <1>4

LEMMA PlanningKeepsSteady ==
  ASSUME Sound, Steady, NEW r \in Runner, PlanRun(r)
  PROVE  Steady'
<1>0. PICK p \in Provided :
        LET seen == calls[r].seen
            plan == PlanFor(domain, seen.evidence,
                            Beside(p.compared, p.judged, p.approved, seen.roles))
        IN calls' = [calls EXCEPT ![r].phase = "ready", ![r].plan = plan, ![r].todo = plan,
                                  ![r].seen = <<>>]
  BY DEF PlanRun
<1>. DEFINE ev == calls[r].seen.evidence
            ctx == Beside(p.compared, p.judged, p.approved, calls[r].seen.roles)
<1>1. PICK plan : /\ plan = PlanFor(domain, ev, ctx)
                  /\ calls' = [calls EXCEPT ![r].phase = "ready", ![r].plan = plan,
                                            ![r].todo = plan, ![r].seen = <<>>]
  BY <1>0
<1>. HIDE DEF ev, ctx
<1>2. r \in Caller /\ DOMAIN calls[r] = DOMAIN Idle
  BY DEF Caller, Sound, CallSound, Waiting
<1>3. Fits(plan) /\ plan # <<>> /\ Len(plan) \in Nat
  BY <1>1, PlansArePlanned, Sequenced DEF Sound, Planned
<1>4. PICK k : k = [calls[r] EXCEPT !.phase = "ready", !.plan = plan, !.todo = plan, !.seen = <<>>]
  OBVIOUS
<1>5. k.phase = "ready" /\ k.todo = plan /\ k.plan = plan
  BY <1>2, <1>4 DEF Idle
<1>6. Peaceful(k, db)
  <2>1. Len(plan) - Len(plan) = 0
    BY <1>3
  <2>. QED  BY <1>5, <2>1 DEF Peaceful
<1>7. CallSteady(r, k, db)
  BY <1>3, <1>5, <1>6 DEF CallSteady
<1>8. calls' = [calls EXCEPT ![r] = k]
  BY <1>1, <1>2, <1>4 DEF Sound
<1>. QED  BY <1>2, <1>7, <1>8, OneCallKeepsSteady DEF PlanRun

LEMMA NextKeepsSteady == Sound /\ Steady /\ [Next]_vars => Steady'
<1>. SUFFICES ASSUME Sound, Steady, [Next]_vars PROVE Steady'
  OBVIOUS
<1>1. CASE UNCHANGED vars \/ EvidenceMoves
  <2>1. UNCHANGED <<db, calls, finished, clean>>
    BY <1>1 DEF vars, EvidenceMoves
  <2>. QED  BY <2>1 DEF Steady
<1>2. ASSUME NEW r \in Runner, ReadEvidence(r) PROVE Steady'
  <2>1. PICK seen : calls' = [calls EXCEPT ![r] = [Idle EXCEPT !.phase = "planning", !.seen = seen]]
    BY <1>2 DEF ReadEvidence
  <2>2. CallSteady(r, [Idle EXCEPT !.phase = "planning", !.seen = seen], db)
    BY DEF CallSteady, Idle
  <2>. QED  BY <1>2, <2>1, <2>2, OneCallKeepsSteady DEF ReadEvidence, Caller
<1>3. ASSUME NEW r \in Runner, PlanRun(r) PROVE Steady'
  BY <1>3, PlanningKeepsSteady
<1>4. ASSUME NEW c \in Caller, Abandon(c) \/ Refuse(c) PROVE Steady'
  BY <1>4, IdleIsSteady, OneCallKeepsSteady DEF Abandon, Refuse
<1>5. ASSUME NEW p \in Person, Ask(p) PROVE Steady'
  <2>1. PICK todo : calls' = [calls EXCEPT ![p] = [Idle EXCEPT !.phase = "ready", !.todo = todo]]
    BY <1>5 DEF Ask
  <2>2. CallSteady(p, [Idle EXCEPT !.phase = "ready", !.todo = todo], db)
    BY RunsAssumption DEF CallSteady, Idle
  <2>. QED  BY <1>5, <2>1, <2>2, OneCallKeepsSteady DEF Ask, Caller
<1>6. ASSUME NEW c \in Caller, Load(c) \/ Retry(c) PROVE Steady'
  BY <1>6, LoadingKeepsSteady
<1>7. ASSUME NEW c \in Caller, Commit(c) PROVE Steady'
  BY <1>7, CommittingKeepsSteady
<1>. QED  BY <1>1, <1>2, <1>3, <1>4, <1>5, <1>6, <1>7 DEF Next, Caller

LEMMA InitSteady == Init => Steady
<1>. SUFFICES ASSUME Init PROVE Steady
  OBVIOUS
<1>1. DOMAIN db = {}
  BY Single DEF Init, Range
<1>2. \A c \in Caller : CallSteady(c, calls[c], db)
  BY IdleIsSteady DEF Init
<1>. QED  BY <1>1, <1>2 DEF Init, Steady

\* A run whose plan is the one that was finished finds each record as it asks.
LEMMA SteadyMeansQuiet == Sound /\ Steady => RerunIsQuiet
<1>. SUFFICES ASSUME Sound, Steady, NEW r \in Runner,
                     calls[r].plan # <<>>, calls[r].plan = finished, clean, ~Reworded(finished),
                     NEW j \in DOMAIN calls[r].todo
              PROVE  LET decided == Decide(calls[r].todo[j], At(calls[r].todo[j].row))
                     IN \/ decided.verdict = "same"
                        \/ decided.verdict = "write" /\ decided.row = At(calls[r].todo[j].row)
  BY DEF RerunIsQuiet
<1>1. PICK k : k = calls[r]
  OBVIOUS
<1>2. /\ CallSteady(r, k, db) /\ CallSound(r, k, db) /\ StillAgrees(k.plan, db)
  BY <1>1 DEF Steady, Sound, Caller
<1>3. k.phase \in {"ready", "loaded"} /\ Fits(k.plan) /\ Planned(k.plan) /\ Planned(k.todo)
  BY <1>1, <1>2 DEF CallSteady, CallSound, Waiting, Underway
<1>4. PICK n \in 0 .. Len(k.plan) : Rest(k.todo, k.plan, n)
  BY <1>2, <1>3 DEF CallSound, Underway
<1>5. /\ Len(k.plan) \in Nat /\ DOMAIN k.plan = 1 .. Len(k.plan)
      /\ DOMAIN k.todo = 1 .. Len(k.todo)
  BY <1>3, Sequenced DEF Planned
<1>6. n + j \in DOMAIN k.plan /\ k.todo[j] = k.plan[n + j]
  <2>1. j \in 1 .. Len(k.todo) /\ Len(k.todo) = Len(k.plan) - n
    BY <1>1, <1>4, <1>5 DEF Rest
  <2>2. k.todo[j] = k.plan[n + j]
    BY <1>4, <2>1 DEF Rest
  <2>. QED  BY <1>5, <2>1, <2>2
<1>7. PICK call : call = k.todo[j]
  OBVIOUS
<1>8. Proper(call) /\ call.op \in PlanOps /\ Agrees(call, db)
  BY <1>1, <1>2, <1>3, <1>6, <1>7 DEF Planned, Range, Fits, StillAgrees
<1>9. PICK x : x = At(call.row)
  OBVIOUS
<1>10. /\ WellMade(call.row, x) /\ x.text = call.text
       /\ call.op = "correct" => x.authority = "human"
  BY <1>8, <1>9 DEF Agrees, At, Steady
<1>11. PICK v : v = Decide(call, x)
  OBVIOUS
<1>12. v.verdict = "same" \/ (v.verdict = "write" /\ v.row = x)
  BY <1>8, <1>10, <1>11, AgreeingIsQuiet
<1>. QED  BY <1>1, <1>7, <1>9, <1>11, <1>12

\* Rerunning a synthesis changes nothing: a run whose plan is the one that was
\* last recorded, with nothing else written since, is refused nowhere and leaves
\* every record as it is, unless two candidates of the plan share an identity
\* key under two wordings (the identity keys and change detection of
\* synthesis_service.py).
THEOREM RerunsAreQuiet == Spec => []RerunIsQuiet
<1>1. Spec => []Steady
  BY InitSteady, NextKeepsSteady, SoundHolds, PTL DEF Spec
<1>. QED  BY <1>1, SoundHolds, SteadyMeansQuiet, PTL
=============================================================================
