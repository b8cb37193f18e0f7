--------------------------- MODULE SynthesisPlans ---------------------------
(***************************************************************************)
(* What one synthesis run would write: the eight planners of               *)
(* domain/synthesizers and the services that turn a plan into calls of     *)
(* SynthesisService, in the order they are made.  Pure: a plan is a        *)
(* function of the evidence and of what a run reads beside it.             *)
(*                                                                         *)
(* What a synthesizer reads in a wording (its regular expressions) is the  *)
(* constant Reading; identity_key_for is Key; whether two wordings measure *)
(* as one idea is Theme.                                                   *)
(***************************************************************************)
EXTENDS Integers, FiniteSets, Sequences, SequencesExt, TLC

CONSTANTS
  ItemOrder,   \* the knowledge items of the project by id, as a sequence
  KeyOrder,    \* the identity keys, sorted
  Statement,   \* wordings
  Key,         \* Statement -> its identity key: case, spacing, punctuation dropped
  Theme,       \* Statement -> the idea it is within CLUSTER_RADIUS of
  Reading,     \* Statement -> what the patterns find in it
  AreaOf,      \* Item -> the readiness area it is linked to
  Nothing,     \* no subject, no area, no source
  AttentionBound

Item == Range(ItemOrder)

ASSUME PlansAssumption ==
  /\ ItemOrder \in Seq(Item) /\ IsInjective(ItemOrder) /\ KeyOrder \in Seq(Range(KeyOrder))
  /\ Key \in [Statement -> Range(KeyOrder)] /\ AttentionBound \in Nat
  /\ DOMAIN Theme = Statement /\ DOMAIN Reading = Statement /\ DOMAIN AreaOf = Item

Retrievable == {"proposed", "validated"}

\* The calls a plan is made of; row names the record the call is about.
Put(k, s)        == [op |-> "put", row |-> <<"object", k>>, text |-> s]
CorrectTo(k, s)  == [op |-> "correct", row |-> <<"object", k>>, text |-> s]
Bind(k, i, kind) == [op |-> "bind", row |-> <<"link", k, i>>, text |-> kind]
Role(i, role)    == [op |-> "role", row |-> <<"role", i>>, text |-> role]
Assign(k, x, v)  == [op |-> "assign", row |-> <<"cell", k, x>>, text |-> v]
Reach(k, i, v)   == [op |-> "effect", row |-> <<"effect", k, i>>, text |-> v]
Attend(k, text)  == [op |-> "attend", row |-> <<"attention", k>>, text |-> text]
Record(key, s)   == [op |-> "record", row |-> <<"event", key>>, text |-> s]

Chain(seq, Calls(_)) == FlattenSeq([j \in DOMAIN seq |-> Calls(seq[j])])
Chosen(seq, S) == FlattenSeq([j \in DOMAIN seq |-> IF seq[j] \in S THEN <<seq[j]>> ELSE <<>>])
Tally(seq, S)  == Cardinality({j \in DOMAIN seq : seq[j] \in S})

-----------------------------------------------------------------------------
(* Candidates: the wordings that say the same once normalised              *)

Live(ev, i, domain) == ev[i].kind = domain /\ ev[i].life \in Retrievable
LiveItems(ev, domain) == Chosen(ItemOrder, {i \in Item : Live(ev, i, domain)})

MembersOf(ev, domain, k) ==
  Chosen(ItemOrder, {i \in Item : Live(ev, i, domain) /\ Key[ev[i].says] = k})

Candidates(ev, domain) ==
  LET spoken == Chosen(KeyOrder, {k \in Range(KeyOrder) : MembersOf(ev, domain, k) # <<>>})
      of(k) == MembersOf(ev, domain, k)
  IN [j \in DOMAIN spoken |->
        [key |-> spoken[j], members |-> of(spoken[j]), text |-> ev[Head(of(spoken[j]))].says,
         confirmed |-> \E i \in Range(of(spoken[j])) : ev[i].life = "validated"]]

Bound(c) == [j \in DOMAIN c.members |-> Bind(c.key, c.members[j], "supports")]
\* put_object and bind_evidence for one candidate; a person's confirmation is
\* written as a correction in between.
PutAndBind(c) == <<Put(c.key, c.text)>> \o Bound(c)
SettleAndBind(c, settled) ==
  <<Put(c.key, c.text)>> \o (IF settled THEN <<CorrectTo(c.key, c.text)>> ELSE <<>>) \o Bound(c)

-----------------------------------------------------------------------------
(* Clusters: the items whose wordings measure as one idea                  *)

\* Without vectors nothing is comparable and every item stands alone.
ClusterOf(ev, items, i, compared) ==
  Chosen(items, {j \in Item : j = i \/ (compared /\ Theme[ev[j].says] = Theme[ev[i].says])})

Clusters(ev, items, compared) ==
  LET heads == Chosen(items, {i \in Range(items) : Head(ClusterOf(ev, items, i, compared)) = i})
      of(j) == ClusterOf(ev, items, heads[j], compared)
  IN [j \in DOMAIN heads |->
        [key |-> Key[ev[heads[j]].says], members |-> of(j), text |-> ev[heads[j]].says]]

-----------------------------------------------------------------------------
(* The domains: what a planner makes of the candidates, and the calls the  *)
(* service makes of that                                                   *)

\* A candidate with more than one member is promoted when nobody can judge.
Promoted(c, ctx) ==
  ~Reading[c.text].local /\ IF ctx.judged THEN c.text \in ctx.approved ELSE Len(c.members) > 1
PlanGoals(ev, ctx) ==
  LET items == LiveItems(ev, "goal")
      all == Clusters(ev, items, ctx.compared)
      promoted == Chosen(all, {c \in Range(all) : Promoted(c, ctx)})
      calls(c) == <<Put(c.key, c.text)>> \o Bound(c)
                  \o [j \in 1 .. Len(c.members) - 1 |-> Role(c.members[j + 1], "supporting")]
      n == Len(promoted)
  IN Chain(promoted, calls)
     \o <<Record(<<Len(items), n>>, <<n, Len(all) - n, Len(items), ctx.compared>>)>>

\* What a theme is raised with: how often it was asked and what it blocks.
Explain(c) == <<c.text, Len(c.members), Reading[c.text].blocks>>
\* theme_priority: blocking a required area outranks every repetition; the first
\* asked comes first among equals.
ByRepetition(clusters, most) ==
  Chain([n \in 1 .. most |-> most - n + 1],
        LAMBDA n : Chosen(clusters, {c \in Range(clusters) : Len(c.members) = n}))
UnknownThemes(ev, items, ctx) ==
  LET current == Chosen(items, {i \in Item :
                   ctx.roles[i] \in {"active", "supporting", "conflicting"}})
      all == Clusters(ev, current, ctx.compared)
      blocking == {c \in Range(all) : Reading[c.text].blocks}
      ranked(S) == ByRepetition(Chosen(all, S), Len(items))
  IN ranked(blocking) \o ranked(Range(all) \ blocking)
PlanUnknowns(ev, ctx) ==
  LET items == LiveItems(ev, "unknown")
      themes == UnknownThemes(ev, items, ctx)
      raised == SubSeq(themes, 1, IF Len(themes) < AttentionBound THEN Len(themes) ELSE AttentionBound)
      answered == Tally(items, {i \in Item :
                    ctx.roles[i] \notin {"active", "supporting", "conflicting"}})
      calls(c) == PutAndBind(c) \o <<Attend(c.key, Explain(c))>>
  IN Chain(raised, calls)
     \o <<Record(<<Len(items), ctx.compared>>,
                 <<Len(themes), Len(items), answered, Len(raised)>>)>>

\* An AI role or a system is never accountable: it does the work instead.
Letter(s) == IF Reading[s].letter = "accountable" /\ ~Reading[s].human
             THEN "responsible" ELSE Reading[s].letter
\* A second accountable party for a subject is a conflict, not a cell.
RoleModel(all) ==
  LET claims == Chosen(all, {c \in Range(all) : /\ Reading[c.text].subject # Nothing
                                                /\ Reading[c.text].letter # Nothing})
      accountable(j) == Letter(claims[j].text) = "accountable"
      torn == {claims[j] : j \in {k \in DOMAIN claims : accountable(k) /\
                 \E i \in 1 .. k - 1 :
                   /\ accountable(i)
                   /\ Reading[claims[i].text].subject = Reading[claims[k].text].subject}}
  IN [held |-> Chosen(claims, Range(claims) \ torn), torn |-> Chosen(claims, torn),
      downgraded |-> Tally(claims, {c \in Range(claims) : Letter(c.text) # Reading[c.text].letter})]
PlanActors(ev, ctx) ==
  LET all == Candidates(ev, "actor")
      model == RoleModel(all)
      assign(c) == <<Assign(c.key, Reading[c.text].subject, Letter(c.text))>>
      contest(c) == <<Attend(<<"conflict", c.key>>, Reading[c.text].subject)>>
  IN Chain(all, PutAndBind) \o Chain(model.held, assign) \o Chain(model.torn, contest)
     \o <<Record(<<Len(all), Len(model.held)>>,
                 <<Len(all), Len(model.held), Len(model.torn), model.downgraded, Len(all)>>)>>

\* The proposals linked to an area that nobody has decided on.
OpenProposals(ev, area) ==
  Cardinality({i \in Item : ev[i].life = "proposed" /\ AreaOf[i] = area})
\* A confirmed decision is the project's unless its wording is about a session;
\* one that calls an area sufficient conflicts with proposals still open there.
DecisionModel(ev, all) ==
  LET settled(c) == c.confirmed /\ ~Reading[c.text].session
      about == {c \in Range(all) : Reading[c.text].session}
  IN [settled |-> Chosen(all, {c \in Range(all) : settled(c)}),
      awaiting |-> Tally(all, {c \in Range(all) \ about : ~settled(c)}),
      session |-> Tally(all, about),
      conflicts |-> Chosen(all, {c \in Range(all) :
        /\ settled(c) /\ Reading[c.text].sufficient # Nothing
        /\ OpenProposals(ev, Reading[c.text].sufficient) > 0})]
PlanDecisions(ev, ctx) ==
  LET all == Candidates(ev, "decision")
      model == DecisionModel(ev, all)
      calls(c) == SettleAndBind(c, c \in Range(model.settled))
      contest(c) == <<Attend(<<"conflict", c.key>>, OpenProposals(ev, Reading[c.text].sufficient))>>
  IN Chain(all, calls) \o Chain(model.conflicts, contest)
     \o <<Record(<<Len(all), model.awaiting>>,
                 <<Len(all), model.awaiting, Len(model.conflicts), model.session, Len(all)>>)>>

\* What another kind of item has established.
Established(ev) ==
  {ev[i].says : i \in {j \in Item : ev[j].kind # "assumption" /\ ev[j].life = "validated"}}
\* What is about reading the conversation, or already established, is no
\* assumption; one nobody accepted needs validation if its falsity matters.
AssumptionModel(ev, all) ==
  LET known(c) == /\ Reading[c.text].terms # {}
                  /\ \E f \in Established(ev) : Reading[c.text].terms \subseteq Reading[f].terms
      assumed == Chosen(all, {c \in Range(all) : ~Reading[c.text].local /\ ~known(c)})
      scaffolding == Tally(all, {c \in Range(all) : Reading[c.text].local})
  IN [assumed |-> assumed, scaffolding |-> scaffolding,
      resolved |-> Len(all) - scaffolding - Len(assumed),
      needing |-> Tally(assumed, {c \in Range(all) : ~c.confirmed /\ Reading[c.text].matters})]
PlanAssumptions(ev, ctx) ==
  LET all == Candidates(ev, "assumption")
      model == AssumptionModel(ev, all)
      calls(c) == SettleAndBind(c, c.confirmed)
  IN Chain(model.assumed, calls)
     \o <<Record(<<Len(all), model.needing>>,
                 <<Len(model.assumed), model.needing, model.scaffolding, model.resolved, Len(all)>>)>>

\* A boundary answers an open item when it speaks of all the item asks about,
\* and narrows it when they share two terms.
Effect(c, says) ==
  LET shared == Reading[c].terms \cap Reading[says].terms
  IN IF ~Reading[c].restricts \/ Reading[says].terms = {} THEN Nothing
     ELSE IF Reading[says].terms \subseteq Reading[c].terms THEN "resolves"
     ELSE IF Cardinality(shared) >= 2 THEN <<"narrows", shared>> ELSE Nothing
OpenItems(ev) == Chosen(ItemOrder, {i \in Item : /\ ev[i].kind \in {"unknown", "assumption"}
                                                 /\ ev[i].life \in Retrievable})
EffectsOf(ev, c) ==
  LET reached == Chosen(OpenItems(ev), {i \in Item : Effect(c.text, ev[i].says) # Nothing})
  IN [j \in DOMAIN reached |-> Reach(c.key, reached[j], Effect(c.text, ev[reached[j]].says))]
\* Only the effects of accepted boundaries are written.
PlanConstraints(ev, ctx) ==
  LET all == Candidates(ev, "constraint")
      accepted == Chosen(all, {c \in Range(all) : c.confirmed})
      effects(c) == EffectsOf(ev, c)
      total(seq) == Len(Chain(seq, effects))
  IN Chain(all, PutAndBind) \o Chain(accepted, effects)
     \o <<Record(<<Len(all), total(accepted)>>,
                 <<Len(all), total(accepted), total(all) - total(accepted), Len(OpenItems(ev))>>)>>

\* A requirement is implementation-ready when it is observable, accepted and
\* has a criterion somebody wrote.
RequirementModel(all, criteria) ==
  LET required == Chosen(all, {c \in Range(all) : Reading[c.text].requires})
  IN [required |-> required,
      ready |-> Tally(required, {c \in Range(all) : /\ Reading[c.text].form = "observable"
                                                    /\ c.confirmed /\ c.key \in criteria}),
      split |-> Tally(required, {c \in Range(all) : Reading[c.text].form = "compound"})]
PlanRequirements(ev, ctx) ==
  LET all == Candidates(ev, "requirement")
      model == RequirementModel(all, ctx.criteria)
      n == Len(model.required)
  IN Chain(model.required, PutAndBind)
     \o <<Record(<<Len(all), n>>, <<n, Len(all) - n, model.split, model.ready>>)>>

\* A rule is active when its attribution stands, and a control when something
\* enforces it.
RuleModel(all, ctx) ==
  LET active == {c \in Range(all) : c.key \in ctx.standing}
  IN [active |-> Tally(all, active),
      controls |-> Tally(all, {c \in active : c.key \in ctx.enforced}),
      unattributed |-> Tally(all, {c \in Range(all) : c.key \notin ctx.attributed})]
PlanRules(ev, ctx) ==
  LET all == Candidates(ev, "rule")
      model == RuleModel(all, ctx)
  IN Chain(all, PutAndBind)
     \o <<Record(<<Len(all), model.active>>,
                 <<Len(all), model.active, model.controls, model.unattributed>>)>>

Domain == {"goal", "unknown", "actor", "decision", "assumption", "constraint",
           "requirement", "rule"}

PlanFor(domain, ev, ctx) ==
  CASE domain = "goal"        -> PlanGoals(ev, ctx)
    [] domain = "unknown"     -> PlanUnknowns(ev, ctx)
    [] domain = "actor"       -> PlanActors(ev, ctx)
    [] domain = "decision"    -> PlanDecisions(ev, ctx)
    [] domain = "assumption"  -> PlanAssumptions(ev, ctx)
    [] domain = "constraint"  -> PlanConstraints(ev, ctx)
    [] domain = "requirement" -> PlanRequirements(ev, ctx)
    [] domain = "rule"        -> PlanRules(ev, ctx)
=============================================================================
