---------------------------- MODULE MCReadiness ----------------------------
(* Instances of Readiness for TLC: two areas, one of them divided into two  *)
(* claims, and a second template version that asks for more.                *)
EXTENDS Readiness, TLC

CONSTANTS i1, i2, needs, value, pain, gain, c1, c2

KindOfItem == i1 :> "goal" @@ i2 :> "requirement"
SourcesOfItem == i1 :> {"inference"} @@ i2 :> {"grounded", "inference"}
NoClaims == [c \in {} |-> 1]
Definition(weight, mandatory, kinds, claims) ==
  [weight |-> weight, mandatory |-> mandatory, kinds |-> kinds, minimum |-> 1,
   claims |-> claims]
Templates ==
  1 :> (needs :> Definition(1, FALSE, {"requirement", "goal"}, NoClaims)
        @@ value :> Definition(2, TRUE, {"goal", "requirement"}, NoClaims))
  @@ 2 :> (needs :> Definition(1, TRUE, {"requirement"}, NoClaims)
           @@ value :> Definition(2, TRUE, {"goal", "requirement"}, pain :> 1 @@ gain :> 1))
\* One undivided area, which the second version narrows.
NarrowTemplates ==
  1 :> (value :> Definition(2, TRUE, {"goal", "requirement"}, NoClaims))
  @@ 2 :> (value :> Definition(2, TRUE, {"requirement"}, NoClaims))
\* One process still ships version 1, the other version 2.
Services == c1 :> 1 @@ c2 :> 2

\* Calculations while a project with two candidates changes.
SpecCandidates ==
  /\ facts = [NoFacts EXCEPT !.life = [i \in Item |-> "proposed"]]
  /\ revision = 0 /\ past = <<facts>>
  /\ snapshots = <<>> /\ clock = 0 /\ isolation \in Isolation
  /\ calc = [c \in Calculator |-> NotRunning]
  /\ [][Next]_vars

ExcludeNothing == {{}}
=============================================================================
