----------------------------- MODULE MCBriefing -----------------------------
(* Instances of Briefing for TLC: any project of two items and one recorded  *)
(* unknown, and the requests that tell the tools and the policies apart.     *)
EXTENDS MCReadiness, Briefing

CONSTANT i3

KindOfThree == i3 :> "unknown" @@ KindOfItem
SourcesOfThree == i3 :> {} @@ SourcesOfItem
SaySame == {<<i1, i2>>}
Said == {i1, i3}
ExcludeNeeds == {{}, {needs}}

\* The projects a history of changes can lead to: links name existing items, at
\* most one per area, and claims of a divided area only; no area takes unknowns.
LinksOf(i) ==
  {l \in SUBSET ({i} \X {needs} \X {NoClaim} \cup {i} \X {value} \X {NoClaim, pain, gain}) :
     Cardinality({k \in l : k[2] = value}) <= 1}
Projects ==
  {f \in [life : [Item -> Lifecycle],
          links : {l \cup m : l \in LinksOf(i1), m \in LinksOf(i2)},
          contradictions : SUBSET {<<i1, i2>>}, blockers : {{}, {"critical"}, {"minor"}}] :
     /\ \A l \in f.links : f.life[l[1]] # "absent"
     /\ \A i \in {i1, i2} : f.contradictions # {} => f.life[i] # "absent"
     /\ f.life[i3] \in {"absent", "proposed"}
     /\ f.life[i3] # "absent" => f.contradictions = {} /\ f.blockers = {}}

\* The projects that change while they are answered about; the others have
\* changed already.
Changing(f) ==
  /\ f.contradictions = {} /\ f.blockers = {} /\ f.life[i3] = "absent"
  /\ \A i \in {i1, i2} : /\ f.life[i] \in {"proposed", "validated"}
                         /\ \E c \in {pain, gain} : <<i, value, c>> \in f.links

NoControls == [profile |-> Unset, detail |-> Unset, max_output_tokens |-> Unset]
ById == [id |-> "id", key |-> Unset]
Request(tool, named, arguments) == [tool |-> tool, named |-> named, arguments |-> arguments]
Plain == {Request(tool, ById, NoControls) : tool \in {"briefing", "decisions"}}
Controls == [profile : {Unset, "economy", "detailed", "custom"}, detail : {Unset, "standard"},
             max_output_tokens : {Unset, 0, 30000}]
Worded == {Request(tool, named, arguments) :
             tool \in {"briefing", "readiness", "clarifications", "answer"},
             named \in Naming, arguments \in Controls}

\* Every form of request about the empty project, the plain ones about any.
RequestsAbout(f) == IF f = NoFacts THEN Plain \cup Worded ELSE Plain

SpecAnyAnswer ==
  /\ facts \in Projects
  /\ revision = (IF Changing(facts) THEN 0 ELSE MaxRevision)
  /\ past = [n \in 1 .. revision + 1 |-> facts]
  /\ snapshots = <<>> /\ clock = 0 /\ isolation \in Isolation
  /\ calc = [c \in Calculator |-> NotRunning]
  /\ answer = NoAnswer
  /\ [][BriefingNext]_bvars
=============================================================================
