--------------------------- MODULE ProductModules ---------------------------
(***************************************************************************)
(* The modules of the product and how they relate (module_service.py over  *)
(* domain/modules.py).  A new edge is checked against the edges there are; *)
(* reads trust that check.                                                 *)
(***************************************************************************)
EXTENDS Transactions, SequencesExt

CONSTANTS
  ModuleKey,  \* the keys modules are named by
  Statement   \* knowledge a module may satisfy or be verified by

ModuleRow(k) == <<"module", k>>
EdgeRow(n)   == <<"edge", n>>

\* ACYCLIC, EXCLUSIVE and KNOWLEDGE_TARGETED; "consumes" stands for "exposes"
\* and "satisfies" for "verified_by" as well.
Acyclic == {"depends_on", "owns"}
Exclusive == {"owns"}
KnowledgeTargeted == {"satisfies"}
Relation == Acyclic \cup KnowledgeTargeted \cup {"consumes"}

-----------------------------------------------------------------------------
(* ModuleGraph                                                             *)

Edges(d) == {d[r] : r \in Kind("edge", d)}
Outgoing(m, relation, edges) ==
  {e.target : e \in {f \in edges : f.source = m /\ f.relation = relation}}
Incoming(m, relation, edges) ==
  {e.source : e \in {f \in edges : f.target = m /\ f.relation = relation}}

\* No edge of this relation leads out of S.
Closed(S, relation, edges) == \A m \in S : Outgoing(m, relation, edges) \subseteq S
\* The goal is in every closed set the start is in.
Reaches(start, goal, relation, edges) ==
  \A S \in SUBSET ({start} \cup {e.target : e \in edges}) :
    start \in S /\ Closed(S, relation, edges) => goal \in S

\* Mutant of WouldCycle: one step back is all that is looked for.
WouldCycleAtOnce(edge, edges) ==
  /\ edge.relation \in Acyclic
  /\ edge.source \in Outgoing(edge.target, edge.relation, edges)
WouldCycle(edge, edges) ==
  edge.relation \in Acyclic /\ Reaches(edge.target, edge.source, edge.relation, edges)

OwnersOf(m, edges) == Incoming(m, "owns", edges)
\* ensure_edge_allowed
EdgeAllowed(edge, edges) ==
  /\ ~WouldCycle(edge, edges)
  /\ edge.relation \in Exclusive => OwnersOf(edge.target, edges) \subseteq {edge.source}

\* build_order: layer after layer of the modules that need nothing more; no
\* order at all when what is left needs itself.
NeedsNothing(pending, edges) ==
  {m \in pending : Outgoing(m, "depends_on", edges) \cap pending = {}}
Layers(modules, edges) ==
  LET after[n \in 0 .. Cardinality(modules)] ==
        IF n = 0 THEN [ordered |-> <<>>, pending |-> modules]
        ELSE LET before == after[n - 1]
                 ready  == NeedsNothing(before.pending, edges)
             IN [ordered |-> before.ordered \o SetToSeq(ready), pending |-> before.pending \ ready]
  IN after[Cardinality(modules)]
BuildOrder(d) ==
  LET layers == Layers({r[2] : r \in Kind("module", d)}, Edges(d))
  IN IF layers.pending = {} THEN layers.ordered ELSE <<Nothing>>

-----------------------------------------------------------------------------
(* Writes                                                                  *)

\* define: the module that has this key, or a new one.
Define(call, seen) ==
  IF ModuleRow(call.key) \in DOMAIN seen THEN Same
  ELSE Insert(ModuleRow(call.key), [status |-> "proposed"])

Known(key, seen) == ModuleRow(key) \in DOMAIN seen

\* An edge names one target, a module or a statement, and never its source.
\* Its row is new each time: the unique constraint on an edge's four columns
\* holds nothing apart, as one of the two targets is null in every row.
Relate(call, seen) ==
  LET edge == [source |-> call.source, relation |-> call.relation, target |-> call.target]
      moduleTargeted == call.relation \notin KnowledgeTargeted
  IN IF /\ Known(call.source, seen)
        /\ moduleTargeted => Known(call.target, seen) /\ call.target # call.source
        /\ EdgeAllowed(edge, Edges(seen))
     THEN Insert(EdgeRow(call.id), edge) ELSE Refused

ConfirmModule(call, seen) ==
  IF Known(call.key, seen)
  THEN Update(ModuleRow(call.key), Changed([status |-> "confirmed"], seen[ModuleRow(call.key)]))
  ELSE Refused

-----------------------------------------------------------------------------
(* What a client may ask                                                   *)

DefineRequests == [op : {"define"}, key : ModuleKey]
RelateRequests(n) ==
  [op : {"relate"}, id : {n}, source : ModuleKey, relation : Relation \ KnowledgeTargeted,
   target : ModuleKey]
  \cup [op : {"relate"}, id : {n}, source : ModuleKey, relation : KnowledgeTargeted,
        target : Statement]
ConfirmRequests == [op : {"confirm module"}, key : ModuleKey]

Designing(call) == call.op \in {"define", "relate", "confirm module"}
ModuleReads(call, d) ==
  IF call.op = "relate"
  THEN {ModuleRow(call.source), ModuleRow(call.target)} \cup Kind("edge", d)
  ELSE {ModuleRow(call.key)}
ModuleOutcome(call, seen) ==
  CASE call.op = "define"         -> Define(call, seen)
    [] call.op = "relate"         -> Relate(call, seen)
    [] call.op = "confirm module" -> ConfirmModule(call, seen)

-----------------------------------------------------------------------------
(* Properties *)

\* Where stale reads are refused, the graph can always be answered from,
\* whichever edges were added beside each other: every module is in the build
\* order once and after all it depends on, and no module has two owners.
GraphAnswers ==
  Serializable =>
    LET order == BuildOrder(tables)
        edges == Edges(tables)
    IN /\ ToSet(order) = {r[2] : r \in Kind("module", tables)}
       /\ \A i, j \in DOMAIN order :
            order[j] \in Outgoing(order[i], "depends_on", edges) => j < i
       /\ \A e, f \in edges : e.relation = "owns" /\ f.relation = "owns" /\ e.target = f.target
                                => e.source = f.source
=============================================================================
