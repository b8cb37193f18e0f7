---------------------------- MODULE EvidenceGraph ----------------------------
(***************************************************************************)
(* How pieces of evidence bear on each other (reconciliation_service.py    *)
(* over domain/reconciliation.py): one transaction reads what may still be *)
(* used, plans edges and roles, and records an event for the state it saw. *)
(***************************************************************************)
EXTENDS Transactions

CONSTANTS
  Evidence,
  About,      \* evidence -> its kind, whether it is negated, its standing, its place by
              \* length and identifier
  Alike,      \* pairs whose wordings overlap enough, as sets of two
  Resolves,   \* <<i, j>>: i names what j asks for, by identity or as a candidate
  Suffices    \* <<i, j>>: i says an area is done, j still asks to go through it

EvidenceRow(i)       == <<"evidence", i>>
RelationRow(i, j, t) == <<"relation", i, j, t>>
RoleRow(i)           == <<"role", i>>
EventRow(key)        == <<"event", key>>
Retrievable == {"proposed", "validated"}

-----------------------------------------------------------------------------
(* plan_reconciliation                                                     *)

SameKind(i, j) == i # j /\ {i, j} \in Alike /\ About[i].kind = About[j].kind
SupportPair(i, j) == SameKind(i, j) /\ About[i].negated = About[j].negated
PolarityConflict(i, j) == SameKind(i, j) /\ About[i].negated # About[j].negated
Canonical(members) == CHOOSE i \in members : \A j \in members : About[i].place <= About[j].place

\* The items that chains of pairs join with this one: those in every set that
\* has it and no pair leads out of.
Joined(item, pairs) ==
  LET items == {item} \cup {p[2] : p \in pairs}
  IN {i \in items : \A S \in SUBSET items :
        item \in S /\ (\A p \in pairs : p[1] \in S => p[2] \in S) => i \in S}

\* Every member of a cluster supports its longest statement.
SupportEdges(considered) ==
  LET pairs == {p \in considered : SupportPair(p[1], p[2])}
      items == {p[1] : p \in pairs}
  IN {<<i, Canonical(Joined(i, pairs)), "supports">> : i \in items}
     \ {<<i, i, "supports">> : i \in items}

\* _conflict_direction: the accepted side first, then the one whose sources can
\* establish more, then by identifier.
Precedes(i, j, seen) ==
  LET accepted == {k \in {i, j} : seen[EvidenceRow(k)].life = "validated"}
  IN IF accepted \in {{i}, {j}} THEN accepted = {i}
     ELSE IF About[i].standing # About[j].standing THEN About[i].standing > About[j].standing
     ELSE About[i].place < About[j].place
SufficiencyConflict(i, j, seen) ==
  /\ <<i, j>> \in Suffices /\ ~PolarityConflict(i, j)
  /\ seen[EvidenceRow(i)].life = "validated" /\ seen[EvidenceRow(j)].life = "proposed"
ConflictEdges(considered, seen) ==
  {<<p[1], p[2], "contradicts">> : p \in {q \in considered :
     \/ PolarityConflict(q[1], q[2]) /\ Precedes(q[1], q[2], seen)
     \/ SufficiencyConflict(q[1], q[2], seen)}}

\* The best of what settles an unknown supersedes it.
ResolutionEdges(considered) ==
  LET resolving == considered \cap Resolves
  IN {<<Canonical({p[1] : p \in {q \in resolving : q[2] = j}}), j, "supersedes">> :
        j \in {p[2] : p \in resolving}}

\* What a plan is made over, in the fields a plan looks at.
Snapshots(seen) ==
  {i \in Evidence : EvidenceRow(i) \in DOMAIN seen /\ seen[EvidenceRow(i)].life \in Retrievable}
Plan(focus, seen) ==
  LET items == Snapshots(seen)
      considered == {p \in items \X items : focus = {} \/ p[1] \in focus \/ p[2] \in focus}
  IN SupportEdges(considered) \cup ConflictEdges(considered, seen) \cup ResolutionEdges(considered)

\* _roles_for: resolved outranks conflicting outranks supporting; what is
\* sufficient is not itself in conflict with what is left over.
Roles(edges) ==
  LET resolved    == {e[2] : e \in {f \in edges : f[3] = "supersedes"}}
      conflicting == UNION {IF PolarityConflict(e[1], e[2]) THEN {e[1], e[2]} ELSE {e[2]} :
                              e \in {f \in edges : f[3] = "contradicts"}}
      supporting  == {e[1] : e \in {f \in edges : f[3] = "supports"}}
  IN [i \in resolved \cup conflicting \cup supporting |->
        IF i \in resolved THEN "resolved" ELSE IF i \in conflicting THEN "conflicting"
        ELSE "supporting"]

-----------------------------------------------------------------------------
(* reconcile                                                               *)

Digest(seen) == {<<r[2], seen[r].life>> : r \in {s \in Kind("evidence", seen) :
                                                   seen[s].life \in Retrievable}}
Fingerprint(edges, seen) ==
  [digest |-> Digest(seen),
   counts |-> [t \in {"supports", "contradicts", "supersedes"} |->
                 Cardinality({e \in edges : e[3] = t})]]

\* Mutant of MayAssign: noise is a role like any other.
MayAssignAny(i, role, seen) == RoleRow(i) \notin DOMAIN seen \/ seen[RoleRow(i)].role # role
MayAssign(i, role, seen) ==
  RoleRow(i) \notin DOMAIN seen \/ seen[RoleRow(i)].role \notin {role, "noise"}

\* _persist_edges: an edge between two items of one type is written once.
MissingEdges(edges, seen) == {RelationRow(e[1], e[2], e[3]) : e \in edges} \ DOMAIN seen

\* An event under this key replays it, or refuses another outcome; otherwise
\* edges and roles that are missing are written, and none is taken away.
Reconcile(call, seen) ==
  LET edges == Plan(call.focus, seen)
      key   == EventRow(IF call.key = Nothing THEN <<"reconciliation", Digest(seen)>> ELSE call.key)
      print == Fingerprint(edges, seen)
      roles == Roles(edges)
      missing == MissingEdges(edges, seen)
      changed == {i \in DOMAIN roles : MayAssign(i, roles[i], seen)}
      AsRole(kept) == [r \in {RoleRow(i) : i \in kept} |-> [role |-> roles[r[2]]]]
      known == {i \in changed : RoleRow(i) \in DOMAIN seen}
  IN IF key \in DOMAIN seen THEN IF seen[key].print = print THEN Same ELSE Refused
     ELSE Writes(Over(One(key, [print |-> print]),
                      Over([r \in missing |-> [resolved |-> FALSE]], AsRole(changed \ known))),
                 AsRole(known), Nothing)

\* set_evidence_role, by a person; resolve_contradiction; decisions about the
\* evidence.
SetNoise(call, seen) ==
  IF RoleRow(call.item) \in DOMAIN seen THEN Update(RoleRow(call.item), [role |-> "noise"])
  ELSE Insert(RoleRow(call.item), [role |-> "noise"])
ResolveContradiction(call, seen) ==
  IF call.row \in DOMAIN seen /\ ~seen[call.row].resolved
  THEN Update(call.row, [resolved |-> TRUE]) ELSE Same
Judge(call, seen) ==
  Update(EvidenceRow(call.item), Changed([life |-> call.life], seen[EvidenceRow(call.item)]))

EvidenceRequests(d, n) ==
  [op : {"reconcile"}, key : {Nothing, <<"client", n>>}, focus : {{}} \cup {{i} : i \in Evidence}]
  \cup [op : {"set noise"}, item : Evidence]
  \cup [op : {"judge"}, item : Evidence, life : {"validated", "rejected"}]
  \cup [op : {"resolve contradiction"},
        row : {r \in Kind("relation", d) : r[4] = "contradicts"}]
Reconciling(call) == call.op \in {"reconcile", "set noise", "judge", "resolve contradiction"}
EvidenceReads(call, d) ==
  CASE call.op = "reconcile" -> Kind("evidence", d) \cup Kind("relation", d) \cup Kind("role", d)
                                \cup Kind("event", d)
    [] call.op = "set noise" -> {RoleRow(call.item)}
    [] call.op = "judge"     -> {EvidenceRow(call.item)}
    [] OTHER                 -> {call.row}
EvidenceOutcome(call, seen) ==
  CASE call.op = "reconcile" -> Reconcile(call, seen)
    [] call.op = "set noise" -> SetNoise(call, seen)
    [] call.op = "judge"     -> Judge(call, seen)
    [] OTHER                 -> ResolveContradiction(call, seen)

-----------------------------------------------------------------------------
(* Properties *)

\* No pass over the evidence takes back what a person called noise, one that was
\* under way at the time included.
NoiseStands ==
  \A r \in Kind("role", tables) : tables[r].role = "noise" => tables'[r].role = "noise"
=============================================================================
