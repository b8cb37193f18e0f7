---------------------------- MODULE Transactions ----------------------------
(***************************************************************************)
(* How a unit of work meets the database (persistence/transactions.py and  *)
(* SQLAlchemy's session): the call reads rows, decides, and on commit      *)
(* inserts rows and updates the attributes it changed.  CockroachDB        *)
(* refuses stale reads and the call is made again; at PostgreSQL's default *)
(* isolation only the constraints of the tables stand between two calls.   *)
(*                                                                         *)
(* The services whose every operation is such a unit say what each call    *)
(* reads, when it takes a lock, and what it decides; this module gives     *)
(* those operations their interleavings.                                   *)
(***************************************************************************)
EXTENDS Integers, Sequences, FiniteSets

CONSTANTS
  Caller,          \* requests that may be in progress at once
  MaxCalls,        \* bound: calls ever made
  Isolation,       \* the isolation levels to consider
  Service,         \* the services to explore, one in each behaviour
  Nothing,         \* a value that is not there
  Beginning(_),    \* service: the rows there are at first
  Requests(_, _, _), \* service, rows, fresh identifier: what a client may ask
  Reads(_, _),     \* call, rows: the rows it reads first
  Locks(_, _),     \* call, what it read: the rows its first flush locks
  ReadsLater(_, _), \* call, rows: the rows it reads after that
  Outcome(_, _),   \* call, what it read: what it does
  Outside(_),      \* call: it reads or writes files, which no transaction guards
  Unique(_)        \* rows: the constraints that are not on a row's key

ASSUME TransactionsAssumption ==
  MaxCalls \in Nat /\ Isolation \subseteq {"serializable", "read committed"}

VARIABLES
  tables,     \* row -> its attributes, for the rows that exist
  calls,      \* Caller -> the call in progress, what it read and locked
  made,       \* calls made so far
  service,    \* the service this behaviour is about
  isolation

vars == <<tables, calls, made, service, isolation>>

Serializable == isolation = "serializable"
Idle == [phase |-> "idle", call |-> Nothing, seen |-> <<>>, locks |-> {}]
NoRows == [r \in {} |-> Nothing]
One(row, value) == [r \in {row} |-> value]
Over(new, old) == [r \in DOMAIN new \cup DOMAIN old |-> IF r \in DOMAIN new THEN new[r] ELSE old[r]]
Only(rows, d) == [r \in rows \cap DOMAIN d |-> d[r]]
Kind(kind, d) == {r \in DOMAIN d : r[1] = kind}

-----------------------------------------------------------------------------
(* What a call decides                                                     *)

\* One insert, one update, several of each, and then another call of the same
\* client in a transaction of its own, or none; and the one that follows when a
\* constraint refuses the inserts.
Writes(inserts, updates, then) ==
  [verdict |-> "done", inserts |-> inserts, updates |-> updates, deletes |-> {}, then |-> then,
   clash |-> Nothing]
Insert(row, value) == Writes(One(row, value), NoRows, Nothing)
Update(row, value) == Writes(NoRows, One(row, value), Nothing)
Same    == Writes(NoRows, NoRows, Nothing)
Delete(rows) == [Same EXCEPT !.deletes = rows]
Goto(call) == Writes(NoRows, NoRows, call)
Refused == [Same EXCEPT !.verdict = "refused"]

\* The attributes of a new value that differ from the loaded one: the unit of
\* work sends no others.
Changed(new, was) == [a \in {b \in DOMAIN new : new[b] # was[b]} |-> new[a]]
Written(d, o) ==
  Over(o.inserts, [r \in DOMAIN d \ o.deletes |->
                     IF r \in DOMAIN o.updates THEN Over(o.updates[r], d[r]) ELSE d[r]])

-----------------------------------------------------------------------------
(* A call                                                                  *)

Is(c, phase) == calls[c].phase = phase
Keep == UNCHANGED <<tables, made, service, isolation>>
Ready(call)  == [Idle EXCEPT !.phase = "ready", !.call = call]
Continue(c, call) == calls' = [calls EXCEPT ![c] = IF call = Nothing THEN Idle ELSE Ready(call)]

Begin(c) ==
  /\ Is(c, "idle") /\ made < MaxCalls
  /\ \E call \in Requests(service, tables, made + 1) : Continue(c, call)
  /\ made' = made + 1
  /\ UNCHANGED <<tables, service, isolation>>

Load(c) ==
  /\ Is(c, "ready")
  /\ LET call == calls[c].call
         seen == Only(Reads(call, tables), tables)
     IN calls' = [calls EXCEPT ![c].seen = seen,
                    ![c].phase = IF Locks(call, seen) = {} THEN "deciding" ELSE "flushing"]
  /\ Keep

Free(c, rows) == \A d \in Caller \ {c} : calls[d].locks \cap rows = {}

\* A flush updates rows before the last read; another call that updates one of
\* them waits until this one commits.
Flush(c) ==
  LET call == calls[c].call
      rows == Locks(call, calls[c].seen)
      later == Only(ReadsLater(call, tables), tables)
  IN /\ Is(c, "flushing") /\ Free(c, rows)
     /\ calls' = [calls EXCEPT ![c].phase = "deciding", ![c].locks = rows, ![c].seen = Over(@, later)]
     /\ Keep

\* What the call read so far is not what the rows hold.
Stale(c) ==
  LET call == calls[c].call
      rows == Reads(call, tables) \cup IF calls[c].locks = {} THEN {} ELSE ReadsLater(call, tables)
  IN ~Outside(call) /\ calls[c].seen # Only(rows, tables)

\* SQLSTATE 40001: the operation runs again, or its attempts are used up.
Retry(c) ==
  /\ Serializable /\ (Is(c, "deciding") \/ Is(c, "flushing")) /\ Stale(c)
  /\ Continue(c, calls[c].call) \/ Continue(c, Nothing)
  /\ Keep

Decided(c) == Outcome(calls[c].call, calls[c].seen)
Collides(c) ==
  \/ ~Outside(calls[c].call) /\ DOMAIN Decided(c).inserts \cap DOMAIN tables # {}
  \/ ~Unique(Written(tables, Decided(c)))

Commit(c) ==
  /\ Is(c, "deciding") /\ Decided(c).verdict = "done"
  /\ Serializable => ~Stale(c)
  /\ ~Collides(c) /\ Free(c, DOMAIN Decided(c).updates \cup Decided(c).deletes)
  /\ tables' = Written(tables, Decided(c))
  /\ Continue(c, Decided(c).then)
  /\ UNCHANGED <<made, service, isolation>>

\* The operation raises, or the database does: nothing of it stays.
Refuse(c) ==
  /\ Is(c, "deciding")
  /\ Decided(c).verdict = "refused" \/ Collides(c)
  /\ Continue(c, IF Decided(c).verdict = "done" THEN Decided(c).clash ELSE Nothing)
  /\ Keep

\* The process, or its connection to the database, dies.
Abandon(c) ==
  /\ ~Is(c, "idle")
  /\ Continue(c, Nothing)
  /\ Keep

Init ==
  /\ service \in Service /\ tables = Beginning(service)
  /\ calls = [c \in Caller |-> Idle]
  /\ made = 0 /\ isolation \in Isolation

Next ==
  \E c \in Caller : \/ Begin(c) \/ Load(c) \/ Flush(c) \/ Retry(c)
                    \/ Commit(c) \/ Refuse(c) \/ Abandon(c)
Spec == Init /\ [][Next]_vars

\* The call c makes is committed in this step.
Commits(c) == Is(c, "deciding") /\ tables' # tables /\ calls'[c] # calls[c]
=============================================================================
