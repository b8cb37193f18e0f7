------------------------------- MODULE Setup -------------------------------
(***************************************************************************)
(* How a project is configured (setup_service.py): questions about fields, *)
(* the values of fields, connections to providers, and publication targets *)
(* with one default per purpose.                                           *)
(***************************************************************************)
EXTENDS Transactions

CONSTANTS
  Field,        \* what questions may be about
  KnownField,   \* the fields a configuration may hold (KNOWN_FIELDS)
  Value,        \* answers and values
  Person,       \* who answers, confirms and authorizes
  TargetName,
  Purpose

ASSUME SetupAssumption == KnownField \subseteq Field /\ Nothing \notin Value \cup Person

Question(f)   == <<"question", f>>
Configured(f) == <<"value", f>>
Connection(n) == <<"connection", n>>
Target(n)     == <<"target", n>>

\* SETTLES, and the dispositions a caller may give; "deferred" stands for the
\* ones that leave the question open.
Settles == {"answered", "no_longer_relevant"}
Disposition == Settles \cup {"deferred"}
ValueState == {"confirmed", "suggested", "unknown"}
AuthorizationState == {"never_granted", "granted", "revoked"}
Usable == {"granted"}

-----------------------------------------------------------------------------
(* Questions                                                               *)

\* The unique index keeps one question per field; a second one gets it back.
Ask(call, seen) ==
  IF Question(call.field) \in DOMAIN seen THEN Same
  ELSE Insert(Question(call.field),
         [disposition |-> "open", answer |-> Nothing, by |-> Nothing,
          default |-> call.default, blocking |-> call.blocking])

\* Mutant of WriteValue: whoever confirmed the value before stays.
WriteValueOver(call, by, state, seen) ==
  LET row == Configured(call.field)
      new == [value |-> call.value, state |-> state, by |-> by]
  IN IF row \in DOMAIN seen
     THEN [inserts |-> NoRows, updates |-> [r \in {row} |->
             [a \in DOMAIN Changed(new, seen[row]) \ {"by"} |-> new[a]]]]
     ELSE [inserts |-> [r \in {row} |-> new], updates |-> NoRows]
\* _write_value
WriteValue(call, by, state, seen) ==
  LET row == Configured(call.field)
      new == [value |-> call.value, state |-> state, by |-> by]
  IN IF row \in DOMAIN seen
     THEN [inserts |-> NoRows, updates |-> [r \in {row} |-> Changed(new, seen[row])]]
     ELSE [inserts |-> [r \in {row} |-> new], updates |-> NoRows]

\* The question is flushed, which locks it, before the field is looked up.
Answer(call, seen) ==
  LET row == Question(call.field)
      new == [seen[row] EXCEPT !.answer = call.value, !.by = call.by,
                               !.disposition = call.disposition]
      settled == [r \in {row} |-> Changed(new, seen[row])]
      value == WriteValue(call, call.by, "confirmed", seen)
  IN IF row \notin DOMAIN seen THEN Refused
     ELSE IF call.disposition \in Settles /\ seen[row].default /\ call.field \in KnownField
     THEN Writes(value.inserts, Over(value.updates, settled), Nothing)
     ELSE Writes(NoRows, settled, Nothing)

-----------------------------------------------------------------------------
(* Values                                                                  *)

\* ConfiguredValue refuses a confirmation by nobody and a value in use that is
\* empty; set_value refuses a field that is not known.
WellFormed(v) ==
  /\ v.state = "confirmed" => v.by # Nothing /\ v.value # Nothing
  /\ v.state = "suggested" => v.value # Nothing

SetValue(call, seen) ==
  LET w == WriteValue(call, call.by, call.state, seen)
  IN IF call.field \in KnownField
        /\ WellFormed([value |-> call.value, state |-> call.state, by |-> call.by])
     THEN Writes(w.inserts, w.updates, Nothing) ELSE Refused

-----------------------------------------------------------------------------
(* Connections                                                             *)

Grantable(state, by) == state \in Usable => by # Nothing
RecordConnection(call, seen) ==
  IF Grantable(call.state, call.by)
  THEN Insert(Connection(call.id), [state |-> call.state, by |-> call.by]) ELSE Refused

AuthorizeConnection(call, seen) ==
  LET row == call.row
      by  == IF call.by # Nothing THEN call.by ELSE seen[row].by
  IN IF row \in DOMAIN seen /\ Grantable(call.state, by)
     THEN Update(row, Changed([state |-> call.state, by |-> by], seen[row])) ELSE Refused

AuthorizationFor(connection, d) ==
  IF connection \in DOMAIN d THEN d[connection].state ELSE "never_granted"

-----------------------------------------------------------------------------
(* Targets                                                                 *)

\* A target that is not local needs a connection to name, if only an absent one.
RegisterTarget(call, seen) ==
  Insert(Target(call.name),
         [purpose |-> call.purpose, default |-> call.default, connection |-> call.connection,
          prefix |-> call.prefix])

DefaultsOf(purpose, d) ==
  {r \in Kind("target", d) : d[r].default /\ d[r].purpose = purpose}

\* Mutant of Current: the defaults of every purpose.
CurrentAnywhere(purpose, d) == {r \in Kind("target", d) : d[r].default}
Current(purpose, d) == DefaultsOf(purpose, d)

\* The clear is flushed first, and writes the target itself when it was the
\* default, so that setting it is an update whatever was loaded.
SetDefault(call, seen) ==
  LET cleared == Current(call.purpose, seen) \ {call.row}
  IN IF call.row \notin DOMAIN seen THEN Refused
     ELSE IF seen[call.row].purpose # call.purpose THEN Refused
     ELSE Writes(NoRows, [r \in cleared \cup {call.row} |-> [default |-> r = call.row]], Nothing)

\* resolve_target: the named target, or the default of the purpose.
Resolve(name, purpose, d) ==
  IF name # Nothing THEN IF Target(name) \in DOMAIN d THEN Target(name) ELSE Nothing
  ELSE IF DefaultsOf(purpose, d) = {} THEN Nothing
  ELSE CHOOSE r \in DefaultsOf(purpose, d) : TRUE

-----------------------------------------------------------------------------
(* What a client may ask, by the fields, targets and connections there are *)

AskRequests ==
  [op : {"ask"}, field : Field, default : BOOLEAN, blocking : {FALSE}]
AnswerRequests(d) ==
  [op : {"answer"}, field : {r[2] : r \in Kind("question", d)}, value : Value, by : Person,
   disposition : Disposition]
\* configure_field: the state and who confirmed it are the caller's to give.
ConfigureRequests ==
  [op : {"set value"}, field : Field, value : Value \cup {Nothing}, state : ValueState,
   by : Person \cup {Nothing}]
ConnectionRequests(d, n) ==
  [op : {"connect"}, id : {n}, state : AuthorizationState, by : Person \cup {Nothing}]
  \cup [op : {"authorize"}, row : Kind("connection", d), state : AuthorizationState,
        by : Person \cup {Nothing}]
TargetRequests(d) ==
  [op : {"register"}, name : TargetName, purpose : Purpose, default : BOOLEAN,
   connection : Kind("connection", d) \cup {Nothing}, prefix : {Nothing, <<"shared">>}]
  \cup [op : {"set default"}, row : Kind("target", d), purpose : Purpose]

SettingUp(call) == call.op \in {"ask", "answer", "set value", "connect", "authorize", "register",
                                "set default"}
SetupReads(call, d) ==
  CASE call.op \in {"ask", "answer"} -> {Question(call.field)}
    [] call.op = "set value"   -> {Configured(call.field)}
    [] call.op = "authorize"   -> {call.row}
    [] call.op = "set default" -> {call.row} \cup Current(call.purpose, d)
    [] OTHER -> {}
\* answer flushes the question it answers, then looks the field up.
SetupLocks(call, seen) == IF call.op = "answer" THEN DOMAIN seen ELSE {}
SetupReadsLater(call) == IF call.op = "answer" THEN {Configured(call.field)} ELSE {}
SetupOutcome(call, seen) ==
  CASE call.op = "ask"         -> Ask(call, seen)
    [] call.op = "answer"      -> Answer(call, seen)
    [] call.op = "set value"   -> SetValue(call, seen)
    [] call.op = "connect"     -> RecordConnection(call, seen)
    [] call.op = "authorize"   -> AuthorizeConnection(call, seen)
    [] call.op = "register"    -> RegisterTarget(call, seen)
    [] call.op = "set default" -> SetDefault(call, seen)

\* uq_publication_targets_default
OneDefault(d) == \A p \in Purpose : Cardinality(DefaultsOf(p, d)) <= 1

-----------------------------------------------------------------------------
(* Properties *)

\* Once a purpose has a default target it has exactly one for good: set_default
\* moves it and never loses it, however many calls move it at once and at
\* either isolation level.
DefaultIsKept ==
  [][\A p \in Purpose : DefaultsOf(p, tables) # {} => Cardinality(DefaultsOf(p, tables')) = 1]_vars

\* Where stale reads are refused, the value of a field and the person it is
\* confirmed by were given in one call: no answer and no value that is set
\* beside it is read with somebody else's confirmation.
ConfirmedAsWritten ==
  [][Serializable =>
       \A r \in Kind("value", tables') :
         r \notin DOMAIN tables \/ tables'[r] # tables[r]
           => \E c \in Caller : /\ Commits(c)
                                /\ calls[c].call.value = tables'[r].value
                                /\ calls[c].call.by = tables'[r].by]_vars
=============================================================================
