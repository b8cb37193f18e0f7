----------------------------- MODULE LeaseQueue -----------------------------
(***************************************************************************)
(* What the run queue promises, without its statements, clocks and faults: *)
(* a run is submitted, somebody holds it under a token nobody had before,  *)
(* and only the holder of its latest token puts it back or ends it.  A     *)
(* lease may be lost at any time and the loser may go on believing in it.  *)
(***************************************************************************)
EXTENDS Naturals

CONSTANTS Run, Holder

VARIABLES
  phase,  \* Run -> "absent", "open" (may be claimed), "held" or "over"
  token,  \* Run -> the token of its latest claim
  lease,  \* Holder -> the claim the holder believes in
  exact   \* whether a claim sees the queue as it is when it takes effect

vars == <<phase, token, lease, exact>>

NoLease == [run |-> 0, token |-> 0]

Believes(h) == lease[h] # NoLease
Current(h)  == Believes(h) /\ token[lease[h].run] = lease[h].token

Init ==
  /\ phase = [r \in Run |-> "absent"] /\ token = [r \in Run |-> 0]
  /\ lease = [h \in Holder |-> NoLease]
  /\ exact \in BOOLEAN

Submit(r) ==
  /\ phase[r] = "absent" /\ phase' = [phase EXCEPT ![r] = "open"]
  /\ UNCHANGED <<token, lease, exact>>

\* A claim takes the run from whoever holds it, under the next token.  One that
\* does not see the queue as it is may even take a run that is over.
Claim(h, r) ==
  /\ ~Believes(h)
  /\ phase[r] # "absent" /\ (exact => phase[r] # "over")
  /\ phase' = [phase EXCEPT ![r] = "held"]
  /\ token' = [token EXCEPT ![r] = @ + 1]
  /\ lease' = [lease EXCEPT ![h] = [run |-> r, token |-> token[r] + 1]]
  /\ UNCHANGED exact

Drop(h)    == lease' = [lease EXCEPT ![h] = NoLease]
Abandon(h) == Believes(h) /\ Drop(h) /\ UNCHANGED <<phase, token, exact>>

\* A failed attempt goes back to the queue.
PutBack(h) ==
  /\ Current(h) /\ phase[lease[h].run] = "held"
  /\ phase' = [phase EXCEPT ![lease[h].run] = "open"]
  /\ Drop(h) /\ UNCHANGED <<token, exact>>

\* The run ends; the one it asks for is submitted in the same step.
End(h) ==
  /\ Current(h) /\ phase[lease[h].run] = "held"
  /\ \/ phase' = [phase EXCEPT ![lease[h].run] = "over"]
     \/ \E s \in Run : /\ phase[s] = "absent"
                       /\ phase' = [phase EXCEPT ![lease[h].run] = "over", ![s] = "open"]
  /\ Drop(h) /\ UNCHANGED <<token, exact>>

Next ==
  \/ \E r \in Run : Submit(r) \/ \E h \in Holder : Claim(h, r)
  \/ \E h \in Holder : Abandon(h) \/ PutBack(h) \/ End(h)

Spec == Init /\ [][Next]_vars
=============================================================================
