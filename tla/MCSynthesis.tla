----------------------------- MODULE MCSynthesis -----------------------------
(* Instances of SynthesisRuns for TLC: two spellings of one wording and a   *)
(* second wording, said by three items in the domain at hand.               *)
EXTENDS SynthesisRuns

Items  == <<"i1", "i2", "i3">>
Keys   == <<"A", "B">>
Spoken == {"a", "a.", "b"}
Keyed  == [s \in Spoken |-> IF s = "b" THEN "B" ELSE "A"]
Themes == [s \in Spoken |-> IF s = "a." THEN "lone" ELSE "shared"]
Areas  == [i \in Range(Items) |-> IF i = "i3" THEN "security" ELSE Nothing]

Plain == [local |-> FALSE, blocks |-> FALSE, letter |-> "accountable", subject |-> "security",
          human |-> TRUE, session |-> FALSE, sufficient |-> "security", terms |-> {"t1", "t2"},
          matters |-> TRUE, restricts |-> TRUE, requires |-> TRUE, form |-> "observable"]
Readings == [s \in Spoken |->
  IF s = "a" THEN Plain
  ELSE IF s = "a." THEN [Plain EXCEPT !.human = FALSE]
  ELSE [Plain EXCEPT !.blocks = TRUE, !.session = TRUE, !.terms = {"t1", "t2", "t3"},
                     !.form = "vague"]]

\* Constraints bear on an open question and assumptions may be established by
\* another kind of item: the third item plays that part.
Other(d) == CASE d = "constraint" -> "unknown" [] d = "assumption" -> "goal" [] OTHER -> d
Begin(d) ==
  {[i \in Range(Items) |->
      CASE i = "i1" -> [kind |-> d, life |-> "validated", says |-> "a"]
        [] i = "i2" -> [kind |-> d, life |-> second, says |-> "a."]
        [] i = "i3" -> [kind |-> Other(d), life |-> "proposed", says |-> "b"]] :
     second \in {"absent", "proposed"}}
Approved == {Spoken}
Begun == [d \in Domain |-> Begin(d)]
=============================================================================
