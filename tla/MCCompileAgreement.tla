------------------------- MODULE MCCompileAgreement -------------------------
(* Programs for CompileAgreement. *)
EXTENDS CompileAgreement

P(k, m) == [kind |-> k, mod |-> m]

\* A live call that overtakes, meets or follows helpers' compiles of its own
\* program and of another, and repeated ahead calls of one program.
CONSTANTS a, b
MixedPrograms ==
    {<<P("ahead", a), P("ahead", b), P("call", b)>>,
     <<P("ahead", a), P("ahead", a), P("call", a)>>}

\* The ahead call has its result taken, behind another program's call.
ResultPrograms == {<<P("call", a), P("ahead", b), P("result", b)>>}

SomePrograms == MixedPrograms \cup ResultPrograms

\* The two settings of interest: the ranks lower alike and wait for good, or a
\* peer lowers module b its own way and waits have a deadline.
Setting ==
    IF program \in MixedPrograms
      THEN ~deadline /\ \A r \in Rank : key[r] = key[0]
      ELSE deadline

MCInit == Init /\ Setting

MCSpec == MCInit /\ [][Next]_vars /\ Fairness
=============================================================================
