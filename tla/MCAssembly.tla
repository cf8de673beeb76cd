----------------------------- MODULE MCAssembly -----------------------------
(***************************************************************************)
(* Instances of Assembly for TLC.                                          *)
(***************************************************************************)
EXTENDS Assembly, TLC

CONSTANTS m1, m2

MetricsSymmetry == Permutations(Metrics)

Config(registerer, service, name) ==
  [registerer |-> registerer, service |-> service, metricName |-> name]

\* Two registries, the default name given and left out, and every way to be
\* refused.
SomeConfigs ==
  {Config("own", "payments", ""), Config("shared", "orders", "sqlguard_validations_total"),
   Config("own", "", ""), Config("own", "payments", "bad-name"),
   Config("nil", "payments", ""), Config("typed nil", "payments", "")}

RawConfigs == {Config("own", "payments", ""), Config("own", "raw", "")}

Alnum(n) == <<"alnum", n>>
Sep == <<"sep", 1>>

\* Two valid identifiers, one that starts with a separator, one that has a byte
\* outside the alphabet, one that is too long, and the empty one.
SomeIDs == {<<Alnum(1)>>, <<Alnum(2), Sep>>, <<Sep, Alnum(1)>>,
            <<Alnum(1), <<"other", 1>> >>, <<Alnum(1), Alnum(1), Alnum(1)>>, NoID}
ValidIDs == {<<Alnum(1)>>}

SomeLists == {<< >>, <<"p", "q">>, <<"p", "nil rule">>, <<"nil pointer rule">>}
OneList == {<<"p">>}
=============================================================================
