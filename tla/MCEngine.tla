------------------------------ MODULE MCEngine ------------------------------
(***************************************************************************)
(* Instances of Engine for TLC.                                            *)
(***************************************************************************)
EXTENDS Engine, TLC

CONSTANTS c1, c2, e1, e2, r1, r2, s1, s2, batch, empty, broken

CallSymmetry == Permutations(Calls)

OneEngine == e1 :> <<r1, r2>>
FullAndBareEngine == (e1 :> <<r1, r2>>) @@ (e2 :> << >>)

OneStateful == {<<r2, s1>>}

\* The same statement twice; two statements, and an input without any.
OneInput == batch :> <<s1, s1>>
TwoInputs == (batch :> <<s1, s2>>) @@ (empty :> << >>)
=============================================================================
