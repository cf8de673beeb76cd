--------------------------- MODULE MCGuardedEngine ---------------------------
(***************************************************************************)
(* An instance of GuardedEngine for TLC.                                   *)
(***************************************************************************)
EXTENDS GuardedEngine, TLC

CONSTANTS g1, g2, e1, r1, s1, batch, broken

EngineCalls == Guarded \X {"first", "second"}
OneEngine == e1 :> <<r1>>
OneStateful == {<<r1, s1>>}
OneInput == batch :> <<s1>>
=============================================================================
