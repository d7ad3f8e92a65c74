---------------------------- MODULE MCTilePipeline ----------------------------
(***************************************************************************)
(* Instances of TilePipeline for TLC.                                      *)
(***************************************************************************)
EXTENDS TilePipeline

CONSTANTS u1, u2

OneUpdater  == {u1}
TwoUpdaters == {u1, u2}

AnyFail   == [f \in Failing |-> 1]
BuilderOnce == [f \in Failing |-> IF f = "builder" THEN 1 ELSE 0]
=============================================================================
