---------------------------- MODULE MCFeatureImport ----------------------------
(***************************************************************************)
(* Instances of FeatureImport for TLC.  The node and the way have the same *)
(* OSM id.                                                                 *)
(***************************************************************************)
EXTENDS FeatureImport, TLC

CONSTANTS r1, r2, r3, park, pub

Three == {r1, r2, r3}

node == [type |-> "node", id |-> 1]
way  == [type |-> "way", id |-> 1]

MCObjects == {node, way}
MCTags    == {park, pub}

(* Twins, a way that changed, and a node that is gone.                     *)
MCExtracts == {node :> park @@ way :> park, node :> park @@ way :> pub, way :> park}
=============================================================================
