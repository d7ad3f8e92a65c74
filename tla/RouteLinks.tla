------------------------------ MODULE RouteLinks ------------------------------
(***************************************************************************)
(* What the links in a tool answer promise, whatever store, cache or crash *)
(* is behind them: a link always stands for the route it was published     *)
(* with, a reader is shown that route or nothing, and a link that has died *)
(* stays dead.                                                             *)
(***************************************************************************)
EXTENDS Integers

CONSTANTS Ids, Routes, NoRoute

VARIABLES
  links, \* the route each id was published with, or NoRoute
  shown  \* the routes that the pages behind each id show

Init ==
  /\ links = [id \in Ids |-> NoRoute]
  /\ shown = [id \in Ids |-> {}]

(* A fresh id is published; the entry behind it may be gone already.       *)
Publish ==
  \E id \in Ids, r \in Routes :
    /\ links[id] = NoRoute
    /\ links' = [links EXCEPT ![id] = r]
    /\ \E now \in {{}, {r}} : shown' = [shown EXCEPT ![id] = now]

Fade ==
  /\ shown' \in [Ids -> SUBSET Routes]
  /\ \A id \in Ids : shown'[id] \subseteq shown[id]
  /\ UNCHANGED links

Spec == Init /\ [][Publish \/ Fade]_<<links, shown>>
=============================================================================
