------------------------------- MODULE TileFeed -------------------------------
(***************************************************************************)
(* What the tile pipeline promises, seen from a client of Valhalla: the    *)
(* map extract is refreshed from time to time, and the routing service     *)
(* serves some refresh, never goes back to an older one, and in the end    *)
(* catches up, unless it is stuck until the next refresh.  TilePipeline    *)
(* implements it.                                                          *)
(***************************************************************************)
EXTENDS Integers

VARIABLES latest,  \* number of refreshes of the working extract
          served,  \* the refresh the service loaded last, 0 before the first
          up,      \* whether the service is running
          stuck    \* nothing is under way that would bring the latest refresh

vars == <<latest, served, up, stuck>>

Init == latest = 1 /\ served = 0 /\ up = FALSE /\ stuck = FALSE

Refresh ==
  /\ latest' = latest + 1
  /\ stuck' \in BOOLEAN
  /\ UNCHANGED <<served, up>>

Load ==
  /\ served' \in served..latest
  /\ 0 < served'
  /\ up' = TRUE
  /\ stuck' \in BOOLEAN
  /\ UNCHANGED latest

Outage ==
  /\ up' = FALSE
  /\ UNCHANGED <<latest, served, stuck>>

(* Someone dies holding a trigger, or a newer trigger makes up for it.     *)
Trouble ==
  /\ stuck' \in BOOLEAN
  /\ UNCHANGED <<latest, served, up>>

Next == Refresh \/ Load \/ Outage \/ Trouble

SafeSpec == Init /\ [][Next]_vars

CatchUp == Load /\ ~stuck /\ served < served'
(* Once it has served, the service comes back even when nothing newer will.*)
Resume  == Load /\ ~up /\ (stuck => 0 < served)

Spec == SafeSpec /\ WF_vars(CatchUp) /\ WF_vars(Resume)
=============================================================================
