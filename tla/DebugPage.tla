------------------------------- MODULE DebugPage -------------------------------
(***************************************************************************)
(* The debug page (debug/index.html) at work with the server: a press of   *)
(* the button or of Ctrl+Enter starts planRoute, which asks the tool for a *)
(* route and then fetches its debug layers; runs may overlap, since        *)
(* Ctrl+Enter does not look at the disabled button, and their answers come *)
(* in any order, also after the result was cleared or the form reset.      *)
(***************************************************************************)
EXTENDS RouteService

VARIABLES
  job,        \* where the run of planRoute for each call stands
  layers,     \* the route drawn on the map
  routeUUID,  \* state.routeUUID, which the buttons open
  planBlocked \* plan-btn is disabled

pageVars == <<job, layers, routeUUID, planBlocked>>
allVars  == <<vars, pageVars>>

PageInit ==
  /\ Init
  /\ job = [c \in Calls |-> "idle"]
  /\ layers = None
  /\ routeUUID = None
  /\ planBlocked = FALSE

(* planRoute up to its first await.                                        *)
PlanRoute(c) ==
  /\ job[c] = "idle"
  /\ Request(c)
  /\ job' = [job EXCEPT ![c] = "tool"]
  /\ planBlocked' = TRUE
  /\ UNCHANGED <<layers, routeUUID>>

(* Mutants of ToolAnswered: the button is only enabled on success; the     *)
(* buttons get the new route before its layers are there.                  *)
ToolAnsweredStuck(c) ==
  /\ job[c] = "tool"
  /\ \/ call[c].step = "answered" /\ job' = [job EXCEPT ![c] = "layers"]
     \/ call[c].step \in {"answered", "failed"} /\ job' = [job EXCEPT ![c] = "done"]
  /\ UNCHANGED <<vars, layers, routeUUID, planBlocked>>

ToolAnsweredEarly(c) ==
  /\ job[c] = "tool"
  /\ call[c].step = "answered"
  /\ job' = [job EXCEPT ![c] = "layers"]
  /\ routeUUID' = call[c].id
  /\ UNCHANGED <<vars, layers, planBlocked>>

(* Mutant of ToolAnswered: the run does not catch errors.                  *)
ToolAnsweredUncaught(c) ==
  /\ job[c] = "tool"
  /\ call[c].step = "answered"
  /\ job' = [job EXCEPT ![c] = "layers"]
  /\ UNCHANGED <<vars, layers, routeUUID, planBlocked>>

(* callMCP comes back with a link; or with an error, or with an answer     *)
(* that was lost or cut off on its way and has no text or no link.         *)
ToolAnswered(c) ==
  /\ job[c] = "tool"
  /\ \/ /\ call[c].step = "answered"
        /\ job' = [job EXCEPT ![c] = "layers"]
        /\ UNCHANGED planBlocked
     \/ /\ call[c].step \in {"answered", "failed"}
        /\ job' = [job EXCEPT ![c] = "done"]
        /\ planBlocked' = FALSE
  /\ UNCHANGED <<vars, layers, routeUUID>>

(* The page's proxy gives up on a server that stays silent (300 s) and     *)
(* answers 504; the server goes on with the call.                          *)
GatewayTimeout(c) ==
  /\ job[c] = "tool"
  /\ call[c].step \in {"planning", "saving", "saved"}
  /\ job' = [job EXCEPT ![c] = "done"]
  /\ planBlocked' = FALSE
  /\ UNCHANGED <<vars, layers, routeUUID>>

(* The layers arrive and replace those on the map, whoever asked last.     *)
Rendered(c) ==
  /\ job[c] = "layers"
  /\ Shown("debug", call[c].id) # None
  /\ layers' = Shown("debug", call[c].id)
  /\ routeUUID' = call[c].id
  /\ job' = [job EXCEPT ![c] = "done"]
  /\ planBlocked' = FALSE
  /\ UNCHANGED vars

(* /debug answers 404, 500 or, as far as the proxy waits, not at all.      *)
FetchFailed(c) ==
  /\ job[c] = "layers"
  /\ job' = [job EXCEPT ![c] = "done"]
  /\ planBlocked' = FALSE
  /\ UNCHANGED <<vars, layers, routeUUID>>

(* The clear control is on the map as long as there are layers.            *)
DoClear ==
  /\ layers # None
  /\ layers' = None
  /\ routeUUID' = None
  /\ UNCHANGED <<vars, job, planBlocked>>

(* Mutant of Reset: the layers stay.                                       *)
ResetIdOnly ==
  /\ routeUUID' = None
  /\ UNCHANGED <<vars, layers, job, planBlocked>>

(* Reset removes the layers but leaves routeUUID and its buttons alone.    *)
Reset ==
  /\ layers' = None
  /\ UNCHANGED <<vars, job, routeUUID, planBlocked>>

(* The preview, GPX and GeoJSON buttons.                                   *)
OpenLink ==
  /\ routeUUID # None
  /\ \E page \in Cached : View(page, routeUUID)
  /\ UNCHANGED pageVars

PageRun(c) == ToolAnswered(c) \/ GatewayTimeout(c) \/ Rendered(c) \/ FetchFailed(c)

(* The server, the clock, and others who were given the links.             *)
Server ==
  /\ \/ \E c \in Calls : Tool(c)
     \/ \E page \in Cached, id \in Published : View(page, id)
     \/ Tick \/ Crash \/ RedisRestart
  /\ UNCHANGED pageVars

PageNext ==
  \/ \E c \in Calls : PlanRoute(c) \/ PageRun(c)
  \/ DoClear \/ Reset \/ OpenLink
  \/ Server

(* The browser handles what it is sent, and is sent something: an answer,  *)
(* or the proxy's own when the server is silent for too long.  Nothing is  *)
(* assumed of the services behind a plan: their clients have no timeout.   *)
Fairness == \A c \in Calls : WF_allVars(PageRun(c))

PageSpec == PageInit /\ [][PageNext]_allVars /\ Fairness

-----------------------------------------------------------------------------
PageTypeOK ==
  /\ TypeOK
  /\ job \in [Calls -> {"idle", "tool", "layers", "done"}]
  /\ layers \in Calls \cup {None}
  /\ routeUUID \in Ids \cup {None}
  /\ planBlocked \in BOOLEAN

(* The route on the map is the one the buttons open, whichever of several  *)
(* overlapping runs drew it (index.html:998-1010).                         *)
MapMatchesButtons == layers # None => routeUUID # None /\ issued[routeUUID].route = layers

(* The button is never left disabled with no run to enable it again        *)
(* (index.html:985-1017).                                                  *)
NeverStuck == planBlocked => \E c \in Calls : job[c] \in {"tool", "layers"}

(* Every run ends, though the server or Redis may go down under it, or a   *)
(* service behind the plan never answer (index.html:992-1017, nginx.conf). *)
RunsEnd == \A c \in Calls : job[c] # "idle" ~> job[c] = "done"
=============================================================================
