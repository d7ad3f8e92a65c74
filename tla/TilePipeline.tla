----------------------------- MODULE TilePipeline -----------------------------
(***************************************************************************)
(* How a fresh OSM extract becomes served routing tiles.  Three containers *)
(* talk through files on two volumes:                                      *)
(*   update.sh (osm-importer, cron)     rewrites the working PBF, then     *)
(*                                      touches pbf_updated;               *)
(*   watch.sh (valhalla-builder)        consumes pbf_updated, builds       *)
(*                                      tiles.tar, touches reload;         *)
(*   serve.sh (valhalla)                consumes reload, restarts          *)
(*                                      valhalla_service on tiles.tar.     *)
(* Any of them may be killed or fail between two steps; files survive.     *)
(* A version counts the refreshes of the PBF; 0 means "no such file".      *)
(***************************************************************************)
EXTENDS Integers

CONSTANTS
  Updaters,     \* runs of update.sh that may overlap: cron takes no lock
  Layouts,      \* may OSM_REGIONS name several extracts, merged in place
  MaxVersion,   \* bound on refreshes
  MaxFails      \* bounds on failures, by what fails

Failing == {"update", "builder", "serve", "service"}

ASSUME PipelineAssumption ==
  /\ Layouts \subseteq BOOLEAN
  /\ MaxVersion \in Nat
  /\ MaxFails \in [Failing -> Nat]

VARIABLES
  multiRegion,        \* configuration: several regions are merged
  pbf, torn,          \* version of the working PBF; whether it is half written or garbled
  pbfUpdated,         \* /data/osm/pbf_updated exists
  upc,                \* where each run of update.sh is
  bpc, trig,          \* where watch.sh is; whether a sentinel started its build
  buildFrom,          \* version of the PBF the build in progress reads
  tar, reload,        \* version in /tiles/tiles.tar; /tiles/reload exists
  spc,                \* where serve.sh is
  loaded, up,         \* version valhalla_service loaded last; it is running
  trigLost,           \* history: a refresh whose sentinel was lost
  reloadLost,         \* history: a tiles.tar whose reload was lost
  fails               \* failures so far

updateVars  == <<multiRegion, pbf, torn, upc>>
buildVars   == <<bpc, trig, buildFrom, tar>>
serveVars   == <<spc, loaded, up>>
historyVars == <<trigLost, reloadLost>>
vars == <<updateVars, pbfUpdated, buildVars, reload, serveVars, historyVars, fails>>

Init ==
  /\ multiRegion \in Layouts
  /\ pbf = 1 /\ torn = FALSE  \* osm-importer-init completed (compose, depends_on)
  /\ pbfUpdated = FALSE
  /\ upc = [u \in Updaters |-> "idle"]
  /\ bpc = "down" /\ trig = FALSE /\ buildFrom = 0
  /\ tar = 0 /\ reload = FALSE
  /\ spc = "down" /\ loaded = 0 /\ up = FALSE
  /\ trigLost = FALSE /\ reloadLost = FALSE
  /\ fails = [f \in Failing |-> 0]

MayFail(f) == fails[f] < MaxFails[f] /\ fails' = [fails EXCEPT ![f] = @ + 1]

-----------------------------------------------------------------------------
(* update.sh *)

Rewriting == {"merging", "crossed"}
Shared(u) == \E v \in Updaters \ {u} : upc[v] \in Rewriting

(* pyosmium-up-to-date replaces the single working PBF; with several       *)
(* regions it patches their own files and osmium then rewrites the working *)
(* PBF in place (update.sh:22-37), perhaps across another run that does.   *)
Patch(u) ==
  /\ upc[u] = "idle"
  /\ pbf < MaxVersion
  /\ IF multiRegion
       THEN /\ upc' = [v \in Updaters |->
                         IF v # u /\ upc[v] \notin Rewriting THEN upc[v]
                         ELSE IF Shared(u) THEN "crossed" ELSE "merging"]
            /\ torn' = TRUE
            /\ UNCHANGED pbf
       ELSE /\ upc' = [upc EXCEPT ![u] = "signal"]
            /\ pbf' = pbf + 1
            /\ UNCHANGED torn
  /\ UNCHANGED <<multiRegion, pbfUpdated, buildVars, reload, serveVars, historyVars, fails>>

(* Two runs that wrote the file at once may leave it whole or garbled.     *)
Merged(u) ==
  /\ upc[u] \in Rewriting
  /\ pbf' = pbf + 1
  /\ torn' \in IF Shared(u) THEN {TRUE} ELSE IF upc[u] = "crossed" THEN BOOLEAN ELSE {FALSE}
  /\ upc' = [upc EXCEPT ![u] = "signal"]
  /\ UNCHANGED <<multiRegion, pbfUpdated, buildVars, reload, serveVars, historyVars, fails>>

(* touch pbf_updated (update.sh:41); the import that follows is not this   *)
(* module's.                                                               *)
Signal(u) ==
  /\ upc[u] = "signal"
  /\ pbfUpdated' = TRUE
  /\ upc' = [upc EXCEPT ![u] = "idle"]
  /\ UNCHANGED <<multiRegion, pbf, torn, buildVars, reload, serveVars, historyVars, fails>>

(* set -e, or the container stops, before the touch.                       *)
UpdateFail(u) ==
  /\ upc[u] # "idle"
  /\ MayFail("update")
  /\ upc' = [upc EXCEPT ![u] = "idle"]
  /\ trigLost' = (trigLost \/ upc[u] = "signal")
  /\ UNCHANGED <<multiRegion, pbf, torn, pbfUpdated, buildVars, reload, serveVars, reloadLost>>

-----------------------------------------------------------------------------
(* watch.sh *)

(* Mutant of BuilderBoot: clears the tiles and always builds anew.         *)
BuilderBootClean ==
  /\ bpc = "down"
  /\ bpc' = "read" /\ tar' = 0
  /\ UNCHANGED <<updateVars, pbfUpdated, trig, buildFrom, reload, serveVars, historyVars, fails>>

(* The initial build, only if there are no tiles (watch.sh:54-60).         *)
BuilderBoot ==
  /\ bpc = "down"
  /\ bpc' = IF tar = 0 THEN "read" ELSE "watch"
  /\ UNCHANGED <<updateVars, pbfUpdated, trig, buildFrom, tar, reload, serveVars, historyVars, fails>>

(* rm pbf_updated, before the build reads the PBF (watch.sh:64-66).        *)
Notice ==
  /\ bpc = "watch"
  /\ pbfUpdated
  /\ pbfUpdated' = FALSE
  /\ bpc' = "read" /\ trig' = TRUE
  /\ trigLost' = FALSE
  /\ UNCHANGED <<updateVars, buildFrom, tar, reload, serveVars, reloadLost, fails>>

(* valhalla_build_tiles opens the PBF.  It reads the file several times,   *)
(* so tiles may also hold newer data; the version is that of the oldest.   *)
Read ==
  /\ bpc = "read"
  /\ ~torn
  /\ buildFrom' = pbf
  /\ bpc' = "pack"
  /\ UNCHANGED <<updateVars, pbfUpdated, trig, tar, reload, serveVars, historyVars, fails>>

(* watch.sh leaves under set -e or is killed: a trigger already consumed   *)
(* is forgotten, and so is a reload not yet written.                       *)
BuilderLeaves ==
  /\ bpc' = "down" /\ trig' = FALSE
  /\ trigLost' = (trigLost \/ (trig /\ bpc \in {"read", "pack"}))
  /\ reloadLost' = (reloadLost \/ bpc = "signal")
  /\ UNCHANGED <<updateVars, pbfUpdated, buildFrom, tar, reload, serveVars>>

(* The PBF is cut off where osmium has not written it yet, or is garbled.  *)
ReadTorn ==
  /\ bpc = "read"
  /\ torn
  /\ BuilderLeaves
  /\ UNCHANGED fails

(* Mutants of Pack: rm pbf_updated comes after the build instead of        *)
(* before; no reload is written; the initial build is not followed by the  *)
(* watch loop.                                                             *)
PackThenRemove ==
  /\ bpc = "pack"
  /\ tar' = buildFrom
  /\ bpc' = IF trig THEN "signal" ELSE "watch"
  /\ pbfUpdated' = FALSE
  /\ UNCHANGED <<updateVars, trig, buildFrom, reload, serveVars, historyVars, fails>>

PackNoReload ==
  /\ bpc = "pack"
  /\ tar' = buildFrom
  /\ bpc' = "watch" /\ trig' = FALSE
  /\ UNCHANGED <<updateVars, pbfUpdated, buildFrom, reload, serveVars, historyVars, fails>>

PackAndExit ==
  /\ bpc = "pack"
  /\ tar' = buildFrom
  /\ bpc' = IF trig THEN "signal" ELSE "exited"
  /\ UNCHANGED <<updateVars, pbfUpdated, trig, buildFrom, reload, serveVars, historyVars, fails>>

(* mv tiles.tar.tmp tiles.tar (watch.sh:43-48).                            *)
Pack ==
  /\ bpc = "pack"
  /\ tar' = buildFrom
  /\ bpc' = IF trig THEN "signal" ELSE "watch"
  /\ UNCHANGED <<updateVars, pbfUpdated, trig, buildFrom, reload, serveVars, historyVars, fails>>

(* touch reload, after a triggered build only (watch.sh:57-60, 68).        *)
SignalReload ==
  /\ bpc = "signal"
  /\ reload' = TRUE
  /\ bpc' = "watch" /\ trig' = FALSE
  /\ UNCHANGED <<updateVars, pbfUpdated, buildFrom, tar, serveVars, historyVars, fails>>

BuilderFail ==
  /\ bpc # "down"
  /\ MayFail("builder")
  /\ BuilderLeaves

-----------------------------------------------------------------------------
(* serve.sh *)

ServeBoot ==
  /\ spc = "down"
  /\ spc' = "waiting"
  /\ UNCHANGED <<updateVars, pbfUpdated, buildVars, reload, loaded, up, historyVars, fails>>

(* The wait for tiles.tar ends (serve.sh:52-58).                           *)
TarFound ==
  /\ spc = "waiting"
  /\ tar # 0
  /\ spc' = "start"
  /\ UNCHANGED <<updateVars, pbfUpdated, buildVars, reload, loaded, up, historyVars, fails>>

(* valhalla_service maps the tiles.tar it finds: on start-up, after a      *)
(* reload, and when the loop finds the process gone (serve.sh:31-36, 64-67)*)
StartService ==
  /\ spc = "start" \/ (spc = "loop" /\ ~up)
  /\ spc' = "loop"
  /\ loaded' = tar /\ up' = TRUE
  /\ reloadLost' = FALSE
  /\ UNCHANGED <<updateVars, pbfUpdated, buildVars, reload, trigLost, fails>>

(* rm reload, before the service is stopped (serve.sh:69-71).              *)
NoticeReload ==
  /\ spc = "loop"
  /\ reload
  /\ reload' = FALSE
  /\ spc' = "stop"
  /\ UNCHANGED <<updateVars, pbfUpdated, buildVars, loaded, up, historyVars, fails>>

StopService ==
  /\ spc = "stop"
  /\ up' = FALSE
  /\ spc' = "start"
  /\ UNCHANGED <<updateVars, pbfUpdated, buildVars, reload, loaded, historyVars, fails>>

ServiceCrash ==
  /\ up
  /\ MayFail("service")
  /\ up' = FALSE
  /\ UNCHANGED <<updateVars, pbfUpdated, buildVars, reload, spc, loaded, historyVars>>

ServeFail ==
  /\ spc # "down"
  /\ MayFail("serve")
  /\ spc' = "down" /\ up' = FALSE
  /\ UNCHANGED <<updateVars, pbfUpdated, buildVars, reload, loaded, historyVars>>

-----------------------------------------------------------------------------
Update(u) == Patch(u) \/ Merged(u) \/ Signal(u) \/ UpdateFail(u)
Build == BuilderBoot \/ Notice \/ Read \/ ReadTorn \/ Pack \/ SignalReload \/ BuilderFail
Serve == ServeBoot \/ TarFound \/ StartService \/ NoticeReload \/ StopService
           \/ ServiceCrash \/ ServeFail

Next == (\E u \in Updaters : Update(u)) \/ Build \/ Serve

SafeSpec == Init /\ [][Next]_vars

(* A started update.sh runs on; watch.sh and serve.sh are loops that poll  *)
(* and that Docker restarts (restart: unless-stopped).  Nothing makes cron *)
(* find new data, and failures never have to happen.                       *)
Fairness ==
  /\ \A u \in Updaters : WF_vars(Merged(u)) /\ WF_vars(Signal(u))
  /\ WF_vars(BuilderBoot \/ Notice \/ Read \/ ReadTorn \/ Pack \/ SignalReload)
  /\ WF_vars(ServeBoot \/ TarFound \/ StartService \/ StopService)
  /\ WF_vars(NoticeReload)

Spec == SafeSpec /\ Fairness

-----------------------------------------------------------------------------
TypeOK ==
  /\ multiRegion \in Layouts
  /\ pbf \in Nat /\ torn \in BOOLEAN /\ pbfUpdated \in BOOLEAN
  /\ upc \in [Updaters -> {"idle", "merging", "crossed", "signal"}]
  /\ bpc \in {"down", "watch", "read", "pack", "signal"}
  /\ trig \in BOOLEAN /\ buildFrom \in Nat
  /\ tar \in Nat /\ reload \in BOOLEAN
  /\ spc \in {"down", "waiting", "start", "loop", "stop"}
  /\ loaded \in Nat /\ up \in BOOLEAN
  /\ trigLost \in BOOLEAN /\ reloadLost \in BOOLEAN
  /\ fails \in [Failing -> Nat]

(* Tiles that lag behind the PBF are on their way: a sentinel is there or  *)
(* about to be, or a build that will read (or has read) the current PBF is *)
(* under way - unless someone died holding the trigger.  This is why the   *)
(* sentinel is removed before the build and not after (watch.sh:64-68).    *)
TilesFollowPbf ==
  tar < pbf =>
    \/ pbfUpdated
    \/ \E u \in Updaters : upc[u] = "signal"
    \/ bpc = "read"
    \/ bpc = "pack" /\ buildFrom = pbf
    \/ bpc = "down" /\ tar = 0
    \/ trigLost

(* A service that lags behind tiles.tar will be restarted on it: reload is *)
(* there or about to be, or the service is not running anyway - unless the *)
(* builder died between the rename and the touch (serve.sh:62-74).         *)
ServiceFollowsTiles ==
  loaded < tar =>
    \/ reload
    \/ bpc = "signal"
    \/ spc \in {"down", "waiting", "start", "stop"}
    \/ ~up
    \/ reloadLost

(* The service never goes back to older tiles, whichever of reload, crash  *)
(* recovery and container restart starts it.                               *)
ServedNeverOlder == [][loaded' >= loaded]_vars

(* TilePipeline implements TileFeed.  What it may lose for good: a refresh *)
(* whose sentinel died with a process, tiles whose reload did, and an      *)
(* extract left half written or garbled.                                   *)
Feed == INSTANCE TileFeed
          WITH latest <- pbf, served <- loaded, up <- up,
               stuck <- trigLost \/ reloadLost \/ torn

ImplementsFeed == Feed!Spec

(* Claim of docker-compose.yml:113-114 and watch.sh:5-8: the loop rebuilds *)
(* when pbf_updated is written, then writes reload for valhalla to pick    *)
(* up.  False when watch.sh dies in between: it consumes the sentinel      *)
(* first, and on restart tiles.tar exists, so nothing is rebuilt (nor      *)
(* reloaded, if it died between the rename and the touch).                 *)
UpdateServed == \A v \in 1..MaxVersion : (pbfUpdated /\ pbf = v) ~> loaded >= v
=============================================================================
