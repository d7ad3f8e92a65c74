----------------------------- MODULE RouteService -----------------------------
(***************************************************************************)
(* The server around the planner: the plan_scenic_route tool               *)
(* (internal/tools/scenic_route.go), the route store in Redis              *)
(* (internal/routestore/store.go), and the pages made from it              *)
(* (internal/handler), which browsers and proxies keep for MaxAge.         *)
(*                                                                         *)
(* A route is named by the tool call it was planned for.  Time is a        *)
(* counter; a ttl of 0 keeps an entry for ever, as SET does.               *)
(***************************************************************************)
EXTENDS Integers

CONSTANTS
  Calls,      \* calls of the tool, each made at most once
  Ids,        \* uuids
  Settings,   \* values of ROUTE_TTL: durations, or Unparsable
  Unparsable,
  Cached,     \* pages that may be kept: preview, gpx, geojson
  Hour,       \* the default ttl
  MaxAge,     \* max-age of Cache-Control
  MaxTime,    \* bound on the clock
  Faults,     \* bound on crashes of the server and restarts of Redis
  None

ASSUME ServiceAssumption ==
  /\ Settings \subseteq Nat \cup {Unparsable} /\ Unparsable \notin Nat
  /\ {Hour, MaxAge, MaxTime, Faults} \subseteq Nat /\ Hour # 0
  /\ None \notin Calls \cup Ids /\ "debug" \notin Cached

(* The layers of the debug page are sent with no-store.                    *)
Pages == Cached \cup {"debug"}

VARIABLES
  clock,
  ttl,    \* Store.ttl
  call,   \* how far each call of the tool has come, and the id it got
  issued, \* history: for each uuid generated, its route and when
  redis,  \* entries: a route, and the time it expires
  cache,  \* copies of pages: a route, and the time until which it is fresh
  faults

vars == <<clock, ttl, call, issued, redis, cache, faults>>

NoEntry == [route |-> None, until |-> 0]
Forever == 0

-----------------------------------------------------------------------------
(* An invalid ROUTE_TTL counts as one hour.                                *)
RouteTtl(setting) == IF setting = Unparsable THEN Hour ELSE setting

Expired(until) == until # Forever /\ clock >= until

(* Store.Load: ErrNotFound is None.                                        *)
Load(id) == IF Expired(redis[id].until) THEN None ELSE redis[id].route

Published == {call[c].id : c \in {d \in Calls : call[d].step = "answered"}}

-----------------------------------------------------------------------------
Init ==
  /\ clock = 1
  /\ ttl \in {RouteTtl(s) : s \in Settings}
  /\ call = [c \in Calls |-> [step |-> "idle", id |-> None]]
  /\ issued = [id \in Ids |-> [route |-> None, at |-> 0]]
  /\ redis = [id \in Ids |-> NoEntry]
  /\ cache = [page \in Cached |-> [id \in Ids |-> NoEntry]]
  /\ faults = 0

(* Too few points or no POI field is an error at once.                     *)
Request(c) ==
  /\ call[c].step = "idle"
  /\ \E step \in {"planning", "failed"} : call' = [call EXCEPT ![c].step = step]
  /\ UNCHANGED <<clock, ttl, issued, redis, cache, faults>>

PlanEnds(c) ==
  /\ call[c].step = "planning"
  /\ \E step \in {"saving", "failed"} : call' = [call EXCEPT ![c].step = step]
  /\ UNCHANGED <<clock, ttl, issued, redis, cache, faults>>

(* Mutant of Save: an id that the store does not hold will do.            *)
SaveNumbered(c) ==
  /\ call[c].step = "saving"
  /\ \E id \in Ids :
       /\ Load(id) = None
       /\ issued' = [issued EXCEPT ![id] = [route |-> c, at |-> clock]]
       /\ call' = [call EXCEPT ![c] = [step |-> "saved", id |-> id]]
       /\ redis' = [redis EXCEPT ![id] = [route |-> c, until |-> IF ttl = 0 THEN Forever ELSE clock + ttl]]
  /\ UNCHANGED <<clock, ttl, cache, faults>>

(* Mutant of Save: the error of Store.Save is ignored.                     *)
SaveUnchecked(c) ==
  /\ call[c].step = "saving"
  /\ call' = [call EXCEPT ![c].step = "saved"]
  /\ UNCHANGED <<clock, ttl, issued, redis, cache, faults>>

(* Store.Save: SET under a new uuid.  The command may fail, and may fail   *)
(* after Redis carried it out: then nobody learns the id of the entry.     *)
Save(c) ==
  /\ call[c].step = "saving"
  /\ \E id \in Ids :
       /\ issued[id].route = None
       /\ issued' = [issued EXCEPT ![id] = [route |-> c, at |-> clock]]
       /\ \E stored, replied \in BOOLEAN :
            /\ replied => stored
            /\ redis' = IF stored
                          THEN [redis EXCEPT ![id] = [route |-> c, until |-> IF ttl = 0 THEN Forever ELSE clock + ttl]]
                          ELSE redis
            /\ call' = IF replied THEN [call EXCEPT ![c] = [step |-> "saved", id |-> id]]
                                  ELSE [call EXCEPT ![c].step = "failed"]
  /\ UNCHANGED <<clock, ttl, cache, faults>>

(* The summary with its links reaches the caller.                          *)
Answer(c) ==
  /\ call[c].step = "saved"
  /\ call' = [call EXCEPT ![c].step = "answered"]
  /\ UNCHANGED <<clock, ttl, issued, redis, cache, faults>>

-----------------------------------------------------------------------------
Fresh(page, id) == cache[page][id].route # None /\ clock < cache[page][id].until

(* What a reader who follows a link now is shown: a fresh copy as it is,   *)
(* otherwise what the handler loads.  404 and 500 show no route.           *)
Shown(page, id) == IF page \in Cached /\ Fresh(page, id) THEN cache[page][id].route ELSE Load(id)

(* Mutant of View: reading an entry starts its time to live anew.          *)
ViewTouch(page, id) ==
  /\ Load(id) # None
  /\ redis' = [redis EXCEPT ![id].until = IF ttl = 0 THEN Forever ELSE clock + ttl]
  /\ UNCHANGED <<clock, ttl, call, issued, cache, faults>>

(* A page is made, and kept with a max-age.  Other requests change         *)
(* nothing: a fresh copy, a page that is not kept, an unknown id, an error *)
(* of Redis or of the rendering.                                           *)
View(page, id) ==
  /\ page \in Cached /\ ~Fresh(page, id)
  /\ Load(id) # None
  /\ cache' = [cache EXCEPT ![page][id] = [route |-> Load(id), until |-> clock + MaxAge]]
  /\ UNCHANGED <<clock, ttl, call, issued, redis, faults>>

-----------------------------------------------------------------------------
Tick ==
  /\ clock < MaxTime
  /\ clock' = clock + 1
  /\ UNCHANGED <<ttl, call, issued, redis, cache, faults>>

(* The server dies; callers see their calls fail.                          *)
Crash ==
  /\ faults < Faults
  /\ faults' = faults + 1
  /\ call' = [c \in Calls |-> IF call[c].step \in {"planning", "saving", "saved"}
                                THEN [call[c] EXCEPT !.step = "failed"] ELSE call[c]]
  /\ UNCHANGED <<clock, ttl, issued, redis, cache>>

(* Redis comes back with what its last snapshot holds.                     *)
RedisRestart ==
  /\ faults < Faults
  /\ faults' = faults + 1
  /\ \E kept \in SUBSET Ids : redis' = [id \in Ids |-> IF id \in kept THEN redis[id] ELSE NoEntry]
  /\ UNCHANGED <<clock, ttl, call, issued, cache>>

Tool(c) == PlanEnds(c) \/ Save(c) \/ Answer(c)

Next ==
  \/ \E c \in Calls : Request(c) \/ Tool(c)
  \/ \E page \in Cached, id \in Published : View(page, id)
  \/ Tick \/ Crash \/ RedisRestart

Spec == Init /\ [][Next]_vars

-----------------------------------------------------------------------------
Entries == [route : Calls \cup {None}, until : Nat]

TypeOK ==
  /\ clock \in Nat /\ ttl \in Nat /\ faults \in Nat
  /\ call \in [Calls -> [step : {"idle", "planning", "saving", "failed"}, id : {None}]
                      \cup [step : {"saved", "answered", "failed"}, id : Ids]]
  /\ issued \in [Ids -> [route : Calls \cup {None}, at : Nat]]
  /\ redis \in [Ids -> Entries]
  /\ cache \in [Cached -> [Ids -> Entries]]

(* How stale a page can be: an entry is gone ttl after it was saved, the   *)
(* debug page with it, and a kept copy of another page MaxAge later        *)
(* (store.go:46, preview.go:35, export.go:38, 73, 84).                     *)
StalenessBounded ==
  ttl # 0 => \A page \in Pages, id \in Ids :
    Shown(page, id) # None =>
      clock < issued[id].at + ttl + (IF page = "debug" THEN 0 ELSE MaxAge)

Links == INSTANCE RouteLinks WITH
  Routes  <- Calls,
  NoRoute <- None,
  links   <- [id \in Ids |-> IF id \in Published THEN issued[id].route ELSE None],
  shown   <- [id \in Ids |-> IF id \in Published THEN {Shown(page, id) : page \in Pages} \ {None} ELSE {}]

(* The service keeps the promise of RouteLinks: a link stands for one      *)
(* route, and once nobody is shown it any more, nobody ever will be        *)
(* (scenic_route.go:76-80 with the store and the handlers).                *)
ImplementsLinks == Links!Spec
=============================================================================
