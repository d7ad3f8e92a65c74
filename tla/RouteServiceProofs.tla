-------------------------- MODULE RouteServiceProofs --------------------------
(***************************************************************************)
(* For every number of calls, ids and faults, every ttl and every max-age: *)
(* the links of the service show their own route, for a bounded time, and  *)
(* the service implements RouteLinks.  For any number of overlapping runs  *)
(* of the debug page: its map shows the route its buttons open, and the    *)
(* plan button is never left disabled.                                     *)
(***************************************************************************)
EXTENDS DebugPage, TLAPS

(* An entry is of the route its uuid was issued for, and expires in time.  *)
EntriesIssued ==
  \A id \in Ids : redis[id].route # None =>
    /\ redis[id].route = issued[id].route
    /\ redis[id].until = IF ttl = 0 THEN Forever ELSE issued[id].at + ttl

(* A kept copy is of the same route, and was made before the entry went.   *)
CopiesIssued ==
  \A page \in Cached, id \in Ids : cache[page][id].route # None =>
    /\ cache[page][id].route = issued[id].route
    /\ ttl # 0 => cache[page][id].until <= issued[id].at + ttl + MaxAge

(* The id a call was given was issued for it.                              *)
CallsIssued ==
  \A c \in Calls : call[c].step \in {"saved", "answered"} =>
    /\ call[c].id \in Ids
    /\ issued[call[c].id].route = c

Inv == TypeOK /\ EntriesIssued /\ CopiesIssued /\ CallsIssued

LEMMA ServiceInit == Init => Inv
<1> USE ServiceAssumption
<1>1. ASSUME Init PROVE ttl \in Nat
  BY <1>1, SMT DEF Init, RouteTtl
<1> QED
  BY <1>1, SMT DEF Init, Inv, TypeOK, EntriesIssued, CopiesIssued, CallsIssued, NoEntry, Entries

LEMMA ServiceStep == Inv /\ [Next]_vars => Inv'
<1> USE ServiceAssumption
<1> SUFFICES ASSUME Inv, [Next]_vars PROVE Inv'
  OBVIOUS
<1>1. ASSUME NEW c \in Calls, Request(c) PROVE Inv'
  BY <1>1, SMT DEF Inv, TypeOK, EntriesIssued, CopiesIssued, CallsIssued, Request, Entries
<1>2. ASSUME NEW c \in Calls, PlanEnds(c) PROVE Inv'
  BY <1>2, SMT DEF Inv, TypeOK, EntriesIssued, CopiesIssued, CallsIssued, PlanEnds, Entries
<1>3. ASSUME NEW c \in Calls, Save(c) PROVE Inv'
  <2>1. PICK id \in Ids : Save(c)!2!(id)
    BY <1>3 DEF Save
  <2>2. PICK stored \in BOOLEAN, replied \in BOOLEAN : Save(c)!2!(id)!3!(stored, replied)
    BY <2>1
  <2>3. redis' \in [Ids -> Entries]
    BY <2>1, <2>2, SMT DEF Inv, TypeOK, Entries, Forever
  <2>4. TypeOK'
    BY <1>3, <2>1, <2>2, <2>3, SMT DEF Inv, TypeOK, Save
  <2>5. EntriesIssued' /\ CopiesIssued'
    BY <1>3, <2>1, SMT DEF Inv, TypeOK, EntriesIssued, CopiesIssued, Save, Entries, Forever
  <2>6. CallsIssued'
    BY <1>3, <2>1, SMT DEF Inv, TypeOK, CallsIssued, Save
  <2> QED
    BY <2>4, <2>5, <2>6 DEF Inv
<1>4. ASSUME NEW c \in Calls, Answer(c) PROVE Inv'
  BY <1>4, SMT DEF Inv, TypeOK, EntriesIssued, CopiesIssued, CallsIssued, Answer, Entries
<1>5. ASSUME NEW page \in Cached, NEW id \in Published, View(page, id) PROVE Inv'
  BY <1>5, SMT DEF Inv, TypeOK, EntriesIssued, CopiesIssued, CallsIssued, View, Fresh, Load,
                   Expired, Entries, Published, Forever
<1>6. CASE Tick
  BY <1>6, SMT DEF Inv, TypeOK, EntriesIssued, CopiesIssued, CallsIssued, Tick, Entries
<1>7. CASE Crash
  BY <1>7, SMT DEF Inv, TypeOK, EntriesIssued, CopiesIssued, CallsIssued, Crash, Entries
<1>8. CASE RedisRestart
  BY <1>8, SMT DEF Inv, TypeOK, EntriesIssued, CopiesIssued, CallsIssued, RedisRestart, Entries, NoEntry
<1>9. CASE UNCHANGED vars
  BY <1>9, SMT DEF vars, Inv, TypeOK, EntriesIssued, CopiesIssued, CallsIssued, Entries
<1> QED
  BY <1>1, <1>2, <1>3, <1>4, <1>5, <1>6, <1>7, <1>8, <1>9 DEF Next, Tool

(* The invariant behind the theorems below (store.go:39-67, preview.go,    *)
(* export.go).                                                             *)
THEOREM ServiceInvariant == Spec => []Inv
<1> QED
  BY ServiceInit, ServiceStep, PTL DEF Spec

(* Types, and: a call that got past Save has an id.                        *)
THEOREM ServiceTypeOK == Spec => []TypeOK
<1>1. Inv => TypeOK
  BY DEF Inv
<1> QED
  BY <1>1, ServiceInvariant, PTL

(* What a page shows, if anything, is the route its id was issued for.     *)
ShowsIssued ==
  \A page \in Pages, id \in Ids : Shown(page, id) \in {issued[id].route, None}

LEMMA ShownIssued == Inv => ShowsIssued
<1> QED
  BY SMT DEF Inv, EntriesIssued, CopiesIssued, ShowsIssued, Shown, Fresh, Load, Pages

(* The page behind a link shows the route of the call that was answered    *)
(* with it or none, out of the store or out of a cache, after crashes of   *)
(* the server and losses of the store (store.go:39-50, preview.go:18-36,   *)
(* export.go:58-85).                                                       *)
LinksShowTheirRoute ==
  \A c \in Calls, page \in Pages :
    call[c].step = "answered" => Shown(page, call[c].id) \in {c, None}

(* A page behind a link shows the route of its call, or none.              *)
THEOREM LinksOwnRoute == Spec => []LinksShowTheirRoute
<1>1. Inv => LinksShowTheirRoute
  BY ShownIssued DEF ShowsIssued, Inv, CallsIssued, LinksShowTheirRoute
<1> QED
  BY <1>1, ServiceInvariant, PTL

(* No page is shown later than ttl and, if it may be kept, MaxAge after    *)
(* its route was saved.                                                    *)
THEOREM LinksGoStale == Spec => []StalenessBounded
<1>1. Inv => StalenessBounded
  BY ServiceAssumption, SMT DEF Inv, TypeOK, EntriesIssued, CopiesIssued, StalenessBounded, Shown, Fresh, Load,
    Expired, Forever, Pages, Entries
<1> QED
  BY <1>1, ServiceInvariant, PTL

-----------------------------------------------------------------------------
(* Refinement: an answer publishes, and in any other step the pages behind *)
(* published ids can only stop showing their route.                        *)

links == [id \in Ids |-> IF id \in Published THEN issued[id].route ELSE None]
shown == [id \in Ids |-> IF id \in Published THEN {Shown(page, id) : page \in Pages} \ {None} ELSE {}]

LEMMA LinksInit == Init => Links!Init
<1> QED
  BY SMT DEF Init, Links!Init, Published

(* A step that answers no call, and after which a page shows a route only  *)
(* where some page did before, is a Fade.                                  *)
LEMMA Fading ==
  ASSUME Inv, Inv', Published' = Published,
         \A id \in Published : issued'[id] = issued[id],
         \A id \in Published, page \in Pages :
           Shown(page, id)' # None => \E other \in Pages : Shown(other, id) # None
  PROVE  Links!Fade
<1>1. Published \subseteq Ids
  BY DEF Published, Inv, CallsIssued
<1>2. links' = links
  BY <1>1 DEF links
<1>3. ShowsIssued /\ ShowsIssued'
  BY ShownIssued, PTL
<1>4. ASSUME NEW id \in Ids PROVE shown'[id] \subseteq shown[id]
  <2>1. CASE id \in Published
    <3> SUFFICES ASSUME NEW page \in Pages, Shown(page, id)' # None
                 PROVE  Shown(page, id)' \in {Shown(other, id) : other \in Pages} \ {None}
      BY <2>1 DEF shown, Pages
    <3>1. Shown(page, id)' = issued'[id].route
      BY <1>3 DEF ShowsIssued, Pages
    <3>2. PICK other \in Pages : Shown(other, id) # None
      BY <2>1
    <3> QED
      BY <1>3, <2>1, <3>1, <3>2 DEF ShowsIssued
  <2> QED
    BY <2>1 DEF shown
<1>5. shown' \in [Ids -> SUBSET Calls]
  BY <1>3 DEF shown, ShowsIssued, Inv, TypeOK, Pages
<1> QED
  BY <1>2, <1>4, <1>5 DEF Links!Fade, links, shown

(* The answer of a call publishes its id, which no other call was given.   *)
LEMMA Publishing ==
  ASSUME Inv, Inv', NEW c \in Calls, Answer(c)
  PROVE  Links!Publish
<1> DEFINE id == call[c].id
<1>1. id \in Ids /\ issued[id].route = c
  BY DEF Inv, CallsIssued, Answer
<1>2. id \notin Published
  BY <1>1 DEF Published, Inv, CallsIssued, Answer
<1>3. Published' = Published \cup {id}
  BY DEF Published, Answer, Inv, TypeOK
<1>4. UNCHANGED issued /\ \A page \in Pages, other \in Ids : Shown(page, other)' = Shown(page, other)
  BY DEF Answer, Shown, Fresh, Load, Expired
<1> DEFINE now == {Shown(page, id) : page \in Pages} \ {None}
<1>5. now \in {{}, {c}}
  BY <1>1, ShownIssued DEF ShowsIssued
<1>6. links[id] = None /\ links' = [links EXCEPT ![id] = c]
  BY <1>1, <1>2, <1>3, <1>4 DEF links
<1>7. shown' = [shown EXCEPT ![id] = now]
  <2>1. ASSUME NEW other \in Ids PROVE {Shown(page, other)' : page \in Pages} = {Shown(page, other) : page \in Pages}
    BY <1>4
  <2> QED
    BY <1>1, <1>2, <1>3, <2>1 DEF shown
<1>8. \E i \in Ids, r \in Calls :
        /\ links[i] = None
        /\ links' = [links EXCEPT ![i] = r]
        /\ \E n \in {{}, {r}} : shown' = [shown EXCEPT ![i] = n]
  <2> HIDE DEF id, now
  <2> QED
    BY <1>1, <1>5, <1>6, <1>7
<1> QED
  BY <1>8 DEF Links!Publish, links, shown

LEMMA LinksStep == Inv /\ Inv' /\ [Next]_vars => [Links!Publish \/ Links!Fade]_<<links, shown>>
<1> SUFFICES ASSUME Inv, Inv', [Next]_vars PROVE Links!Publish \/ Links!Fade
  OBVIOUS
<1> USE DEF Shown, Fresh, Load, Expired
<1>1. ASSUME NEW c \in Calls, Request(c) PROVE Links!Fade
  <2>1. Published' = Published
    BY <1>1 DEF Published, Request, Inv, TypeOK
  <2> QED
    BY <1>1, <2>1, Fading DEF Request
<1>2. ASSUME NEW c \in Calls, PlanEnds(c) PROVE Links!Fade
  <2>1. Published' = Published
    BY <1>2 DEF Published, PlanEnds, Inv, TypeOK
  <2> QED
    BY <1>2, <2>1, Fading DEF PlanEnds
<1>3. ASSUME NEW c \in Calls, Save(c) PROVE Links!Fade
  <2>1. PICK id \in Ids : Save(c)!2!(id)
    BY <1>3 DEF Save
  <2>2. PICK stored \in BOOLEAN, replied \in BOOLEAN : Save(c)!2!(id)!3!(stored, replied)
    BY <2>1
  <2>3. Published' = Published
    BY <1>3, <2>2 DEF Published, Save, Inv, TypeOK
  <2>4. id \notin Published
    BY <2>1, ServiceAssumption DEF Published, Inv, CallsIssued
  <2>5. ASSUME NEW other \in Published PROVE redis'[other] = redis[other] /\ issued'[other] = issued[other]
    BY <2>1, <2>2, <2>4 DEF Inv, TypeOK, Published, CallsIssued
  <2> QED
    BY <1>3, <2>3, <2>5, Fading DEF Save
<1>4. ASSUME NEW c \in Calls, Answer(c) PROVE Links!Publish
  BY <1>4, Publishing
<1>5. ASSUME NEW page \in Cached, NEW id \in Published, View(page, id) PROVE Links!Fade
  <2>1. Published' = Published
    BY <1>5 DEF Published, View
  <2>2. ASSUME NEW other \in Published, NEW p \in Pages, Shown(p, other)' # None
        PROVE  \E q \in Pages : Shown(q, other) # None
    <3>1. CASE p = page /\ other = id
      BY <1>5, <3>1 DEF View, Pages
    <3>2. CASE ~(p = page /\ other = id)
      BY <1>5, <2>2, <3>2 DEF View, Inv, TypeOK, Published, CallsIssued
    <3> QED
      BY <3>1, <3>2
  <2> QED
    BY <1>5, <2>1, <2>2, Fading DEF View
<1>6. CASE Tick
  <2>1. Published' = Published
    BY <1>6 DEF Published, Tick
  <2>2. ASSUME NEW id \in Published, NEW page \in Pages, Shown(page, id)' # None
        PROVE  \E other \in Pages : Shown(other, id) # None
    <3>1. clock \in Nat /\ clock' = clock + 1 /\ UNCHANGED <<redis, cache>>
      BY <1>6 DEF Tick, Inv, TypeOK
    <3>2. redis[id] \in Entries /\ \A p \in Cached : cache[p][id] \in Entries
      BY DEF Inv, TypeOK, Published, CallsIssued
    <3> QED
      BY <2>2, <3>1, <3>2, SMT DEF Entries, Pages, Forever
  <2> QED
    BY <1>6, <2>1, <2>2, Fading DEF Tick
<1>7. CASE Crash
  <2>1. ASSUME NEW c \in Calls
        PROVE  /\ call'[c].step = "answered" <=> call[c].step = "answered"
               /\ call[c].step = "answered" => call'[c] = call[c]
    BY <1>7, SMT DEF Crash, Inv, TypeOK
  <2>2. Published' = Published
    BY <2>1, Zenon DEF Published
  <2> QED
    BY <1>7, <2>2, Fading DEF Crash
<1>8. CASE RedisRestart
  <2>1. Published' = Published
    BY <1>8 DEF Published, RedisRestart
  <2>2. ASSUME NEW id \in Published, NEW page \in Pages, Shown(page, id)' # None
        PROVE  \E other \in Pages : Shown(other, id) # None
    <3>1. id \in Ids
      BY DEF Inv, CallsIssued, Published
    <3>2. redis'[id] \in {redis[id], NoEntry}
      BY <1>8, <3>1 DEF RedisRestart
    <3> QED
      BY <1>8, <2>2, <3>2 DEF RedisRestart, NoEntry, Pages
  <2> QED
    BY <1>8, <2>1, <2>2, Fading DEF RedisRestart
<1>9. CASE UNCHANGED vars
  <2>1. Published' = Published
    BY <1>9 DEF Published, vars
  <2> QED
    BY <1>9, <2>1, Fading DEF vars
<1> QED
  BY <1>1, <1>2, <1>3, <1>4, <1>5, <1>6, <1>7, <1>8, <1>9 DEF Next, Tool

(* The service implements RouteLinks: a link stands for one route for      *)
(* good, and a link nobody is shown any more stays dead.                   *)
THEOREM ServiceImplementsLinks == Spec => ImplementsLinks
<1> QED
  BY ServiceInvariant, LinksInit, LinksStep, PTL DEF Spec, ImplementsLinks, Links!Spec, links, shown

-----------------------------------------------------------------------------
(* The debug page. *)

(* A run fetches layers only once its call is answered, and the buttons    *)
(* open published links only.                                              *)
RunsAnswered == \A c \in Calls : job[c] = "layers" => call[c].step = "answered"
ButtonsPublished == routeUUID # None => routeUUID \in Published

PageInv ==
  /\ Inv /\ PageTypeOK
  /\ RunsAnswered /\ ButtonsPublished
  /\ MapMatchesButtons /\ NeverStuck

LEMMA PageStarts == PageInit => PageInv
<1> QED
  BY ServiceInit, ServiceAssumption DEF PageInit, PageInv, Inv, PageTypeOK, RunsAnswered, ButtonsPublished,
    MapMatchesButtons, NeverStuck

(* A step of the page is a step of the service or leaves it alone.         *)
LEMMA PageStepsService == PageInv /\ [PageNext]_allVars => [Next]_vars
<1> SUFFICES ASSUME PageInv, [PageNext]_allVars PROVE Next \/ UNCHANGED vars
  OBVIOUS
<1>1. ASSUME NEW c \in Calls, PlanRoute(c) PROVE Next
  BY <1>1 DEF PlanRoute, Next
<1>2. ASSUME NEW c \in Calls, PageRun(c) PROVE UNCHANGED vars
  BY <1>2 DEF PageRun, ToolAnswered, GatewayTimeout, Rendered, FetchFailed
<1>3. CASE DoClear \/ Reset
  BY <1>3 DEF DoClear, Reset
<1>4. CASE OpenLink
  BY <1>4 DEF OpenLink, Next, PageInv, ButtonsPublished
<1>5. CASE Server
  BY <1>5 DEF Server, Next
<1>6. CASE UNCHANGED allVars
  BY <1>6 DEF allVars
<1> QED
  BY <1>1, <1>2, <1>3, <1>4, <1>5, <1>6 DEF PageNext

(* Answered calls stay as they are, and uuids keep their routes.           *)
LEMMA AnswersLast ==
  ASSUME Inv, [Next]_vars
  PROVE  /\ \A c \in Calls : call[c].step = "answered" => call'[c] = call[c]
         /\ \A id \in Published : issued'[id] = issued[id]
<1> SUFFICES ASSUME Next \/ UNCHANGED vars
             PROVE  /\ \A c \in Calls : call[c].step = "answered" => call'[c] = call[c]
                    /\ \A id \in Published : issued'[id] = issued[id]
  OBVIOUS
<1>1. ASSUME NEW c \in Calls, Request(c) \/ PlanEnds(c) \/ Answer(c)
      PROVE  /\ \A d \in Calls : call[d].step = "answered" => call'[d] = call[d]
             /\ issued' = issued
  BY <1>1 DEF Request, PlanEnds, Answer, Inv, TypeOK
<1>2. ASSUME NEW c \in Calls, Save(c)
      PROVE  /\ \A d \in Calls : call[d].step = "answered" => call'[d] = call[d]
             /\ \A id \in Published : issued'[id] = issued[id]
  <2>1. PICK id \in Ids : Save(c)!2!(id)
    BY <1>2 DEF Save
  <2>2. PICK stored \in BOOLEAN, replied \in BOOLEAN : Save(c)!2!(id)!3!(stored, replied)
    BY <2>1
  <2>3. id \notin Published
    BY <2>1, ServiceAssumption DEF Published, Inv, CallsIssued
  <2> QED
    BY <1>2, <2>1, <2>2, <2>3 DEF Save, Inv, TypeOK, Published, CallsIssued
<1>3. CASE Crash
  BY <1>3, SMT DEF Crash, Inv, TypeOK
<1>4. CASE (\E page \in Cached, id \in Published : View(page, id)) \/ Tick \/ RedisRestart \/ UNCHANGED vars
  BY <1>4 DEF View, Tick, RedisRestart, vars
<1> QED
  BY <1>1, <1>2, <1>3, <1>4 DEF Next, Tool

LEMMA PageSteps == PageInv /\ [PageNext]_allVars => PageInv'
<1> SUFFICES ASSUME PageInv, [PageNext]_allVars PROVE PageInv'
  OBVIOUS
<1>1. Inv' /\ TypeOK'
  BY PageStepsService, ServiceStep DEF PageInv, Inv
<1>2. /\ \A c \in Calls : call[c].step = "answered" => call'[c] = call[c]
      /\ \A id \in Published : issued'[id] = issued[id]
  BY PageStepsService, AnswersLast DEF PageInv
<1>3. Published \subseteq Published' /\ Published \subseteq Ids
  BY <1>2 DEF Published, PageInv, Inv, CallsIssued
<1>4. ASSUME UNCHANGED pageVars PROVE PageInv'
  BY <1>1, <1>2, <1>3, <1>4 DEF pageVars, PageInv, PageTypeOK, RunsAnswered, ButtonsPublished,
    MapMatchesButtons, NeverStuck
<1>5. ASSUME NEW c \in Calls, PlanRoute(c) PROVE PageInv'
  BY <1>1, <1>2, <1>3, <1>5 DEF PlanRoute, PageInv, PageTypeOK, RunsAnswered, ButtonsPublished,
    MapMatchesButtons, NeverStuck
<1>6. ASSUME NEW c \in Calls, ToolAnswered(c) \/ GatewayTimeout(c) PROVE PageInv'
  BY <1>1, <1>2, <1>3, <1>6 DEF ToolAnswered, GatewayTimeout, PageInv, PageTypeOK, RunsAnswered, ButtonsPublished,
    MapMatchesButtons, NeverStuck
<1>7. ASSUME NEW c \in Calls, Rendered(c) PROVE PageInv'
  <2>1. call[c].id \in Published /\ call[c].id \in Ids /\ issued[call[c].id].route = c
    BY <1>7 DEF Rendered, PageInv, RunsAnswered, Published, Inv, CallsIssued
  <2>2. Shown("debug", call[c].id) = issued[call[c].id].route
    BY <1>7, <2>1, ShownIssued DEF Rendered, ShowsIssued, Pages, PageInv
  <2> QED
    BY <1>1, <1>2, <1>3, <1>7, <2>1, <2>2, ServiceAssumption DEF Rendered, PageInv, PageTypeOK, RunsAnswered,
      ButtonsPublished, MapMatchesButtons, NeverStuck
<1>8. ASSUME NEW c \in Calls, FetchFailed(c) PROVE PageInv'
  BY <1>1, <1>2, <1>3, <1>8 DEF FetchFailed, PageInv, PageTypeOK, RunsAnswered, ButtonsPublished,
    MapMatchesButtons, NeverStuck
<1>9. CASE DoClear \/ Reset
  BY <1>1, <1>2, <1>3, <1>9 DEF DoClear, Reset, PageInv, PageTypeOK, RunsAnswered, ButtonsPublished,
    MapMatchesButtons, NeverStuck
<1> QED
  BY <1>4, <1>5, <1>6, <1>7, <1>8, <1>9 DEF PageNext, PageRun, OpenLink, Server, allVars

(* The invariant behind the theorems below (index.html:938-1062).          *)
THEOREM PageInvariant == PageSpec => []PageInv
<1> QED
  BY PageStarts, PageSteps, PTL DEF PageSpec

(* With the page as its only caller the service is still the service, so   *)
(* the theorems above hold of the two together.                            *)
THEOREM PageUsesService == PageSpec => Spec
<1>1. PageInit => Init
  BY DEF PageInit
<1> QED
  BY <1>1, PageStepsService, PageInvariant, PTL DEF PageSpec, Spec

(* Types of the page and of the service.                                   *)
THEOREM DebugPageTypeOK == PageSpec => []PageTypeOK
<1>1. PageInv => PageTypeOK
  BY DEF PageInv
<1> QED
  BY <1>1, PageInvariant, PTL

(* The map shows the route the buttons open, in whatever order overlapping *)
(* runs, clears and resets come.                                           *)
THEOREM ButtonsMatchMap == PageSpec => []MapMatchesButtons
<1>1. PageInv => MapMatchesButtons
  BY DEF PageInv
<1> QED
  BY <1>1, PageInvariant, PTL

(* A disabled button always has a run that will enable it.                 *)
THEOREM ButtonNeverStuck == PageSpec => []NeverStuck
<1>1. PageInv => NeverStuck
  BY DEF PageInv
<1> QED
  BY <1>1, PageInvariant, PTL
=============================================================================
