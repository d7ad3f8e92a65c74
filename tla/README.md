# A TLA+ development of scenic-routing-mcp

scenic-routing-mcp plans pedestrian routes through pleasant places. A Go server
answers an MCP tool call by asking four services (Ollama, Valhalla, PostGIS,
Redis), and a set of shell scripts keeps the map data behind those services
fresh. This directory holds TLA+ modules of the parts where order, failure and
off-by-one matter, TLC configurations that check them on small instances, and
TLAPS proofs of the facts that matter most.

    tlc -workers 2 -config ScenicPlan.cfg MCScenicPlan
    tlapm ScenicPlanProofs.tla

`PROJECT.json` lists the components, the runs, one mutant of the code per
property, the source lines of every definition, and the hazards.

## 1. Inventory

| Component (source) | State | Operations | What is hard | What makes it correct |
|---|---|---|---|---|
| Planner, `internal/scenic/scenic.go` `Plan` | locals of one call: base and scenic route, peaks, matrix, used peaks | a chain of calls: embed, route, features, scenic route, matrix, then a loop of routes through more and more peaks | each call may fail and each failure is treated differently; route and peaks are assigned apart, over several turns | the result's peaks are the result's waypoints; tours keep to the budget; the search neither goes back nor stops early |
| Peak selection, `tspPeakOrder` | none (pure) | Held-Karp over subsets | index shifts, the leg to the end, ties, walk back | an affordable tour, none hotter |
| Valhalla client, `internal/valhalla` | none | Route, RouteScenic, Matrix | no timeout; null times | an answer or an error |
| Heat grid, `internal/heatmap`, `internal/geom` | a grid of float64 | Compute, Encode, Peaks, ScoreRoute | borders, spacing, 8-bit rounding | every cell has its heat and every place its cell; peaks apart and hottest first |
| Feature query, `internal/geodata` | PostGIS (external) | Features | three thresholds, two kinds of exclusion | the best LIMIT features above them |
| Embedding client, `internal/ollama` | none | EmbedOne | numeric | unit vectors |
| Route service, `internal/routestore`, `internal/tools`, `internal/handler`, `cmd/server` | Redis entries with a TTL; HTTP caches outside | Save, Load; preview, export, debug | expiry, Redis restart, caches, a save that is carried out but not confirmed | a link shows the route it was given for, or says it is gone |
| Formats, `internal/format`, `internal/preview` | none | GeoJSON, GPX, PNG, page | empty legs | pure output |
| Feature import, `infra/osm-importer` | `feature` and raw tables in PostGIS, the working PBF | init, nightly update, post-import SQL, embedding | crashes between steps, overlapping runs, vectors carried over | every vector belongs to its row's tags; a rerun completes what a crash left |
| Tile pipeline, `update.sh`, `watch.sh`, `serve.sh` | working PBF, `pbf_updated`, `tiles.tar`, `reload`, the running service | patch, signal, build, reload, restart | three processes, two sentinels, crashes | refreshes get served, and the service never goes back |
| Tag filter, `scenic.lua` | none | should_import, processors | ANY versus value sets | each object in one table at most |
| Scenic costing, `infra/valhalla-base/patches` | none | EdgeCost | rounding, bounds, a second reading of the grid | what gets cheaper is what the server scores |
| Debug page, `debug/index.html` | points, layers, routeUUID | plan, clear, reset | overlapping requests | what is shown is what its buttons export; the button comes back |
| Dictionary, `internal/dictionary`, `cmd/build-dictionary` | CSV file | build, list | interrupted builds | - |

How they interact: an MCP client, or the debug page, calls `plan_scenic_route`
(`internal/tools/scenic_route.go`), which runs `Plan`, stores the result in Redis
and returns links; the preview, export and debug handlers load it back. `Plan`
reads features that the import wrote, makes a heat grid of them, sends it to
Valhalla, whose costing reads it, and routes on tiles that the pipeline served.
`update.sh` starts both data chains each night: it refreshes the PBF, touches
`pbf_updated` for `watch.sh`, and goes on to import into PostGIS; `watch.sh`
touches `reload` for `serve.sh`. Files on shared volumes, tables and HTTP are the
only channels; the only locks are PostgreSQL's own.

## 2. Modules

| Module | Models | Extends / instantiates |
|---|---|---|
| `Tours` | vocabulary: what a tour through peaks costs and is worth, and what the budget `NaN`/`+Inf` means | - |
| `SumTheorems` | induction over naturals and finite sets, minima, maxima and sums: the lemmas the proofs about pure functions rest on | - |
| `PeakTour`, `MCPeakTour`, `PeakTourProofs` | `tspPeakOrder` as functions over sets of peaks; every small input of it, with brute force as the reference | `Tours` |
| `ScenicPlan`, `ScenicPlanProofs` | `Plan` as a state machine; `tspPeakOrder` is a parameter with a contract | `Tours` |
| `MCScenicPlan` | an instance where that parameter is `PeakTour`'s operator | `ScenicPlan`, `PeakTour` |
| `Heats` | vocabulary: heats of cells, sorted and added | - |
| `Geometry` | shapes: parsing, distance, boxes (`internal/geom`) | - |
| `HeatGrid` | `Compute`, `Encode`, `ScoreRoute` and the projections (`internal/heatmap`) | `Geometry`, `Heats` |
| `HeatPeaks`, `HeatPeaksProofs` | `Peaks` as a state machine | `Heats` |
| `ScenicCosting` | how Valhalla's patched costing reads the grid | `HeatGrid` |
| `FeatureQuery` | the SQL of `Features` and the cut of its tail (`internal/geodata`) | - |
| `HeatSearch`, `HeatSearchProofs` | the six modules above on any search, scene or grid, and their properties | `HeatPeaks`, `ScenicCosting`, `FeatureQuery` |
| `MCHeatSearch` | small searches, scenes and grids | `HeatSearch` |
| `RouteLinks` | abstract: links that show their route until it fades, and never again | - |
| `RouteService` | the tool handler, the store, the pages and their caches | instantiates `RouteLinks` |
| `DebugPage` | `debug/index.html` at work with the service | `RouteService` |
| `RouteServiceProofs` | proofs about both | `DebugPage` |
| `TileFeed` | abstract: a service that serves some refresh, never an older one, and catches up | - |
| `TilePipeline`, `MCTilePipeline`, `TilePipelineProofs` | `update.sh`, `watch.sh`, `serve.sh` | instantiates `TileFeed` |
| `FeatureImport`, `MCFeatureImport`, `FeatureImportProofs` | `init.sh`, `import.sh`, `update.sh`, `post-import.sql`, `embed_features.py` and the lock on `feature` | - |

The runs:

| Run | cfg, module | Expected | Distinct states | What it asks |
|---|---|---|---|---|
| `peak_tour` | `PeakTour.cfg`, `MCPeakTour` | pass | 122 880 | is every tour affordable, and none hotter? |
| `peak_tour_order` | `PeakTourOrder.cfg`, `MCPeakTour` | violation | - | is it the quickest order of its peaks? |
| `scenic_plan` | `ScenicPlan.cfg`, `MCScenicPlan` | pass | 68 440 | does the search, with every failure, end with a consistent and best result? |
| `scenic_plan_waypoints`, `scenic_plan_detour` | `ScenicPlanWaypoints.cfg`, `ScenicPlanDetour.cfg` | violation | - | are waypoints forced, is the detour capped? |
| `heat_search` | `HeatSearch.cfg`, `MCHeatSearch` | pass | 107 570 | do search, grid, peaks, score and costing do what they are for on every small input? |
| `heat_search_exclude` | `HeatSearchExclude.cfg`, `MCHeatSearch` | violation | - | is every excluded pair excluded? |
| `debug_page` | `DebugPage.cfg`, `DebugPage` | pass | 348 608 | do overlapping plans, faults and caches keep map, buttons and links right? |
| `tile_pipeline` | `TilePipeline.cfg`, `MCTilePipeline` | pass | 98 490 | is every refresh served, in order, whatever fails? |
| `tile_pipeline_crash` | `TilePipelineCrash.cfg`, `MCTilePipeline` | violation | - | also when the builder dies on the way? |
| `feature_import` | `FeatureImport.cfg`, `MCFeatureImport` | pass | 95 464 | do overlapping and dying runs leave a table that is right, and end? |
| `feature_import_kept` | `FeatureImportKept.cfg`, `MCFeatureImport` | violation | - | are vectors kept when runs overlap? |

Deadlock is checked nowhere: plans, behaviours of pure functions, scripts and page
runs end, and every bound on a clock, a version or a number of faults stops the rest.

### PeakTour

Bit masks are sets of peaks, numbered from 1 instead of 0; `dp` and `prev` are
recursive functions on `SUBSET (1..n)`. Three ties matter to the code and are
modelled: the first best predecessor is kept (`c < dp`), the first mask with the
greatest heat wins (`h > bestHeat`, so `MaskOf` recovers the order of masks), and
within it the first feasible last peak. Times are integers, so float rounding is
left out; a matrix entry is always a number because the client decodes it so.

`peak_tour` runs `tspPeakOrder` once on each of 122 880 inputs: three peaks, every
matrix with entries in {1, 3}, budgets from too small to unlimited, and heats with
and without ties. `TourAffordable` re-adds the tour's legs from the matrix;
`TourHottest` compares with every order of every subset. Three peaks are the
fewest for which a table entry has two predecessors and the walk back has a
choice; two travel times make both triangle inequality and its failure occur.

`peak_tour_order` shows that the comment "optimal visiting order (minimum time)"
does not hold: all last peaks of one subset have equal heat, so the first that fits
wins, and the tour may be longer than necessary.

### ScenicPlan

One action per call, in the order of the code, each with its failure. `pc` is the
call about to be made. What a service answers is chosen from constant sets. Data is
reduced to what decides: a route is a time, a length and a heat score; `scenic`
also records where the route came from and its waypoints; a peak is its number.
The haversine distance and the ratio are part of the request, and the base route may
be of any of the lengths, longer or shorter than that distance; the budget is the
integer part of `budgetKm * speedSPerKm`, which compares with integer times as the
exact value does. The contract of `TourOrder` (`TourContract`) says what the search
needs: tours stay within the first n peaks and the budget, and with more peaks
allowed a tour is not lost and what is collected is no colder. TLC evaluates it for
`PeakTour!TspPeakOrder` on every combination of the instance, and `TspMeetsContract`
proves it for every matrix, heats and budget, so the proofs, which rest on the
contract, apply to the code's algorithm.

The search loop is `Search` (one turn: no tour, refused, routed) and `SearchOver`.
`missed`, the peak counts Valhalla refused, is a history variable.

`scenic_plan` checks, over 16 requests by 3 base routes by 4 matrices by 4 heat
profiles and every failure:

- `UsedPeaksOnRoute`: the reported peaks are exactly the waypoints of the reported
  route, whatever turns of the search are refused or find no tour between them.
- `ToursFitBudget`: the tour in the result fits the detour budget, including the
  default ratio; nothing is promised when the base route has no length.
- `SearchExhaustive`: a search that ends below the threshold, its last candidate
  not refused, leaves no hotter tour among all peak counts, not only those tried.
- `HeatGrows`: a later turn never trades the used peaks for colder ones or none.
- `ScenicEnoughIsFinal`: a route that reaches the threshold is never replaced.

Steps `{3, 6, 10}` become `{1, 2, 10}`, so three peaks give the three turns that
ten peaks give in the code. `scenic_plan_waypoints` and `scenic_plan_detour` show
two statements of the documentation that do not hold (see findings).
The planner stops when it is done, so deadlock is not checked.

### Geometry, HeatGrid, ScenicCosting and FeatureQuery

Places are points of an integer lattice whose unit is the same number of metres both
ways: the projection's factors are left out, the truncation and the clamping that
follow are not. Distances are roots; `Near(g, p, r)` says whether one is below a whole
number, which is all the kernel needs: the Gaussian becomes a step function with the
same cutoff, that falls with every unit of distance. Heat is an integer and 0 stands for the
`-Inf` no feature reaches. Word and cosine similarities are numbers a row carries
for the query at hand; what PostgreSQL does with them (index thresholds, the two
CTEs, `ORDER BY`, `LIMIT`) is modelled from the SQL text. A shape is the set of its
points, lines and polygons: the distance to a collection is the least one to a part and
its box is drawn around the boxes of its parts, so how collections nest is left out
(a collection within another comes with its members already in the outer one, or, when
empty, as an empty line).

`HeatSearch` starts a behaviour from one of `Searches`, of `Scenes`, or of `Grids`,
and states the properties. It assumes what the code provides: similarities are
numbers, tables are finite, coordinates are what the GeoJSON type says (anything else
decodes to nil), and a box has positive sides, as `routeBBox` pads it. `MCHeatSearch`
starts one from a search (queries with every combination of vector, name, tags, threshold and
limit, on tables of up to four of six rows), from a scene (two boxes, one a whole
number of cells wide and one not, with up to two features of every GeoJSON type, or
with a route of one to four stops), or from a bare grid. Searches and scenes are
evaluated in the initial state; bare grids run `Peaks`.

- `BestRowsWin`, `LonePairsExcluded`: no returned row is worse than one left out, given
  the caller's thresholds and limit, and what is excluded alone stays out.
- `RaysAgree`: a point is inside by its rays to the east just when it is by rays to
  the north, also level with a vertex, for rings that end where they start.
- `WindowComplete`: the window that `Compute` tries for a feature misses no cell.
- `CellsHoldPlaces`: the clamped projections put each place in a cell around it.
- `EncodingFaithful`: bytes keep the order of heats and flatten at most one hot cell in
  twenty.
- `SamplesSpaced`: samples of a route are less than the spacing plus one edge apart.
  `heatmap.go:476` says the polyline is "sampled every ~50 m": only vertices are.
- `ReadersAgree`: Valhalla divides the box by the number of cells where the server uses
  cells of fixed size, and gets the box by way of `std::to_string`, which rounds its
  bounds to six decimals of a degree. It reads the cell of a place half a digit away at
  most, on any side, and in a box that is no whole number of cells perhaps the next cell to
  the east or south; it leaves out only places that close to the border of the box.
- `CostFollowsScore`: where both read the same cells the factor on the cost is one minus the
  score, up to a byte's precision and the floor of 0.1.

A digit is `LonDigit` lattice units wide and `LatDigit` high. In the code it is about ten
centimetres where a cell has tens of metres; in the instance it is 2 by 3 units and a
cell 4, so that rounding shows: of the two boxes one is read shifted to the west and
north, the other to the east and south, and 3 is odd and 2 even, for a nearest number
with and without ties. The factor on the cost is taken from
the mean over the vertices of an edge, as the patch does (230-239), and not from the heat
at its midpoint, as `README.md:58` has it (see findings).

### HeatPeaks

One action per phase of `Peaks`: the test for too little or too even heat, the
threshold, the seed of a component, one ring of its flood, its split into buckets along
an axis, the sort, the suppression, the return. The closed form that gives
the principal axis of a component (an eigenvector of a 2x2 covariance) and the choice of a bucket's best cell are left open (`Axes`, any
cell of the bucket), so the properties hold whatever they yield. The peak's place is that
cell; the comment at `heatmap.go:205-206` speaks of a weighted centroid, but the code
snaps to a cell. The instance is every grid of two rows of four cells with three
heats and of one row of eight cells, enough for components that touch at corners,
for several buckets in one component, and for candidates that suppress each other
in a chain.

- `CompsAreComponents`: the flood finds the 8-connected components, each whole.
- `HeatCountedOnce`: every hot cell is in the bucket of exactly one candidate, the cell
  at the far end of the axis included.
- `PeaksApart`, `HottestFirst`: no two peaks are too close; peaks come hottest first, and
  what was passed over is too close to a peak no colder than it. `Plan` searches over
  prefixes of the peaks, and relies on both.

### RouteService, RouteLinks and DebugPage

A route is named by the call it was planned for. `call` follows a tool call through
planning, saving and answering; `Save` models the three outcomes of `SET`: done and
confirmed, done but reported as failed, not done. Redis restarts with any subset of
its entries (it has no volume), the server crashes and its callers see an error.
Time is a counter; an entry is gone once its ttl has passed, a ttl of 0 keeps it,
and an unparsable `ROUTE_TTL` counts as an hour. `preview`, `gpx` and `geojson` are made and
cached in the same way, with the same max-age, so the instance has one of them next to
the debug page, which is sent with `no-store`. `issued` is history.

`DebugPage` adds the page: a run of `planRoute` per call, `layers` on the map,
`routeUUID` behind the buttons, and the disabled button. An answer may be lost on its
way, and the proxy in front of the page ends a call that is silent for 300 s
(`debug/nginx.conf:12`) while the server goes on with it. Runs overlap because Ctrl+Enter
does not look at the button. When they do, the last answer wins; Reset clears the
layers but leaves `routeUUID`, so the buttons still open the last route.

- `MapMatchesButtons`: the route on the map is the one the buttons export.
- `NeverStuck`, `RunsEnd`: a disabled button has a run that will enable it, and every
  run ends.
- `StalenessBounded`: no page shows a route longer than its ttl and one max-age.
- `ImplementsLinks`: the service implements `RouteLinks`: a published link stands for
  one route, and what has faded is never shown again.

Two calls, two ids, one fault, a ttl of two ticks or none, a max-age of one and four
ticks: enough for two overlapping runs, for a copy that outlives its entry, and
for a Redis that forgets one of two routes. Fairness: the browser handles what it is
sent, and it is sent something in the end, by the server or, after 300 s, by the
proxy. Nothing is assumed of Valhalla, Ollama, PostGIS and Redis, whose clients have no
timeout (`valhalla.go:53`): a client that calls the server without that proxy may wait for
ever. Safety does not depend on any of it.

### TilePipeline and TileFeed

A version is the number of refreshes of the PBF. The working PBF, the two
sentinels and `tiles.tar` are state that survives crashes; each process has a
program counter that crashes reset to "down". Several runs of `update.sh` may
overlap, as cron takes no lock. With several regions the working PBF is rewritten
in place (`torn`), and a build that meets it half written fails and the container
restarts. Two runs that rewrite it at once ("crossed") may leave it whole or garbled, and it
stays so until the next rewrite. A version that is read is that of the oldest data read.
`trigLost` and `reloadLost` are history: a process died holding the trigger.

- `TilesFollowPbf`: tiles older than the PBF have a rebuild ahead of them, unless
  a process died with it. This is why `pbf_updated` is removed before the build.
- `ServiceFollowsTiles`: the same for the service and `reload`.
- `ServedNeverOlder`: no start of the service, whatever its cause, goes back.
- `ImplementsFeed`: the pipeline refines `TileFeed`, liveness included, with
  `latest <- pbf`, `served <- loaded`, `up <- up`, and `stuck` as long as a process has
  died with a trigger or the PBF is half written or garbled: until the next refresh or restart
  puts that right, the feed need not catch up.

`tile_pipeline` has two updaters, one or several regions (`Layouts`), three versions and
one failure of each kind. `tile_pipeline_crash` shows, against the description of the
loop in `docker-compose.yml`, what `stuck` stands for: the builder removes its sentinel,
dies, and finds tiles when it comes back. The same property fails when it dies once the new
tiles are in place, before it touches `reload`; the invariants above excuse both deaths. Three versions are needed for a refresh during the
rebuild for an earlier one; two updaters for a sentinel touched twice and for a PBF
torn by one while another signals.

Fairness: a started `update.sh` goes on, and `watch.sh` and `serve.sh` poll for
ever and are restarted by Docker (`restart: unless-stopped`), so weak fairness of
their steps. The reload check of `serve.sh` has its own fairness because the
loop performs it on every turn, whatever the crash check does before it. cron
need not find new data, and failures need not happen. The system comes to rest
when no refresh is left (bound `MaxVersion`), so deadlock is not checked.

### FeatureImport

A run is one execution of `init.sh` or `update.sh`; `pc` says which command it is
at: `ready`, `osm2pgsql`, `imported` (the merge comes next), `snapped` and
`truncate` (inside `post-import.sql`'s transaction), `fetch`, `embed` (vectors are
being computed, the SELECT's transaction is open), `write` (chunks are being
committed). The database is `raw` (the raw tables) and `rows` (`feature`), with
its sequence `nextId`; `oldVecs` and `pending` are a run's own. An extract maps
objects to tags, and a vector is named by the tags it was computed from; that is
what the properties tell apart. Validity and area filters are part of what an
extract holds, and the raw tables are merged as one.

Readers and writers take no lock themselves but PostgreSQL does, and what it does
decides which interleavings exist: `TRUNCATE` waits for every transaction that has
read `feature` (`Reading`), newcomers wait behind it (`TruncateQueued`), and of two
readers that both want to truncate one is aborted (`DeadlockAbort`). A transaction
that already holds the table is not held up, so the first chunk of a run that has
read it overtakes a queued `TRUNCATE`.

- `VectorsMatch`: vectors are written by row id long after the rows were read and
  carried over by object and hash; they always fit the row's tags.
- `OneRowPerObject`: the join never doubles an object.
- `MissingVectorsCovered`: a row without a vector is some run's to write, or a run
  died with it (`owed`, a history variable) and the next embedding finds it.
- `RunsEnd`: no run waits for ever, whatever queues for the lock.
- `TableIsExtract`, `VectorsKeptAlone`: as long as no two runs have overlapped
  (`overlapped`, a history variable), `feature` is empty or one whole extract, even when
  a run died in the middle of osm2pgsql and `init.sh` only looks for a row; and no
  step loses the vector of an object whose tags stay the same.

`feature_import` lets three runs overlap, two of which may die; nothing overlaps
the first import, since cron's container waits for it, so the instance needs one
run for the first import and two that overlap. Two objects with one OSM id (a node
and a way), two tag sets and three extracts give a changed, a kept and a deleted
object; chunks of one row give a run two commits, and the second failure lets a retry
fail too. `feature_import_kept` shows that vectors are lost when an embedding and an
update overlap, against the comment of `post-import.sql`; they are computed again
by the embedding that follows.

Fairness: a script that was started goes on (its HTTP calls have a timeout of 120 s,
and PostgreSQL detects deadlocks). Starting and dying are not fair. The scripts end,
so deadlock is not checked. Left out: `download.sh`, two osm2pgsql at the same time
(the second waits in the model), and tables that vanish under a merge, which is a
failure the model has anyway.

## 3. Proofs

Every theorem holds for all values of the constants that meet the named assumption, where
the runs check one small instance. Nothing is assumed but those assumptions, which
TLC evaluates on its instances.

**ScenicPlanProofs**, from `PlanAssumption` (types of the constants and
`TourContract`), for all sets of requests, answers and heat profiles.
`PlanInvariant` is inductive. `UsedPeaksOnRoute` and `ToursFitBudget` need to know,
beyond the types, that before the search no peak is used and no matrix is known,
that during it the peaks in use are the `TourOrder` of some count tried before, and
which counts those are. `HeatGrows` follows from it with the monotone half of the
contract. A second invariant, `SearchEnd`, follows the end of the search: it goes on
only below the threshold, and once it has dealt with all peaks it uses their tour,
was refused it, or there is none. With it `SearchExhaustive` (the tour of all peaks is
the hottest, by the contract) and `ScenicEnoughIsFinal` are proved.

**HeatPeaksProofs**, from `PeaksAssumption` (grids are finite), for any grid of cells,
heats, axes and number of peaks. Between components what was visited is what was flooded (`FloodInv`);
within one, inner cells touch nothing outside and the cells and the queue are in one
piece (`CompInv`), which `ConnectedGrows` carries over a ring of the flood.
Corollaries: `PeaksTypeOK`, `PeaksComponents`, `PeaksKeepApart`, `PeaksHottestFirst`.
`PeaksHeatCountedOnce` adds that the candidates share out the components (`CandsInv`);
it rests on `BucketsPartition`, and that on the ends of an axis over a finite set
(`Ends`, from the well-foundedness of Nat) and the clamp of the last bucket
(`BucketRange`).

**PeakTourProofs**, for any number of peaks, any matrix of integers, any budget and
heats. `TravelTable` and `WalkTable` solve the two recursions over subsets: the table
holds, for each set and last peak, the least over the predecessors, and the walk back
follows the first that attains it. By induction over subsets, no tour of a set that ends
at a peak is quicker than its entry (`TravelLeast`, which takes a tour apart at its
end), and the walk is a tour of the set whose time is the entry (`WalkIsTour`). A tour
visits its peaks once, so its heat is the sum over its set (`TourHeatSum`). Together:
`TspOptimal`, and from it `Affordability`, `Optimality`, and `TspMeetsContract`, which
discharges the `TourContract` of `ScenicPlan`. The last one needs that a tour through the
first k peaks is one through the first n > k, and that it costs the same.

**HeatSearchProofs**, from `SearchAssumption`, `SceneAssumption`, `BareAssumption`,
`PeaksAssumption` and `HeatGridAssumption`, for any tables, queries, boxes, shapes,
routes, cell size, cutoff and spacing. Searches and scenes never change and carry what their
first state computed (`OriginKept`); the rest is about the operators.

- `BestRows`: a ranking never puts a worse row first (`RankedRanking`), and what is cut off
  its tail falls short of the first row (`CutTailCuts`). `ExclusionOfLonePairs` follows
  from the clauses.
- `GridCoversBox`, `CellsReadAlike`: division with remainder. `PackNear` says that packing
  moves a bound by half a digit at most, and `PartsAgree` compares dividing a packed side by
  the number of its cells with dividing the server's by their size. Besides the assumptions
  above it needs `CostingAssumption` (a digit is a positive number of units) and sides of
  more than a digit, which `routeBBox` gives every box.
- `WindowsSuffice`: a place nearer than r to a shape is inside of its box widened by r
  (`NearWithin`), and projection, truncation and clamping keep the order of places
  (`CellsInOrder`), so the cell of such a centre is in the window. For a segment the first
  half is about the foot of a perpendicular (`FootBound`); for the inside of a ring, that
  from outside of the box a ray meets no edge or one for every change of side, of which
  going around there is an even number (`InRingWithin`, `ChangesEven`).
- `RaysMeet`: an edge the place is not on is crossed by both rays or neither, unless just one
  of its ends is to the north-east (`RaysAtEdge`); going around, that changes an even
  number of times too, and so the two counts have one parity (`RaysAtRing`).
- `EncodingKeepsOrder`: the ceiling is the heat of a hot cell, with at most a twentieth of
  them above it (`CeilingBounds`, from a permutation sorted by heat), and scaling to a
  byte is monotonic (`ByteScale`).
- `SampleSpacing`: what has accumulated at a vertex is the walk since the last sample was
  due (`AccumulatedStep`), by induction along the route.
- `CostIsScore`: each byte is a heat's share of the ceiling, rounded down; the sums over the
  vertices of a route keep that (`SumBounded`), and `CostArithmetic` turns it into
  the bounds on the factor.

**SumTheorems** has what these two rest on. Library theorems of induction and recursion take
an operator as a parameter, which no installed prover instantiates, so it
states them for sets: a set that has what it inherits has every natural, or every subset
(`NatInductive`, `SubsetInductive`), and there is a function with any given
step over the subsets of a finite set (`SubsetRecursion`), which a CHOOSE defined by
that step therefore finds (`SumTable`). From there on come sums (`SumLast`,
`SumMonotonic`, `SumBounded`), minima and maxima.

**RouteServiceProofs**, from `ServiceAssumption`, for any calls, ids, ttl, max-age and
faults. Entries and cached copies are of the route their id was issued for and
expire in time (`EntriesIssued`, `CopiesIssued`), and calls hold ids issued for them
(`CallsIssued`). From it: `LinksOwnRoute`, `LinksGoStale`, and `ServiceImplementsLinks`,
the whole refinement, which is a safety property: every step is a step of `RouteLinks`
or a stutter. The last one needs that an id is never issued twice and that
what is shown, from cache or store, can only shrink.

For any number of overlapping runs of the debug page, `PageStepsService` shows that a
step of the page with its server is a step of the service or leaves it alone, so the
theorems above hold of the two together (`PageUsesService`); `RunsAnswered` and
`ButtonsPublished` complete the invariant behind `DebugPageTypeOK`, `ButtonsMatchMap` and
`ButtonNeverStuck`.

**TilePipelineProofs**, from `PipelineAssumption`, for any set of updaters, any
number of versions and failures. The invariant adds to the types: `Ordered`
(loaded <= tar <= buildFrom <= pbf: versions flow one way), and `Phases` (the
relation of the program counters to `trig` and to whether tiles exist), without
which a build that no sentinel started could replace tiles and not be followed
by a reload. Corollaries: `PipelineTypeOK`, `PipelineTilesFollowPbf`,
`PipelineServiceFollowsTiles`, `PipelineNeverOlder`; `PipelineRefinesFeed` is the
safety half of `ImplementsFeed`, step by step.

**FeatureImportProofs**, from `ImportAssumption` (finitely many objects; extracts are
functions from objects to tags; NULL is neither a tag set nor a row), for any number
of overlapping runs and failures. Beside the types the invariant has `IdsUnique` (ids
come from a sequence and are never used twice), `PendingFresh` (an id a run has read
names a row with the tags it read, or no row: without it a late chunk could hit a new
row) and `OldVecsOK` (a snapshot has one vector per object, of its own tags: without it
the join could double a row). `JoinedTypes`, `JoinedOnce` and `JoinedFinite` say what the
join returns, `WrittenRow` what a chunk changes. Corollaries: `ImportTypeOK`,
`ImportVectorsMatch`, `ImportOneRowPerObject`, `ImportMissingVectorsCovered`. For runs
that have not overlapped, `AloneInv` (one run at a time, merging a whole extract) and
`SnapshotCurrent` (no row gets a vector between a snapshot and its merge) give
`ImportTableIsExtract` and `ImportVectorsKeptAlone`.

Every invariant that a run checks is proved. Only model-checked: liveness (both `RunsEnd`,
and the liveness half of `ImplementsFeed`), because fairness and ENABLED are outside the
prover. The violations of section 4 are TLC's.

## 4. Findings

1. `tspPeakOrder` does not return the minimum-time order its comment promises
   (`peak_tour_order`).
2. Intermediate points, "forced waypoints the route must pass through", are dropped
   as soon as peaks are used (`scenic_plan_waypoints`).
3. `max_detour_ratio` does not bound the scenic route (`scenic_plan_detour`).
4. A builder that dies between removing `pbf_updated` and finishing the tiles loses
   the refresh until the next one (`tile_pipeline_crash`); one that dies between moving
   `tiles.tar` and touching `reload` leaves the service on the old tiles as long.
5. `post-import.sql` loses vectors of unchanged objects that an overlapping run
   commits between its snapshot and its `TRUNCATE` (`feature_import_kept`).
6. Two excluded tag pairs only exclude rows that have both (`heat_search_exclude`). The
   tool's own description, "to exclude (AND semantics)" (`scenic_route.go:36`), can be
   read either way; the comment on the parameter (`geodata.go:41-43`) cannot.

Met on the way, without a run: `README.md:58` says that Valhalla "looks up the heatmap value
at the edge midpoint", and the patch averages it over all vertices of the edge
(`scenic_pedestrian.patch:230-239`), so that `CostFollowsScore`, which holds of the patch, would
not hold of the README's costing; `README.md:68` and `:74` give the threshold of the heat score
as 0.20 and the code uses 0.40 (`scenic.go:76`), as does `README.md:157` (the model's
threshold is a parameter); `step_penalty` is documented to default to 30
(`scenic_route.go:54`) and the code uses 10 (`scenic.go:243`); the default threshold of
0.25 for a search by name never applies, because the index operator `<%` already
requires 0.6; `limit` above 5000 is treated as 1000.

## 5. Not modelled

- **The composition of tiles and features.** `update.sh` touches `pbf_updated` before it
  imports, so when the import fails tiles and features come from different refreshes.
  The two modules share `update.sh`, but their product is beyond what TLC can
  enumerate with two overlapping runs in each; the hazard is listed without a property.
- **The download** (`download.sh`): what curl leaves behind when it is cut short is a
  file that nothing in the code tells from a complete one. And two osm2pgsql at once.
- **The Valhalla client's** request bodies and decoding: they keep no state. What a failed or
  strange answer does to a plan is in `ScenicPlan`.
- **The embedding client**: one HTTP call and arithmetic on real vectors.
- **The tag filter** (`scenic.lua`): a stateless table lookup inside osm2pgsql; an extract of
  `FeatureImport` is what it lets through.
- **Formats and pages**: output of a finished result. The debug page's point list, form
  and drawing.
- **The dictionary and its builder**: a generator run by hand, and a table compiled in.
- **Valhalla's patches** beside the cost of an edge and the bounds it reads by: the parsing
  of the other options, and constants.
- **What overlapping imports leave in `feature` for a while**: the merge of one may read raw
  tables that the other is filling. `FeatureImport` lets it, but nothing in the repository
  says what must come of it, so `TableIsExtract` only speaks of runs that did not overlap.
- Rounding of floats: all quantities are integers, chosen so that comparisons are
  exact; `PeakTour`, `HeatGrid` and `HeatPeaks` would not see a rounding error.
