-------------------------- MODULE TilePipelineProofs --------------------------
(***************************************************************************)
(* Proofs about TilePipeline for any number of overlapping updates, any    *)
(* number of refreshes and any number of failures.                         *)
(***************************************************************************)
EXTENDS TilePipeline, TLAPS

(* Versions only flow forward along the pipeline.                          *)
Ordered == 0 < pbf /\ loaded <= tar /\ tar <= buildFrom /\ buildFrom <= pbf

(* A build that no sentinel started is the first one; the service runs     *)
(* only once there are tiles.                                              *)
Phases ==
  /\ trig <=> bpc = "signal" \/ (bpc \in {"read", "pack"} /\ tar # 0)
  /\ bpc \in {"watch", "signal"} => tar # 0
  /\ bpc = "pack" => buildFrom # 0
  /\ spc \in {"start", "loop", "stop"} => tar # 0
  /\ up => spc \in {"loop", "stop"}

IInv == TypeOK /\ Ordered /\ Phases /\ TilesFollowPbf /\ ServiceFollowsTiles

USE DEF updateVars, buildVars, serveVars, historyVars

LEMMA InitIInv == Init => IInv
<1>. SUFFICES ASSUME Init PROVE IInv
  OBVIOUS
<1>1. TypeOK
  <2>1. fails \in [Failing -> Nat] /\ upc \in [Updaters -> {"idle", "merging", "crossed", "signal"}]
    BY DEF Init
  <2>2. pbf \in Nat /\ buildFrom \in Nat /\ tar \in Nat /\ loaded \in Nat
    BY DEF Init
  <2>3. /\ torn \in BOOLEAN /\ pbfUpdated \in BOOLEAN /\ trig \in BOOLEAN /\ reload \in BOOLEAN
        /\ up \in BOOLEAN /\ trigLost \in BOOLEAN /\ reloadLost \in BOOLEAN
    BY Zenon DEF Init
  <2>. QED
    BY <2>1, <2>2, <2>3 DEF Init, TypeOK
<1>2. Ordered
  BY DEF Init, Ordered
<1>3. Phases
  BY DEF Init, Phases
<1>4. TilesFollowPbf /\ ServiceFollowsTiles
  BY DEF Init, TilesFollowPbf, ServiceFollowsTiles
<1>. QED
  BY <1>1, <1>2, <1>3, <1>4 DEF IInv

LEMMA FailsType ==
  ASSUME fails \in [Failing -> Nat], NEW f \in Failing, MayFail(f)
  PROVE  fails' \in [Failing -> Nat]
BY DEF MayFail

LEMMA TypeStep ==
  ASSUME TypeOK, [Next]_vars
  PROVE  TypeOK'
<1>. USE DEF TypeOK
<1>0. {"update", "builder", "serve", "service"} \subseteq Failing
  BY DEF Failing
<1>1. ASSUME NEW u \in Updaters, Update(u)
      PROVE  TypeOK'
  <2>1. CASE Patch(u)
    <3>1. CASE multiRegion
      BY <2>1, <3>1 DEF Patch
    <3>2. CASE ~multiRegion
      BY <2>1, <3>2 DEF Patch
    <3>. QED
      BY <3>1, <3>2
  <2>2. CASE Merged(u)
    <3>1. torn' \in BOOLEAN
      BY <2>2 DEF Merged
    <3>. QED
      BY <2>2, <3>1 DEF Merged
  <2>3. CASE Signal(u)
    BY <2>3 DEF Signal
  <2>4. CASE UpdateFail(u)
    <3>1. fails' \in [Failing -> Nat]
      BY <1>0, <2>4, FailsType DEF UpdateFail
    <3>2. trigLost' \in BOOLEAN
      BY <2>4, Zenon DEF UpdateFail
    <3>. QED
      BY <2>4, <3>1, <3>2 DEF UpdateFail
  <2>. QED
    BY <1>1, <2>1, <2>2, <2>3, <2>4 DEF Update
<1>2. CASE Build
  <2>1. CASE BuilderBoot \/ Notice \/ Read \/ Pack \/ SignalReload
    <3>1. CASE BuilderBoot
      BY <3>1 DEF BuilderBoot
    <3>2. CASE Notice
      BY <3>2 DEF Notice
    <3>3. CASE Read
      BY <3>3 DEF Read
    <3>4. CASE Pack
      BY <3>4 DEF Pack
    <3>5. CASE SignalReload
      BY <3>5 DEF SignalReload
    <3>. QED
      BY <2>1, <3>1, <3>2, <3>3, <3>4, <3>5
  <2>2. CASE ReadTorn \/ BuilderFail
    <3>1. fails' \in [Failing -> Nat]
      BY <1>0, <2>2, FailsType DEF ReadTorn, BuilderFail
    <3>2. BuilderLeaves
      BY <2>2 DEF ReadTorn, BuilderFail
    <3>3. trigLost' \in BOOLEAN /\ reloadLost' \in BOOLEAN
      BY <3>2, Zenon DEF BuilderLeaves
    <3>. QED
      BY <3>1, <3>2, <3>3 DEF BuilderLeaves
  <2>. QED
    BY <1>2, <2>1, <2>2 DEF Build
<1>3. CASE Serve
  <2>1. CASE ServeBoot \/ TarFound \/ StartService \/ NoticeReload \/ StopService
    <3>1. CASE ServeBoot \/ TarFound
      BY <3>1 DEF ServeBoot, TarFound
    <3>2. CASE StartService
      BY <3>2 DEF StartService
    <3>3. CASE NoticeReload
      BY <3>3 DEF NoticeReload
    <3>4. CASE StopService
      BY <3>4 DEF StopService
    <3>. QED
      BY <2>1, <3>1, <3>2, <3>3, <3>4
  <2>2. CASE ServiceCrash \/ ServeFail
    <3>1. fails' \in [Failing -> Nat]
      BY <1>0, <2>2, FailsType DEF ServiceCrash, ServeFail
    <3>2. CASE ServiceCrash
      BY <3>1, <3>2 DEF ServiceCrash
    <3>3. CASE ServeFail
      BY <3>1, <3>3 DEF ServeFail
    <3>. QED
      BY <2>2, <3>2, <3>3
  <2>. QED
    BY <1>3, <2>1, <2>2 DEF Serve
<1>4. CASE UNCHANGED vars
  BY <1>4 DEF vars
<1>. QED
  BY <1>1, <1>2, <1>3, <1>4 DEF Next

LEMMA InvStep ==
  ASSUME IInv, [Next]_vars
  PROVE  IInv'
<1>. USE DEF IInv, Ordered, Phases, TilesFollowPbf, ServiceFollowsTiles
<1>0. TypeOK /\ TypeOK'
  BY TypeStep
<1>1. ASSUME NEW u \in Updaters, Update(u)
      PROVE  IInv'
  <2>1. CASE Patch(u)
    <3>1. CASE multiRegion
      <4>1. ASSUME NEW v \in Updaters, upc[v] = "signal"
            PROVE  upc'[v] = "signal"
        BY <1>0, <2>1, <3>1, <4>1 DEF Patch, TypeOK, Rewriting
      <4>. QED
        BY <1>0, <2>1, <3>1, <4>1 DEF Patch, buildVars, serveVars, historyVars
    <3>2. CASE ~multiRegion
      BY <1>0, <2>1, <3>2 DEF Patch, TypeOK
    <3>. QED
      BY <3>1, <3>2
  <2>2. CASE Merged(u)
    BY <1>0, <2>2 DEF Merged, TypeOK
  <2>3. CASE Signal(u)
    BY <1>0, <2>3 DEF Signal, TypeOK
  <2>4. CASE UpdateFail(u)
    BY <1>0, <2>4 DEF UpdateFail, TypeOK
  <2>. QED
    BY <1>1, <2>1, <2>2, <2>3, <2>4 DEF Update
<1>2. CASE Build
  <2>1. CASE BuilderBoot
    BY <1>0, <2>1 DEF BuilderBoot, TypeOK
  <2>2. CASE Notice
    BY <1>0, <2>2 DEF Notice, TypeOK
  <2>3. CASE Read
    BY <1>0, <2>3 DEF Read, TypeOK
  <2>4. CASE BuilderLeaves
    BY <1>0, <2>4 DEF BuilderLeaves, TypeOK
  <2>5. CASE Pack
    BY <1>0, <2>5 DEF Pack, TypeOK
  <2>6. CASE SignalReload
    BY <1>0, <2>6 DEF SignalReload, TypeOK
  <2>. QED
    BY <1>2, <2>1, <2>2, <2>3, <2>4, <2>5, <2>6 DEF Build, ReadTorn, BuilderFail
<1>3. CASE Serve
  BY <1>0, <1>3 DEF Serve, ServeBoot, TarFound, StartService, NoticeReload, StopService, ServiceCrash,
              ServeFail, TypeOK
<1>4. CASE UNCHANGED vars
  BY <1>0, <1>4 DEF vars
<1>. QED
  BY <1>1, <1>2, <1>3, <1>4 DEF Next

THEOREM PipelineInvariant == Spec => []IInv
BY InitIInv, InvStep, PTL DEF Spec, SafeSpec

(* The variables stay in their types.                                      *)
THEOREM PipelineTypeOK == Spec => []TypeOK
<1>1. IInv => TypeOK
  BY DEF IInv
<1>. QED
  BY <1>1, PipelineInvariant, PTL

(* No refresh of the PBF goes unnoticed unless a process dies with it.     *)
THEOREM PipelineTilesFollowPbf == Spec => []TilesFollowPbf
<1>1. IInv => TilesFollowPbf
  BY DEF IInv
<1>. QED
  BY <1>1, PipelineInvariant, PTL

(* No tiles.tar goes unserved unless the builder dies before its touch.    *)
THEOREM PipelineServiceFollowsTiles == Spec => []ServiceFollowsTiles
<1>1. IInv => ServiceFollowsTiles
  BY DEF IInv
<1>. QED
  BY <1>1, PipelineInvariant, PTL

(* The service never goes back to older tiles.                             *)
THEOREM PipelineNeverOlder == Spec => ServedNeverOlder
<1>1. IInv /\ [Next]_vars => [loaded' >= loaded]_vars
  <2>. SUFFICES ASSUME IInv, Next PROVE loaded' >= loaded
    OBVIOUS
  <2>1. loaded \in Nat /\ tar \in Nat /\ loaded <= tar
    BY DEF IInv, TypeOK, Ordered
  <2>2. loaded' = loaded \/ loaded' = tar
    BY DEF Next, Update, Patch, Merged, Signal, UpdateFail,
           Build, BuilderBoot, Notice, Read, ReadTorn, Pack, SignalReload, BuilderFail, BuilderLeaves,
           Serve, ServeBoot, TarFound, StartService, NoticeReload, StopService, ServiceCrash, ServeFail
  <2>. QED
    BY <2>1, <2>2
<1>. QED
  BY <1>1, PipelineInvariant, PTL DEF Spec, SafeSpec, ServedNeverOlder

(* Every step of the pipeline is a step TileFeed allows, or invisible to   *)
(* it: the safety half of ImplementsFeed.                                  *)
THEOREM PipelineRefinesFeed == Spec => Feed!SafeSpec
<1>1. Init => Feed!Init
  <2>. SUFFICES ASSUME Init PROVE Feed!Init
    OBVIOUS
  <2>1. (trigLost \/ reloadLost \/ torn) = FALSE
    BY Zenon DEF Init
  <2>. QED
    BY <2>1 DEF Init, Feed!Init
<1>2. IInv /\ [Next]_vars => [Feed!Next]_Feed!vars
  <2>. SUFFICES ASSUME IInv, [Next]_vars PROVE [Feed!Next]_Feed!vars
    OBVIOUS
  <2>. DEFINE stuck == trigLost \/ reloadLost \/ torn
  <2>0. stuck' \in BOOLEAN
    BY Zenon
  <2>. HIDE DEF stuck
  <2>. SUFFICES \/ Feed!Refresh
                \/ Feed!Load
                \/ Feed!Outage /\ stuck' = stuck
                \/ UNCHANGED <<pbf, loaded, up>>
    BY <2>0 DEF Feed!Next, Feed!Outage, Feed!Trouble, Feed!vars, stuck
  <2>1. pbf \in Nat /\ loaded \in Nat /\ tar \in Nat /\ loaded <= tar /\ tar <= pbf
    BY DEF IInv, TypeOK, Ordered
  <2>2. ASSUME NEW u \in Updaters, Update(u)
        PROVE  Feed!Refresh \/ UNCHANGED <<pbf, loaded, up>>
    <3>1. /\ pbf' = pbf + 1 \/ pbf' = pbf
          /\ UNCHANGED <<loaded, up>>
      BY <2>2 DEF Update, Patch, Merged, Signal, UpdateFail
    <3>. QED
      BY <2>0, <3>1 DEF Feed!Refresh, stuck
  <2>3. CASE Build
    BY <2>3 DEF Build, BuilderBoot, Notice, Read, ReadTorn, Pack, SignalReload, BuilderFail, BuilderLeaves
  <2>4. CASE StartService
    <3>1. tar # 0
      BY <2>4 DEF IInv, Phases, StartService
    <3>2. loaded' = tar /\ up' = TRUE /\ pbf' = pbf
      BY <2>4 DEF StartService
    <3>3. loaded' \in loaded..pbf /\ 0 < loaded'
      BY <2>1, <3>1, <3>2
    <3>. QED
      BY <2>0, <3>2, <3>3 DEF Feed!Load, stuck
  <2>5. CASE Serve /\ ~StartService
    <3>1. /\ UNCHANGED <<pbf, loaded, historyVars, torn>>
          /\ up' = FALSE \/ up' = up
      BY <2>5 DEF Serve, ServeBoot, TarFound, NoticeReload, StopService, ServiceCrash, ServeFail
    <3>2. stuck' = stuck
      BY <3>1 DEF stuck
    <3>. QED
      BY <3>1, <3>2 DEF Feed!Outage, stuck
  <2>6. CASE UNCHANGED vars
    BY <2>6 DEF vars
  <2>. QED
    BY <2>2, <2>3, <2>4, <2>5, <2>6 DEF Next
<1>. QED
  BY <1>1, <1>2, PipelineInvariant, PTL DEF Spec, SafeSpec, Feed!SafeSpec
=============================================================================
