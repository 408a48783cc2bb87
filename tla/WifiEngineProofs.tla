-------------------------- MODULE WifiEngineProofs --------------------------
(***************************************************************************)
(* What WifiEngine.tla promises for any number of access points, limits    *)
(* and interfaces.  NoStrayNetif needs that an engine that was never up,   *)
(* or was taken down again, has no handles left for wifi_engine_init to    *)
(* overwrite; ScanMemoryBalanced needs to know at which calls of a scan    *)
(* which buffer is allocated, and that a scan that allocates found         *)
(* something, since an empty result is never freed.                        *)
(***************************************************************************)
EXTENDS WifiEngine, TLAPS

USE WifiConstants

(* An engine that is not up has no handles, unless an init failed half-way.   *)
EngineDown == ~initialized /\ ~retried => sta = 0 /\ ap = 0

Fetched == {"fetch", "convert"}
ScanState ==
  /\ heap = (IF pc \in Fetched THEN {"records"} ELSE {})
              \cup (IF results = 0 THEN {} ELSE {"results"})
  /\ pc # "idle" => results = 0 /\ limit > 0
  /\ pc \in {"records", "fetch"} => list > 0
  /\ pc = "convert" => records > 0
  /\ pc # "convert" => records = 0
  /\ pc \in {"band", "start", "scan", "count", "records", "fetch", "convert"} => initialized
  /\ pc \in {"scan", "count", "records", "fetch", "convert"} => started

IInv == TypeOK /\ HandlesLive /\ FlagsMatchDriver /\ NoStrayNetif /\ EngineDown /\ ScanState

LEMMA Initially == Init => IInv
<1> SUFFICES ASSUME Init
             PROVE  IInv
  OBVIOUS
<1>1. TypeOK
  <2>1. netifs \subseteq 1 .. created /\ heap \subseteq {"records", "results"}
    BY DEF Init
  <2>2. created \in 0 .. MaxNetifs /\ 0 \in 0 .. InReach
    BY DEF Init
  <2>3. /\ initialized \in BOOLEAN /\ started \in BOOLEAN /\ retried \in BOOLEAN
    BY DEF Init
  <2>4. sta \in 0 .. created /\ ap \in 0 .. created
    BY DEF Init
  <2>5. list \in 0 .. InReach /\ records \in 0 .. InReach /\ results \in 0 .. InReach
    BY <2>2 DEF Init
  <2> QED
    BY <2>1, <2>2, <2>3, <2>4, <2>5 DEF Init, TypeOK
<1>2. HandlesLive /\ FlagsMatchDriver /\ NoStrayNetif /\ EngineDown
  BY DEF Init, HandlesLive, FlagsMatchDriver, NoStrayNetif, EngineDown
<1>3. ScanState
  BY DEF Init, ScanState, Fetched
<1> QED
  BY <1>1, <1>2, <1>3 DEF IInv

(* What the engine's part of the invariant is, so that its calls can be     *)
(* treated once for EngineCall and for the scan that makes them.            *)
EngineInv ==
  /\ initialized \in BOOLEAN /\ started \in BOOLEAN /\ retried \in BOOLEAN
  /\ sta \in 0 .. created /\ ap \in 0 .. created
  /\ netifs \subseteq 1 .. created /\ created \in 0 .. MaxNetifs
  /\ driver \in {"off", "ready", "on"}
  /\ list \in 0 .. InReach
  /\ HandlesLive /\ FlagsMatchDriver /\ NoStrayNetif /\ EngineDown

(* wifi_engine_init that goes through overwrites no handle that is in use   *)
(* unless an earlier one failed half-way.                                   *)
LEMMA InitOkKeeps ==
  ASSUME EngineInv, InitOk
  PROVE  EngineInv'
<1>1. /\ created \in Nat /\ created + 2 <= MaxNetifs
      /\ sta' = created + 1 /\ ap' = created + 2 /\ created' = created + 2
      /\ netifs' = netifs \cup {created + 1, created + 2}
  BY DEF InitOk, Created, EngineInv
<1>2. /\ initialized' = TRUE /\ started' = FALSE /\ list' = list /\ retried' = retried
      /\ ~initialized /\ DriverReady
  BY DEF InitOk
<1>3. driver' \in {"off", "ready", "on"} /\ driver' # "off" /\ driver' # "on"
  BY <1>2 DEF DriverReady, EngineInv, FlagsMatchDriver
<1>4. netifs' \subseteq 1 .. created' /\ created' \in 0 .. MaxNetifs
  BY <1>1 DEF EngineInv
<1>5. sta' \in 0 .. created' /\ ap' \in 0 .. created'
  BY <1>1
<1>6. HandlesLive'
  BY <1>1, <1>2 DEF HandlesLive
<1>7. FlagsMatchDriver'
  BY <1>2, <1>3 DEF FlagsMatchDriver
<1>8. NoStrayNetif'
  <2> SUFFICES ASSUME ~retried'
               PROVE  netifs' = {sta', ap'} \ {0}
    BY DEF NoStrayNetif
  <2>1. netifs = {}
    BY <1>2 DEF EngineInv, NoStrayNetif, EngineDown
  <2> QED
    BY <2>1, <1>1
<1> QED
  BY <1>1, <1>2, <1>3, <1>4, <1>5, <1>6, <1>7, <1>8 DEF EngineInv, EngineDown

(* One that fails leaves handles that name interfaces, or NULL.             *)
LEMMA InitFailsKeeps ==
  ASSUME EngineInv, InitFails
  PROVE  EngineInv'
<1>1. ~initialized /\ UNCHANGED <<initialized, started, list>>
  BY DEF InitFails
<1>2. ~started /\ driver # "on"
  BY <1>1 DEF EngineInv, FlagsMatchDriver
<1>3. CASE UNCHANGED <<sta, ap, netifs, created, driver, retried>>
  BY <1>1, <1>3 DEF EngineInv, HandlesLive, FlagsMatchDriver, NoStrayNetif, EngineDown
<1>4. ASSUME NEW s \in BOOLEAN, NEW a \in BOOLEAN, Created(s, a),
             retried' = TRUE, UNCHANGED driver \/ DriverReady
      PROVE  EngineInv'
  <2>1. /\ created \in Nat /\ created + 2 <= MaxNetifs /\ created' = created + 2
        /\ sta' = (IF s THEN created + 1 ELSE 0) /\ ap' = (IF a THEN created + 2 ELSE 0)
        /\ netifs' = netifs \cup ({sta', ap'} \ {0})
    BY <1>4 DEF Created, EngineInv
  <2>2. /\ sta' \in 0 .. created' /\ ap' \in 0 .. created' /\ created' \in 0 .. MaxNetifs
        /\ netifs' \subseteq 1 .. created'
    BY <2>1 DEF EngineInv
  <2>3. driver' \in {"off", "ready"}
    BY <1>4, <1>2 DEF DriverReady, EngineInv
  <2>4. HandlesLive'
    BY <2>1, <1>1 DEF HandlesLive
  <2> QED
    BY <1>1, <1>2, <1>4, <2>2, <2>3, <2>4 DEF EngineInv, FlagsMatchDriver, NoStrayNetif, EngineDown
<1> QED
  BY <1>3, <1>4, <1>1 DEF InitFails

LEMMA StartKeeps ==
  ASSUME EngineInv, StartOk
  PROVE  EngineInv'
  BY DEF StartOk, EngineInv, HandlesLive, FlagsMatchDriver, NoStrayNetif, EngineDown

(* wifi_engine_stop and _deinit, those that fail among them.                *)
LEMMA StopKeeps ==
  ASSUME EngineInv, StopOk \/ StopFails \/ DeinitOk \/ DeinitFails
  PROVE  EngineInv'
<1>1. CASE StopOk
  BY <1>1 DEF StopOk, EngineInv, HandlesLive, FlagsMatchDriver, NoStrayNetif, EngineDown
<1>2. CASE StopFails
  BY <1>2 DEF StopFails, engine, platform, EngineInv, HandlesLive, FlagsMatchDriver,
              NoStrayNetif, EngineDown
<1>3. CASE DeinitOk
  <2>1. netifs' = netifs \ {sta, ap} /\ sta' = 0 /\ ap' = 0
    BY <1>3 DEF DeinitOk, Destroyed
  <2>2. /\ initialized' = FALSE /\ started' = FALSE /\ driver' = "off" /\ list' = 0
        /\ created' = created /\ retried' = retried
    BY <1>3 DEF DeinitOk
  <2>3. NoStrayNetif'
    <3>1. ~retried => netifs \ {sta, ap} = {}
      BY DEF EngineInv, NoStrayNetif
    <3> QED
      BY <3>1, <2>1, <2>2 DEF NoStrayNetif
  <2>4. created \in 0 .. MaxNetifs /\ netifs' \subseteq 1 .. created /\ 0 \in 0 .. InReach
    BY <2>1 DEF EngineInv
  <2>5. HandlesLive'
    BY <2>1, <2>2 DEF HandlesLive
  <2>6. /\ sta' \in 0 .. created' /\ ap' \in 0 .. created' /\ created' \in 0 .. MaxNetifs
        /\ netifs' \subseteq 1 .. created' /\ list' \in 0 .. InReach
    BY <2>1, <2>2, <2>4
  <2>7. /\ initialized' \in BOOLEAN /\ started' \in BOOLEAN /\ retried' \in BOOLEAN
        /\ FlagsMatchDriver' /\ EngineDown' /\ driver' \in {"off", "ready", "on"}
    BY <2>1, <2>2 DEF EngineInv, FlagsMatchDriver, EngineDown
  <2> QED
    BY <2>2, <2>3, <2>5, <2>6, <2>7 DEF EngineInv
<1>4. CASE DeinitFails
  BY <1>4 DEF DeinitFails, EngineInv, HandlesLive, FlagsMatchDriver, NoStrayNetif, EngineDown
<1> QED
  BY <1>1, <1>2, <1>3, <1>4

(* The types of the scan's own variables.                                   *)
ScanTypes ==
  /\ limit \in Nat
  /\ pc \in {"idle", "init", "band", "start", "scan", "count", "records", "fetch", "convert"}
  /\ records \in 0 .. InReach /\ results \in 0 .. InReach
  /\ heap \subseteq {"records", "results"}

LEMMA Parts == IInv <=> EngineInv /\ ScanTypes /\ ScanState
<1>1. IInv => EngineInv
  BY DEF IInv, EngineInv, TypeOK
<1>2. IInv => ScanTypes /\ ScanState
  BY DEF IInv, ScanTypes, TypeOK
<1>3. EngineInv /\ ScanTypes /\ ScanState => TypeOK
  BY DEF EngineInv, ScanTypes, TypeOK
<1>4. EngineInv => HandlesLive /\ FlagsMatchDriver /\ NoStrayNetif /\ EngineDown
  BY DEF EngineInv
<1> QED
  BY <1>1, <1>2, <1>3, <1>4 DEF IInv

LEMMA Inductive == IInv /\ [Next]_vars => IInv'
<1> SUFFICES ASSUME EngineInv, ScanTypes, ScanState, [Next]_vars
             PROVE  EngineInv' /\ ScanTypes' /\ ScanState'
  BY Parts, PTL
<1> USE DEF ScanTypes, ScanState, Fetched
<1>1. CASE EngineCall
  <2>1. pc = "idle" /\ UNCHANGED <<pc, limit, records, heap, results>>
    BY <1>1 DEF EngineCall, scan
  <2>2. EngineInv'
    BY <1>1, InitOkKeeps, InitFailsKeeps, StartKeeps, StopKeeps DEF EngineCall
  <2> QED
    BY <2>1, <2>2
<1>2. ASSUME NEW m \in MaxResults, ScanBegins(m)
      PROVE  EngineInv' /\ ScanTypes' /\ ScanState'
  BY <1>2 DEF ScanBegins, engine, platform, EngineInv, HandlesLive, FlagsMatchDriver,
              NoStrayNetif, EngineDown
<1>3. CASE ScanInits
  <2>1. pc = "init" /\ UNCHANGED <<limit, records, heap, results>>
    BY <1>3 DEF ScanInits
  <2>2. CASE InitOk /\ pc' = "band"
    BY <2>1, <2>2, InitOkKeeps DEF InitOk
  <2>3. CASE InitFails /\ pc' = "idle"
    BY <2>1, <2>3, InitFailsKeeps
  <2>4. CASE initialized /\ pc' = "band" /\ UNCHANGED <<engine, platform, retried>>
    BY <2>1, <2>4 DEF engine, platform, EngineInv, HandlesLive, FlagsMatchDriver,
                      NoStrayNetif, EngineDown
  <2> QED
    BY <1>3, <2>2, <2>3, <2>4 DEF ScanInits
<1>4. CASE ScanSetsBand
  BY <1>4 DEF ScanSetsBand, engine, platform, EngineInv, HandlesLive, FlagsMatchDriver,
              NoStrayNetif, EngineDown
<1>5. CASE ScanStarts
  <2>1. pc = "start" /\ pc' = "scan" /\ UNCHANGED <<limit, records, heap, results>>
    BY <1>5 DEF ScanStarts
  <2>2. CASE StartOk
    BY <2>1, <2>2, StartKeeps DEF StartOk
  <2>3. CASE started /\ UNCHANGED <<engine, platform, retried>>
    BY <2>1, <2>3 DEF engine, platform, EngineInv, HandlesLive, FlagsMatchDriver,
                      NoStrayNetif, EngineDown
  <2> QED
    BY <1>5, <2>2, <2>3 DEF ScanStarts
<1>6. CASE ScanListens
  BY <1>6 DEF ScanListens, engine, EngineInv, HandlesLive, FlagsMatchDriver,
              NoStrayNetif, EngineDown
<1>7. CASE ScanCounts
  BY <1>7 DEF ScanCounts, engine, platform, EngineInv, HandlesLive, FlagsMatchDriver,
              NoStrayNetif, EngineDown
<1>8. CASE ScanAllocates
  BY <1>8 DEF ScanAllocates, engine, platform, EngineInv, HandlesLive, FlagsMatchDriver,
              NoStrayNetif, EngineDown
<1>9. CASE ScanFetches
  <2>1. Kept \in 0 .. InReach /\ Kept > 0
    BY <1>9 DEF ScanFetches, Kept, EngineInv
  <2> QED
    BY <1>9, <2>1 DEF ScanFetches, engine, EngineInv, HandlesLive, FlagsMatchDriver,
                      NoStrayNetif, EngineDown
<1>10. CASE ScanEnds
  BY <1>10 DEF ScanEnds, engine, platform, EngineInv, HandlesLive, FlagsMatchDriver,
               NoStrayNetif, EngineDown
<1>11. CASE ScanFails
  <2>1. /\ heap' = heap \ {"records"} /\ records' = 0 /\ pc' = "idle" /\ pc # "idle"
        /\ UNCHANGED <<limit, results>>
    BY <1>11 DEF ScanFails, Freed
  <2>2. EngineInv'
    BY <1>11 DEF ScanFails, engine, platform, EngineInv, HandlesLive, FlagsMatchDriver,
                 NoStrayNetif, EngineDown
  <2> QED
    BY <2>1, <2>2
<1>12. CASE Free
  BY <1>12 DEF Free, engine, platform, EngineInv, HandlesLive, FlagsMatchDriver,
               NoStrayNetif, EngineDown
<1>13. CASE UNCHANGED vars
  BY <1>13 DEF vars, engine, platform, scan, EngineInv, HandlesLive, FlagsMatchDriver,
               NoStrayNetif, EngineDown
<1> QED
  BY <1>1, <1>2, <1>3, <1>4, <1>5, <1>6, <1>7, <1>8, <1>9, <1>10, <1>11, <1>12, <1>13 DEF Next

(* The strengthened invariant holds throughout.                             *)
THEOREM Invariant == Spec => []IInv
  BY Initially, Inductive, PTL DEF Spec

(* Variables keep their types.                                              *)
THEOREM TypeCorrect == Spec => []TypeOK
<1>1. IInv => TypeOK
  BY DEF IInv
<1> QED
  BY <1>1, Invariant, PTL

(* A handle is NULL or names an interface that exists, whatever inits and   *)
(* deinits failed before, so no interface is destroyed twice.               *)
THEOREM HandlesStayLive == Spec => []HandlesLive
<1>1. IInv => HandlesLive
  BY DEF IInv
<1> QED
  BY <1>1, Invariant, PTL

(* The engine's flags say what the driver does.                             *)
THEOREM FlagsAgree == Spec => []FlagsMatchDriver
<1>1. IInv => FlagsMatchDriver
  BY DEF IInv
<1> QED
  BY <1>1, Invariant, PTL

(* Until an init failed half-way no interface is without a handle.          *)
THEOREM NoInterfaceStrays == Spec => []NoStrayNetif
<1>1. IInv => NoStrayNetif
  BY DEF IInv
<1> QED
  BY <1>1, Invariant, PTL

(* Whichever call a scan gives up at, only what the caller has to free is   *)
(* allocated afterwards.                                                    *)
THEOREM ScansLeakNothing == Spec => []ScanMemoryBalanced
<1>1. IInv => ScanMemoryBalanced
  BY DEF IInv, ScanState, ScanMemoryBalanced, Fetched
<1> QED
  BY <1>1, Invariant, PTL
=============================================================================
