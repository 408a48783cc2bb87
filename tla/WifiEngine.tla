----------------------------- MODULE WifiEngine -----------------------------
(***************************************************************************)
(* radio_wifi/src/wifi_engine.c and wifi_scanner.c: one task brings the    *)
(* Wi-Fi engine up and down and runs blocking scans, which bring it up     *)
(* themselves.  Each call of the ESP-IDF driver and each allocation may    *)
(* fail; a scan is modelled call by call, since it may end after any of    *)
(* them.  A network interface is the number it was created with, and its   *)
(* handle that number, or 0 for NULL.  Of what a scan finds only how many  *)
(* access points there are is kept.                                        *)
(***************************************************************************)
EXTENDS Naturals

CONSTANTS InReach,          \* how many access points there are
          MaxResults,       \* max_results arguments, 0 for the default
          DefaultResults,   \* WIFI_SCAN_DEFAULT_MAX_RESULTS
          MaxNetifs         \* bound of the model on the interfaces ever created

ASSUME WifiConstants ==
  /\ InReach \in Nat
  /\ MaxResults \subseteq Nat
  /\ DefaultResults \in Nat \ {0} /\ MaxNetifs \in Nat

VARIABLES
  initialized, started,   \* s_initialized, s_started
  sta, ap,                \* s_sta_netif, s_ap_netif
  netifs, created,        \* interfaces that exist; how many were created so far
  driver, list,           \* the driver: "off", "ready" or "on"; records it holds
  pc, limit, records,     \* where wifi_scan_ap is, cfg.max_results, length of records
  heap,                   \* buffers of a scan that are allocated
  results,                \* how many APs the caller of wifi_scan_ap was given, until it frees them
  retried                 \* history: an init failed after it created an interface

engine == <<initialized, started, sta, ap>>
platform == <<netifs, created, driver, list>>
scan == <<pc, limit, records, heap, results>>
vars == <<engine, platform, scan, retried>>

Init ==
  /\ initialized = FALSE /\ started = FALSE /\ sta = 0 /\ ap = 0
  /\ netifs = {} /\ created = 0 /\ driver = "off" /\ list = 0
  /\ pc = "idle" /\ limit = 0 /\ records = 0 /\ heap = {} /\ results = 0
  /\ retried = FALSE

----------------------------------------------------------------------------
\* wifi_engine_init, when it is not initialized yet

\* The handles are assigned whatever becomes of the rest, a NULL included.
Created(s, a) ==
  /\ created + 2 <= MaxNetifs
  /\ sta' = (IF s THEN created + 1 ELSE 0)
  /\ ap' = (IF a THEN created + 2 ELSE 0)
  /\ netifs' = netifs \cup ({sta', ap'} \ {0})
  /\ created' = created + 2

\* esp_wifi_init on a driver that is there already changes nothing.
DriverReady == driver' = IF driver = "off" THEN "ready" ELSE driver

InitOk ==
  /\ ~initialized
  /\ Created(TRUE, TRUE) /\ DriverReady
  /\ initialized' = TRUE /\ started' = FALSE
  /\ UNCHANGED <<list, retried>>

\* The stack, one of the interfaces, the driver, or its configuration fails.
InitFails ==
  /\ ~initialized
  /\ \/ UNCHANGED <<sta, ap, netifs, created, driver, retried>>
     \/ /\ \E s, a \in BOOLEAN : ~(s /\ a) /\ Created(s, a)
        /\ retried' = TRUE /\ UNCHANGED driver
     \/ /\ Created(TRUE, TRUE)
        /\ retried' = TRUE
        /\ UNCHANGED driver \/ DriverReady
  /\ UNCHANGED <<initialized, started, list>>

----------------------------------------------------------------------------
\* wifi_engine_start, _stop and _deinit.  ESP_ERR_WIFI_CONN is taken for a start;
\* ESP_ERR_WIFI_NOT_INIT and _NOT_STARTED for a stop.

StartOk ==
  /\ initialized /\ ~started
  /\ started' = TRUE /\ driver' = "on"
  /\ UNCHANGED <<initialized, sta, ap, netifs, created, list, retried>>

StopOk ==
  /\ initialized /\ started
  /\ started' = FALSE /\ driver' = "ready"
  /\ UNCHANGED <<initialized, sta, ap, netifs, created, list, retried>>

MutantStopClearsFirst ==
  /\ initialized /\ started /\ started' = FALSE
  /\ UNCHANGED <<initialized, sta, ap, platform, retried>>
StopFails == initialized /\ started /\ UNCHANGED <<engine, platform, retried>>

\* What wifi_engine_deinit does once esp_wifi_deinit went through.
MutantHandlesStay ==
  /\ netifs' = netifs \ {sta, ap} /\ UNCHANGED <<sta, ap>>
MutantOneDestroyed ==
  /\ netifs' = netifs \ {sta} /\ sta' = 0 /\ ap' = 0
Destroyed ==
  /\ netifs' = netifs \ {sta, ap}
  /\ sta' = 0 /\ ap' = 0

DeinitOk ==
  /\ initialized
  /\ Destroyed
  /\ initialized' = FALSE /\ started' = FALSE
  /\ driver' = "off" /\ list' = 0
  /\ UNCHANGED <<created, retried>>

\* The stop in it went through, esp_wifi_deinit did not; where the stop does not go
\* through either, wifi_engine_deinit ends as StopFails.
DeinitFails ==
  /\ initialized
  /\ started' = FALSE
  /\ driver' = IF started THEN "ready" ELSE driver
  /\ UNCHANGED <<initialized, sta, ap, netifs, created, list, retried>>

EngineCall ==
  /\ pc = "idle"
  /\ InitOk \/ InitFails \/ StartOk \/ StopOk \/ StopFails \/ DeinitOk \/ DeinitFails
  /\ UNCHANGED scan

----------------------------------------------------------------------------
\* wifi_scan_ap, one call of its own at a time

ScanBegins(m) ==
  /\ pc = "idle" /\ results = 0
  /\ limit' = IF m = 0 THEN DefaultResults ELSE m
  /\ pc' = "init"
  /\ UNCHANGED <<engine, platform, records, heap, results, retried>>

\* An early return with an error: *out_results is NULL, records is freed.
MutantLeaks == heap' = heap
Freed == heap' = heap \ {"records"}

ScanFails ==
  /\ pc \in {"band", "start", "scan", "count", "records", "fetch", "convert"}
  /\ pc = "start" => ~started
  /\ Freed /\ records' = 0
  /\ pc' = "idle"
  /\ UNCHANGED <<engine, platform, limit, results, retried>>

ScanInits ==
  /\ pc = "init"
  /\ \/ initialized /\ pc' = "band" /\ UNCHANGED <<engine, platform, retried>>
     \/ InitOk /\ pc' = "band"
     \/ InitFails /\ pc' = "idle"
  /\ UNCHANGED <<limit, records, heap, results>>

ScanSetsBand ==
  /\ pc = "band" /\ pc' = "start"
  /\ UNCHANGED <<engine, platform, limit, records, heap, results, retried>>

ScanStarts ==
  /\ pc = "start" /\ pc' = "scan"
  /\ StartOk \/ (started /\ UNCHANGED <<engine, platform, retried>>)
  /\ UNCHANGED <<limit, records, heap, results>>

\* esp_wifi_scan_start, blocking: the driver lists what it heard.
ScanListens ==
  /\ pc = "scan" /\ pc' = "count"
  /\ list' \in 0 .. InReach
  /\ UNCHANGED <<engine, netifs, created, driver, limit, records, heap, results, retried>>

ScanCounts ==
  /\ pc = "count"
  /\ pc' = IF list = 0 THEN "idle" ELSE "records"
  /\ UNCHANGED <<engine, platform, limit, records, heap, results, retried>>

ScanAllocates ==
  /\ pc = "records" /\ pc' = "fetch"
  /\ heap' = heap \cup {"records"}
  /\ UNCHANGED <<engine, platform, limit, records, results, retried>>

\* As many records as were asked for.  The driver frees its list.
Kept == IF list > limit THEN limit ELSE list

ScanFetches ==
  /\ pc = "fetch" /\ pc' = "convert"
  /\ records' = Kept
  /\ list' = 0
  /\ UNCHANGED <<engine, netifs, created, driver, limit, heap, results, retried>>

ScanEnds ==
  /\ pc = "convert" /\ pc' = "idle"
  /\ results' = records /\ records' = 0
  /\ heap' = (heap \ {"records"}) \cup {"results"}
  /\ UNCHANGED <<engine, platform, limit, retried>>

\* wifi_scan_ap_free
Free ==
  /\ pc = "idle" /\ results # 0
  /\ results' = 0 /\ heap' = heap \ {"results"}
  /\ UNCHANGED <<engine, platform, pc, limit, records, retried>>

Next ==
  \/ EngineCall
  \/ \E m \in MaxResults : ScanBegins(m)
  \/ ScanInits \/ ScanSetsBand \/ ScanStarts \/ ScanListens \/ ScanCounts
  \/ ScanAllocates \/ ScanFetches \/ ScanEnds \/ ScanFails
  \/ Free

Spec == Init /\ [][Next]_vars

----------------------------------------------------------------------------
\* Types.
TypeOK ==
  /\ initialized \in BOOLEAN /\ started \in BOOLEAN /\ retried \in BOOLEAN
  /\ sta \in 0 .. created /\ ap \in 0 .. created
  /\ netifs \subseteq 1 .. created /\ created \in 0 .. MaxNetifs
  /\ driver \in {"off", "ready", "on"} /\ limit \in Nat
  /\ pc \in {"idle", "init", "band", "start", "scan", "count", "records", "fetch", "convert"}
  /\ list \in 0 .. InReach /\ records \in 0 .. InReach /\ results \in 0 .. InReach
  /\ heap \subseteq {"records", "results"}

\* A handle is NULL or names an interface that exists, and the engine is never
\* up without both, after any number of failed and repeated inits and deinits:
\* wifi_engine_deinit destroys nothing twice.
HandlesLive ==
  /\ {sta, ap} \ {0} \subseteq netifs
  /\ initialized => sta # 0 /\ ap # 0 /\ sta # ap

\* The two flags say what the driver does, through stops and deinits that fail
\* half-way: a started flag that is stale makes the next scan fail for ever.
FlagsMatchDriver ==
  /\ started => initialized
  /\ initialized => driver # "off"
  /\ started <=> driver = "on"

\* Until an init failed half-way no interface is without a handle.  (After one the
\* next init overwrites the handles of the interfaces it made.)
NoStrayNetif == ~retried => netifs = {sta, ap} \ {0}

\* Between the calls the heap holds what the caller has to free and nothing else,
\* after whichever call a scan gave up.
ScanMemoryBalanced ==
  pc = "idle" => heap = IF results = 0 THEN {} ELSE {"results"}
=============================================================================
