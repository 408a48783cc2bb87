------------------------------ MODULE Storage -------------------------------
(***************************************************************************)
(* storage/src/spectra_storage.c over nvs_mgr.c, spiffs_mgr.c, sd_card.c   *)
(* and log_rotate.c, called by app_main: the NVS and its schema version,   *)
(* the SPI bus the card shares, and the removal of old captures when the   *)
(* card is short of space.  Everything of the boot runs in app_main,       *)
(* before any other task; power may fail at any step.  Each call of NVS,   *)
(* f_getfree, remove, opendir and each mount may fail when it is made.     *)
(***************************************************************************)
EXTENDS Integers, Sequences, FiniteSets, FiniteSetsExt, SequencesExt

CONSTANTS Capture,      \* the *.pcap files there can be in the capture directory
          Mtime,        \* Mtime[f]: its modification time
          Bytes,        \* Bytes[f]: its size
          CardBytes,    \* size of the card, without what other files hold
          MinFree,      \* LOG_ROTATE_MIN_FREE_MB
          Slots,        \* entries of the array files of log_rotate_cleanup
          MaxDelete,    \* max_delete of the call at boot
          Handle        \* NVS handles

ASSUME StorageConstants ==
  /\ IsFiniteSet(Capture)
  /\ Mtime \in [Capture -> Nat] /\ Bytes \in [Capture -> Nat \ {0}]
  /\ CardBytes \in Nat /\ MinFree \in Nat
  /\ Slots \in Nat \ {0} /\ MaxDelete \in Nat
  /\ Handle \subseteq Nat \ {0}

VARIABLES
  pc,                     \* where the boot is; "up" when it is over, "reset" and "down" before
  nvs_initialized, nvs_handle,      \* s_initialized, s_handle of nvs_mgr
  handles, schema,        \* NVS: open handles; schema_ver "absent", "pending" or "present"
  spiffs_mounted,         \* s_spiffs_mounted
  nvs_ready, spiffs_ready, sd_ready, sd_free_bytes,     \* s_health
  mounted, bus_owned,     \* s_sd_mounted, s_bus_owned
  bus,                    \* who initialized the SPI bus
  captures,               \* the files on the card
  files, next,            \* sorted array and i of log_rotate_cleanup
  free_bytes, deleted,    \* its locals
  failed, before, blind   \* history: remove failed; captures scanned from; a query failed

health == <<nvs_ready, spiffs_ready, sd_ready, sd_free_bytes>>
nvs == <<nvs_initialized, nvs_handle, handles, schema>>
card == <<mounted, bus_owned, bus>>
cleanup == <<files, next, free_bytes, deleted, failed, before>>
vars == <<pc, nvs, spiffs_mounted, health, card, captures, cleanup, blind>>

BytesOf == [S \in SUBSET Capture |-> MapThenSumSet(LAMBDA f : Bytes[f], S)]
Free == CardBytes - BytesOf[captures]

Init ==
  /\ pc = "reset"
  /\ nvs_initialized = FALSE /\ nvs_handle = 0 /\ handles = {} /\ schema = "absent"
  /\ spiffs_mounted = FALSE
  /\ nvs_ready = FALSE /\ spiffs_ready = FALSE /\ sd_ready = FALSE /\ sd_free_bytes = 0
  /\ mounted = FALSE /\ bus_owned = FALSE /\ bus = "free"
  /\ captures = {}
  /\ files = <<>> /\ next = 1 /\ free_bytes = 0 /\ deleted = 0
  /\ failed = {} /\ before = {} /\ blind = FALSE

\* The locals of log_rotate_cleanup are gone once it returns.
NoLocals == /\ files' = <<>> /\ next' = 1 /\ free_bytes' = 0 /\ deleted' = 0
            /\ failed' = {} /\ before' = {}
NoHealth == /\ nvs_ready' = FALSE /\ spiffs_ready' = FALSE
            /\ sd_ready' = FALSE /\ sd_free_bytes' = 0

----------------------------------------------------------------------------
\* sd_mount_with_pins: a bus somebody else initialized is used but not owned,
\* and one that was initialized for a card that does not mount is freed.

MutantBusKept ==
  /\ bus' = IF bus = "free" THEN "ours" ELSE bus
  /\ UNCHANGED <<mounted, bus_owned>>
MountFails == UNCHANGED card

MountOk ==
  /\ mounted' = TRUE
  /\ bus_owned' = (bus = "free")
  /\ bus' = IF bus = "free" THEN "ours" ELSE bus

\* sd_card_get_free_space into a variable that holds old: unchanged on failure.
Query(out, old, ok) == out = IF ok THEN Free ELSE old

----------------------------------------------------------------------------
\* app_main before spectra_storage_init: an NVS partition of another layout is
\* erased.  An error here and in spectra_storage_init ends in a restart.
rest == <<health, card, captures, cleanup, blind>>

FlashReady ==
  /\ pc = "reset"
  /\ \E erased \in BOOLEAN : schema' = IF erased THEN "absent" ELSE schema
  /\ pc' = "down"
  /\ UNCHANGED <<nvs_initialized, nvs_handle, handles, spiffs_mounted, rest>>

FlashFails ==
  /\ pc = "reset"
  /\ pc' = "panic"
  /\ schema' \in {schema, "absent"}
  /\ UNCHANGED <<nvs_initialized, nvs_handle, handles, spiffs_mounted, rest>>

\* nvs_mgr_init in spectra_storage_init, which may be called again when up.
Opens(h) ==
  /\ handles' = handles \cup {h} /\ nvs_handle' = h
  /\ UNCHANGED <<nvs_initialized, schema>>

InitBegins ==
  /\ pc \in {"down", "up"}
  /\ NoHealth
  /\ \/ nvs_initialized /\ pc' = "mount" /\ UNCHANGED nvs
     \/ ~nvs_initialized /\ pc' = "schema" /\ \E h \in Handle \ handles : Opens(h)
     \/ ~nvs_initialized /\ pc' = "panic" /\ UNCHANGED nvs
  /\ UNCHANGED <<spiffs_mounted, card, captures, cleanup, blind>>

SchemaFound ==
  /\ pc = "schema" /\ schema = "present"
  /\ nvs_initialized' = TRUE
  /\ pc' = "mount"
  /\ UNCHANGED <<nvs_handle, handles, schema, spiffs_mounted, rest>>

SchemaUnreadable ==
  /\ pc = "schema"
  /\ handles' = handles \ {nvs_handle} /\ nvs_handle' = 0
  /\ pc' = "panic"
  /\ UNCHANGED <<nvs_initialized, schema, spiffs_mounted, rest>>

MutantUncommitted ==
  /\ pc = "schema" /\ schema = "absent"
  /\ schema' = "pending"
  /\ nvs_initialized' = TRUE
  /\ pc' = "mount"
  /\ UNCHANGED <<nvs_handle, handles, spiffs_mounted, rest>>
SchemaSet ==
  /\ pc = "schema" /\ schema = "absent"
  /\ schema' = "pending"
  /\ pc' = "commit"
  /\ UNCHANGED <<nvs_initialized, nvs_handle, handles, spiffs_mounted, rest>>

SchemaCommits ==
  /\ pc = "commit"
  /\ schema' = "present"
  /\ nvs_initialized' = TRUE
  /\ pc' = "mount"
  /\ UNCHANGED <<nvs_handle, handles, spiffs_mounted, rest>>

\* nvs_set_i32 or nvs_commit fails, and the handle stays open.
SchemaFails ==
  /\ \/ pc = "schema" /\ schema = "absent"
     \/ pc = "commit"
  /\ pc' = "panic"
  /\ UNCHANGED <<nvs, spiffs_mounted, rest>>

----------------------------------------------------------------------------
\* spectra_storage_init from spiffs_mgr_init up to log_rotate_check

MutantReadyOnce ==
  /\ pc = "mount"
  /\ nvs_ready' = TRUE
  /\ spiffs_mounted' \in {spiffs_mounted, TRUE}
  /\ spiffs_ready' = (spiffs_mounted' # spiffs_mounted)
  /\ pc' = "card"
  /\ UNCHANGED <<nvs, sd_ready, sd_free_bytes, card, captures, cleanup, blind>>
SpiffsTried ==
  /\ pc = "mount"
  /\ nvs_ready' = TRUE
  /\ spiffs_mounted' \in {spiffs_mounted, TRUE}
  /\ spiffs_ready' = spiffs_mounted'
  /\ pc' = "card"
  /\ UNCHANGED <<nvs, sd_ready, sd_free_bytes, card, captures, cleanup, blind>>

MutantCardAborts ==
  /\ pc = "card" /\ ~mounted
  /\ MountFails
  /\ pc' = "panic"
  /\ UNCHANGED <<nvs, spiffs_mounted, health, captures, cleanup, blind>>
NoCard ==
  /\ pc = "card" /\ ~mounted
  /\ MountFails
  /\ pc' = "up"
  /\ UNCHANGED <<nvs, spiffs_mounted, health, captures, cleanup, blind>>

CardReady(ok) ==
  /\ pc = "card"
  /\ IF mounted THEN UNCHANGED card ELSE MountOk
  /\ sd_ready' = TRUE
  /\ Query(sd_free_bytes', 0, ok)
  /\ pc' = IF sd_free_bytes' >= MinFree THEN "up" ELSE "scan"
  /\ blind' = (~ok /\ pc' = "scan")
  /\ UNCHANGED <<nvs, spiffs_mounted, nvs_ready, spiffs_ready, captures, cleanup>>

----------------------------------------------------------------------------
\* log_rotate_cleanup("captures", MaxDelete, ...)

\* readdir returns the entries in no order of interest, the array takes the
\* first ones that fit, and qsort puts them oldest first, ties in any order.
Scanned == IF Cardinality(captures) <= Slots THEN {captures} ELSE kSubset(Slots, captures)
MutantUnsorted(S) == SetToSeqs(S)
Sorted(S) == {q \in SetToSeqs(S) : \A i, j \in DOMAIN q : i < j => Mtime[q[i]] <= Mtime[q[j]]}

ScanFails ==
  /\ pc = "scan"
  /\ pc' = "health"
  /\ UNCHANGED <<nvs, spiffs_mounted, health, card, captures, cleanup, blind>>

ScanEmpty ==
  /\ pc = "scan" /\ (captures = {} \/ MaxDelete = 0)
  /\ pc' = "health"
  /\ UNCHANGED <<nvs, spiffs_mounted, health, card, captures, cleanup, blind>>

Scan(ok) ==
  /\ pc = "scan" /\ captures # {} /\ MaxDelete > 0
  /\ \E S \in Scanned : files' \in Sorted(S)
  /\ next' = 1 /\ deleted' = 0 /\ failed' = {} /\ before' = captures
  /\ Query(free_bytes', 0, ok)
  /\ blind' = (blind \/ ~ok)
  /\ pc' = "delete"
  /\ UNCHANGED <<nvs, spiffs_mounted, health, card, captures>>

MutantOneTooMany == next <= Len(files) /\ deleted <= MaxDelete /\ free_bytes < MinFree
MutantDeletesOn == next <= Len(files) /\ deleted < MaxDelete
MoreToDelete == next <= Len(files) /\ deleted < MaxDelete /\ free_bytes < MinFree

RemoveOk(ok) ==
  /\ pc = "delete" /\ MoreToDelete
  /\ captures' = captures \ {files[next]}
  /\ deleted' = deleted + 1 /\ next' = next + 1
  /\ free_bytes' = IF ok THEN Free' ELSE free_bytes
  /\ blind' = (blind \/ ~ok)
  /\ UNCHANGED <<pc, nvs, spiffs_mounted, health, card, files, failed, before>>

MutantRetriesFile ==
  /\ pc = "delete" /\ MoreToDelete
  /\ failed' = failed \cup {files[next]}
  /\ UNCHANGED <<pc, nvs, spiffs_mounted, health, card, captures, files, next, free_bytes, deleted, before, blind>>
RemoveFails ==
  /\ pc = "delete" /\ MoreToDelete
  /\ failed' = failed \cup {files[next]}
  /\ next' = next + 1
  /\ UNCHANGED <<pc, nvs, spiffs_mounted, health, card, captures, files, free_bytes, deleted, before, blind>>

CleanupReturns ==
  /\ pc = "delete" /\ ~MoreToDelete
  /\ pc' = "health"
  /\ NoLocals
  /\ UNCHANGED <<nvs, spiffs_mounted, health, card, captures, blind>>

\* The last query of spectra_storage_init.
BootEnds(ok) ==
  /\ pc = "health"
  /\ Query(sd_free_bytes', sd_free_bytes, ok)
  /\ blind' = FALSE
  /\ pc' = "up"
  /\ UNCHANGED <<nvs, spiffs_mounted, nvs_ready, spiffs_ready, sd_ready, card, captures, cleanup>>

\* Power fails, or the chip resets, by itself or because ESP_ERROR_CHECK aborts.
\* What is on the card stays, and an uncommitted entry of the NVS may or may not.
Reset ==
  /\ pc' = "reset" /\ NoHealth
  /\ nvs_initialized' = FALSE /\ nvs_handle' = 0 /\ handles' = {}
  /\ schema' \in IF schema = "pending" THEN {"absent", "present"} ELSE {schema}
  /\ spiffs_mounted' = FALSE
  /\ mounted' = FALSE /\ bus_owned' = FALSE /\ bus' = "free"
  /\ NoLocals /\ blind' = FALSE
  /\ UNCHANGED captures

Aborts == pc = "panic" /\ Reset

BootGoesOn ==
  \/ FlashReady \/ FlashFails \/ Aborts
  \/ SchemaFound \/ SchemaUnreadable \/ SchemaSet \/ SchemaCommits \/ SchemaFails
  \/ SpiffsTried \/ NoCard
  \/ ScanFails \/ ScanEmpty \/ RemoveFails \/ CleanupReturns
  \/ \E ok \in BOOLEAN : CardReady(ok) \/ Scan(ok) \/ RemoveOk(ok) \/ BootEnds(ok)

----------------------------------------------------------------------------
\* A capture written, or removed with sd rm, while the storage is up.
WriteCapture(f) ==
  /\ pc = "up" /\ mounted /\ f \notin captures /\ Bytes[f] <= Free
  /\ captures' = captures \cup {f}
  /\ UNCHANGED <<pc, nvs, spiffs_mounted, health, card, cleanup, blind>>

RemoveCapture(f) ==
  /\ pc = "up" /\ mounted /\ f \in captures
  /\ captures' = captures \ {f}
  /\ UNCHANGED <<pc, nvs, spiffs_mounted, health, card, cleanup, blind>>

\* spectra_storage_deinit
NvsDeinit ==
  /\ handles' = IF nvs_initialized THEN handles \ {nvs_handle} ELSE handles
  /\ nvs_handle' = IF nvs_initialized THEN 0 ELSE nvs_handle
  /\ nvs_initialized' = FALSE
  /\ UNCHANGED schema

Deinit ==
  /\ pc = "up"
  /\ pc' = "down"
  /\ NoHealth /\ NvsDeinit /\ spiffs_mounted' = FALSE
  /\ mounted' = FALSE /\ bus_owned' = FALSE
  /\ bus' = IF mounted /\ bus_owned THEN "free" ELSE bus
  /\ UNCHANGED <<captures, cleanup, blind>>

\* Another driver initializes or frees the SPI bus.
OtherDriver ==
  /\ pc = "down" /\ bus # "ours"
  /\ bus' = IF bus = "free" THEN "other" ELSE "free"
  /\ UNCHANGED <<pc, nvs, spiffs_mounted, health, mounted, bus_owned, captures, cleanup, blind>>

Next ==
  \/ BootGoesOn \/ InitBegins
  \/ \E f \in Capture : WriteCapture(f) \/ RemoveCapture(f)
  \/ Deinit \/ OtherDriver \/ Reset

Spec == Init /\ [][Next]_vars

\* app_main goes on with a boot it began.
FairSpec == Spec /\ WF_vars(BootGoesOn)

----------------------------------------------------------------------------
Booting == {"schema", "commit", "mount", "card", "scan", "delete", "health"}

\* Types.
TypeOK ==
  /\ pc \in Booting \cup {"reset", "panic", "down", "up"}
  /\ \A b \in {nvs_initialized, spiffs_mounted, mounted, bus_owned, blind} : b \in BOOLEAN
  /\ nvs_handle \in Handle \cup {0} /\ handles \subseteq Handle
  /\ schema \in {"absent", "pending", "present"}
  /\ bus \in {"free", "ours", "other"}
  /\ captures \subseteq Capture /\ failed \subseteq Capture /\ before \subseteq Capture
  /\ files \in Seq(Capture) /\ Len(files) <= Slots
  /\ next \in 1 .. Slots + 1 /\ deleted \in 0 .. MaxDelete
  /\ sd_free_bytes \in 0 .. CardBytes /\ free_bytes \in 0 .. CardBytes
  /\ nvs_ready \in BOOLEAN /\ spiffs_ready \in BOOLEAN /\ sd_ready \in BOOLEAN

\* Whenever no call is under way, the health report says what is open and mounted:
\* after a second init, which finds some of it there, after a deinit and a restart.
HealthTrue ==
  pc \in {"up", "down", "reset"} =>
    /\ nvs_ready = nvs_initialized
    /\ spiffs_ready = spiffs_mounted
    /\ sd_ready = mounted

\* nvs_mgr is initialized with one open handle, over a schema version that is
\* committed; a handle that init leaves open when it fails is the one it knows.
NvsReady ==
  /\ nvs_initialized => schema = "present" /\ nvs_handle # 0
  /\ handles = {nvs_handle} \ {0}

\* The bus is left to its other user as it was found, and a bus initialized for
\* the card is in use by it: a card that did not mount does not keep the bus.
BusOwnership ==
  /\ bus_owned <=> bus = "ours"
  /\ bus_owned => mounted

\* The cleanup takes a capture only after every older one it looked at, except
\* those it could not remove.
OldestScannedFirst ==
  pc = "delete" =>
    \A f, g \in ToSet(files) :
      Mtime[f] < Mtime[g] /\ g \notin captures => f \notin captures \/ f \in failed

\* While f_getfree works, no capture goes from a card with room enough.
RemovesOnlyWhenShort ==
  [][pc = "delete" /\ captures' # captures /\ ~blind => Free < MinFree]_vars

\* What makes the boot abort is the flash or the NVS: SPIFFS, the card and the
\* cleanup come after nvs_mgr_init, and no failure of theirs ends in a restart.  A
\* boot that has begun opens the NVS or aborts, and once the NVS is open it comes up,
\* with every failure of SPIFFS, card and cleanup there may be, unless the power fails.
BootTerminates ==
  /\ ~<>(pc = "panic" /\ nvs_initialized)
  /\ pc \in Booting /\ ~nvs_initialized ~> nvs_initialized \/ pc \in {"panic", "reset"}
  /\ pc \in Booting /\ nvs_initialized ~> pc \in {"up", "reset"}

\* It cannot go on for ever: whatever fails, each step leaves fewer of them to be made,
\* and there are at most as many as the array has entries and a few more.
StepsLeft ==
  CASE pc = "health" -> 1
    [] pc = "delete" -> Len(files) - next + 3
    [] pc = "scan" -> Slots + 3
    [] pc = "card" -> Slots + 4
    [] pc = "mount" -> Slots + 5
    [] pc = "commit" -> Slots + 6
    [] pc = "schema" -> Slots + 7
    [] OTHER -> 0

BootAdvances ==
  [][(pc \in Booting) => StepsLeft \in 1 .. Slots + 7 /\ StepsLeft' < StepsLeft]_vars

\* docs/storage/recovery-runbook.md: captures are rotated when less than the
\* threshold is free.
RotatesBelowThreshold ==
  [][pc = "delete" /\ captures' # captures => Free < MinFree]_vars
=============================================================================
