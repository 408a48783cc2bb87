--------------------------- MODULE StorageProofs ---------------------------
(***************************************************************************)
(* What Storage.tla promises for any captures, ages, sizes and handles.    *)
(* The invariant says, for each place of the boot, which of the managers   *)
(* have done their part and what s_health holds of it, and, for the loop   *)
(* of log_rotate_cleanup, that the captures before next are gone or could  *)
(* not be removed and those from next on are still there.  That captures   *)
(* fit on the card needs the sum of their sizes: it exists, and a file     *)
(* more or less is one term, by the smallest set where it is not so        *)
(* (Smallest).                                                             *)
(***************************************************************************)
EXTENDS Storage, FiniteSetTheorems, WellFoundedInduction, TLAPS

USE StorageConstants

Opening == {"schema", "commit"}
Removing == {"scan", "delete", "health"}

OnlyNvsAborts == pc = "panic" => ~nvs_initialized

NvsState ==
  /\ NvsReady
  /\ nvs_handle = 0 \/ nvs_handle \in Handle
  /\ pc \in {"reset", "down"} => ~nvs_initialized /\ nvs_handle = 0
  /\ pc \in Opening => ~nvs_initialized /\ nvs_handle # 0
  /\ pc \in {"mount", "card", "up"} \cup Removing => nvs_initialized
  /\ OnlyNvsAborts

Flags ==
  /\ nvs_initialized \in BOOLEAN /\ spiffs_mounted \in BOOLEAN /\ mounted \in BOOLEAN
  /\ nvs_ready \in BOOLEAN /\ spiffs_ready \in BOOLEAN /\ sd_ready \in BOOLEAN
  /\ bus_owned \in BOOLEAN /\ blind \in BOOLEAN

HealthState ==
  /\ HealthTrue
  /\ pc \in Opening \cup {"mount", "card"} => ~sd_ready
  /\ pc \in {"card"} \cup Removing => nvs_ready /\ spiffs_ready = spiffs_mounted
  /\ pc \in Removing => sd_ready /\ mounted

(* The captures of one call of log_rotate_cleanup. *)
CleanupState ==
  /\ files \in Seq(Capture) /\ next \in Nat \ {0}
  /\ pc = "delete" =>
       /\ next <= Len(files) + 1
       /\ \A i, j \in 1 .. Len(files) : i # j => files[i] # files[j]
       /\ \A i, j \in 1 .. Len(files) : i < j => Mtime[files[i]] <= Mtime[files[j]]
       /\ \A i \in 1 .. Len(files) :
            IF i < next THEN files[i] \notin captures \/ files[i] \in failed
                        ELSE files[i] \in captures
       /\ ~blind => free_bytes = Free

IInv ==
  /\ captures \subseteq Capture
  /\ Flags /\ NvsState /\ HealthState /\ BusOwnership /\ CleanupState

----------------------------------------------------------------------------
LEMMA Initially == Init => IInv
<1> SUFFICES ASSUME Init
             PROVE  IInv
  OBVIOUS
<1>1. captures \subseteq Capture /\ Flags
  BY DEF Init, Flags
<1>2. NvsState /\ HealthState
  BY DEF Init, NvsState, NvsReady, OnlyNvsAborts, HealthState, HealthTrue, Opening, Removing
<1>3. BusOwnership
  BY DEF Init, BusOwnership
<1>4. CleanupState
  BY DEF Init, CleanupState
<1> QED
  BY <1>1, <1>2, <1>3, <1>4 DEF IInv

----------------------------------------------------------------------------
(* qsort gives an array of the captures it was given, each once, by age. *)
LEMMA SortedArray ==
  ASSUME NEW S \in SUBSET Capture, NEW q \in Sorted(S)
  PROVE  /\ q \in Seq(S)
         /\ \A i, j \in 1 .. Len(q) : i # j => q[i] # q[j]
         /\ \A i, j \in 1 .. Len(q) : i < j => Mtime[q[i]] <= Mtime[q[j]]
<1>1. Cardinality(S) \in Nat
  BY FS_Subset, FS_CardinalityType
<1>2. /\ q \in [1 .. Cardinality(S) -> S]
      /\ \A i, j \in 1 .. Cardinality(S) : i # j => q[i] # q[j]
  BY DEF Sorted, SetToSeqs
<1>3. q \in Seq(S) /\ Len(q) = Cardinality(S) /\ DOMAIN q = 1 .. Len(q)
  BY <1>1, <1>2
<1>4. \A i, j \in DOMAIN q : i < j => Mtime[q[i]] <= Mtime[q[j]]
  BY DEF Sorted
<1> QED
  BY <1>2, <1>3, <1>4

(* The array holds captures only, whether all of them fit or not. *)
LEMMA ScannedCaptures ==
  ASSUME NEW S \in Scanned, captures \subseteq Capture
  PROVE  S \subseteq captures
<1>1. kSubset(Slots, captures) \subseteq SUBSET captures
  BY DEF kSubset
<1> QED
  BY <1>1 DEF Scanned

----------------------------------------------------------------------------
LEMMA CapturesKept ==
  ASSUME IInv, [Next]_vars
  PROVE  captures' \subseteq Capture
<1>1. captures \subseteq Capture
  BY DEF IInv
<1>2. CASE UNCHANGED captures
  BY <1>1, <1>2
<1>3. CASE \E ok \in BOOLEAN : RemoveOk(ok)
  BY <1>1, <1>3 DEF RemoveOk
<1>4. CASE \E f \in Capture : WriteCapture(f) \/ RemoveCapture(f)
  BY <1>1, <1>4 DEF WriteCapture, RemoveCapture
<1>5. \/ UNCHANGED captures
      \/ \E ok \in BOOLEAN : RemoveOk(ok)
      \/ \E f \in Capture : WriteCapture(f) \/ RemoveCapture(f)
  BY DEF Next, BootGoesOn, vars, rest, cleanup, FlashReady, FlashFails, Aborts, InitBegins,
         SchemaFound, SchemaUnreadable, SchemaSet, SchemaCommits, SchemaFails, SpiffsTried,
         NoCard, CardReady, ScanFails, ScanEmpty, Scan, RemoveFails, CleanupReturns, BootEnds,
         Deinit, OtherDriver, Reset
<1> QED
  BY <1>2, <1>3, <1>4, <1>5

(* The flags are Booleans: what a step assigns to them is a comparison or one *)
(* of the flags.                                                              *)
LEMMA FlagsKept ==
  ASSUME IInv, [Next]_vars
  PROVE  Flags'
<1>1. Flags
  BY DEF IInv
<1>2. CASE UNCHANGED <<nvs_initialized, spiffs_mounted, health, card, blind>>
  BY <1>1, <1>2 DEF Flags, health, card
<1>3. CASE InitBegins
  BY <1>1, <1>3 DEF Flags, InitBegins, NoHealth, card, nvs, Opens
<1>4. CASE SchemaFound \/ SchemaCommits
  BY <1>1, <1>4 DEF Flags, SchemaFound, SchemaCommits, rest, health, card
<1>5. CASE SpiffsTried
  BY <1>1, <1>5 DEF Flags, SpiffsTried, nvs, card
<1>6. ASSUME NEW ok \in BOOLEAN, CardReady(ok)
      PROVE  Flags'
  <2>1. UNCHANGED <<nvs_initialized, spiffs_mounted, nvs_ready, spiffs_ready>> /\ sd_ready' = TRUE
    BY <1>6 DEF CardReady, nvs
  <2>2. mounted' \in BOOLEAN /\ bus_owned' \in BOOLEAN
    BY <1>1, <1>6 DEF CardReady, Flags, card, MountOk
  <2>3. blind' \in BOOLEAN
    BY <1>6 DEF CardReady
  <2> QED
    BY <1>1, <2>1, <2>2, <2>3 DEF Flags
<1>7. ASSUME NEW ok \in BOOLEAN, Scan(ok) \/ RemoveOk(ok) \/ BootEnds(ok)
      PROVE  Flags'
  <2>1. blind' \in BOOLEAN
    BY <1>7 DEF Scan, RemoveOk, BootEnds
  <2>2. UNCHANGED <<nvs_initialized, spiffs_mounted, nvs_ready, spiffs_ready, sd_ready, mounted, bus_owned>>
    BY <1>7 DEF Scan, RemoveOk, BootEnds, nvs, health, card
  <2> QED
    BY <1>1, <2>1, <2>2 DEF Flags
<1>8. CASE Deinit \/ Reset
  BY <1>1, <1>8 DEF Flags, Deinit, Reset, NoHealth, NvsDeinit
<1>9. CASE OtherDriver
  BY <1>1, <1>9 DEF Flags, OtherDriver, nvs, health
<1>10. CASE FlashReady \/ FlashFails \/ SchemaUnreadable \/ SchemaSet \/ SchemaFails
  BY <1>2, <1>10 DEF FlashReady, FlashFails, SchemaUnreadable, SchemaSet, SchemaFails, rest, nvs
<1>11. CASE NoCard \/ ScanFails \/ ScanEmpty \/ RemoveFails \/ CleanupReturns
  BY <1>2, <1>11 DEF NoCard, MountFails, ScanFails, ScanEmpty, RemoveFails, CleanupReturns, nvs
<1>12. CASE \E f \in Capture : WriteCapture(f) \/ RemoveCapture(f)
  BY <1>2, <1>12 DEF WriteCapture, RemoveCapture, nvs
<1>13. CASE UNCHANGED vars
  BY <1>2, <1>13 DEF vars, nvs
<1> QED
  BY <1>3, <1>4, <1>5, <1>6, <1>7, <1>8, <1>9, <1>10, <1>11, <1>12, <1>13
     DEF Next, BootGoesOn, Aborts

----------------------------------------------------------------------------
(* nvs_mgr: the handle it knows is the only one that is open, and only the    *)
(* two steps that find or commit the schema version make it initialized.      *)
LEMMA NvsKept ==
  ASSUME IInv, [Next]_vars
  PROVE  NvsState'
<1> USE DEF OnlyNvsAborts
<1>1. NvsState /\ nvs_initialized \in BOOLEAN
  BY DEF IInv, Flags
<1> DEFINE Same == UNCHANGED <<nvs_initialized, nvs_handle, handles, schema>>
<1>2. CASE UNCHANGED vars
  BY <1>1, <1>2 DEF vars, nvs, NvsState, NvsReady
<1>3. CASE FlashReady \/ FlashFails
  BY <1>1, <1>3 DEF FlashReady, FlashFails, NvsState, NvsReady, Opening, Removing
<1>4. CASE InitBegins
  <2>1. CASE nvs_initialized /\ pc' = "mount" /\ UNCHANGED nvs
    BY <1>1, <2>1 DEF nvs, NvsState, NvsReady, Opening, Removing
  <2>2. ASSUME ~nvs_initialized, pc' = "schema", NEW h \in Handle \ handles, Opens(h)
        PROVE  NvsState'
    <3>1. nvs_handle = 0 /\ handles = {}
      BY <1>1, <1>4, <2>2 DEF InitBegins, NvsState, NvsReady, Removing
    <3>2. h # 0 /\ handles' = {h} /\ nvs_handle' = h /\ ~nvs_initialized'
      BY <2>2, <3>1 DEF Opens
    <3> QED
      BY <2>2, <3>2 DEF NvsState, NvsReady, Opening, Removing
  <2>3. CASE ~nvs_initialized /\ pc' = "panic" /\ UNCHANGED nvs
    BY <1>1, <2>3 DEF nvs, NvsState, NvsReady, Opening, Removing
  <2> QED
    BY <1>4, <2>1, <2>2, <2>3 DEF InitBegins
<1>5. CASE SchemaFound \/ SchemaCommits
  BY <1>1, <1>5 DEF SchemaFound, SchemaCommits, NvsState, NvsReady, Opening, Removing
<1>6. CASE SchemaUnreadable
  BY <1>1, <1>6 DEF SchemaUnreadable, NvsState, NvsReady, Opening, Removing
<1>7. CASE SchemaSet
  BY <1>1, <1>7 DEF SchemaSet, NvsState, NvsReady, Opening, Removing
<1>8. CASE SchemaFails
  BY <1>1, <1>8 DEF SchemaFails, nvs, NvsState, NvsReady, Opening, Removing
<1>9. CASE SpiffsTried \/ NoCard \/ (\E ok \in BOOLEAN : CardReady(ok))
  <2>1. Same /\ pc \in {"mount", "card"} /\ pc' \in {"card", "up", "scan"}
    BY <1>9 DEF SpiffsTried, NoCard, CardReady, nvs
  <2> QED
    BY <1>1, <2>1 DEF NvsState, NvsReady, Opening, Removing
<1>10. CASE ScanFails \/ ScanEmpty \/ (\E ok \in BOOLEAN : Scan(ok)) \/ CleanupReturns
  <2>1. Same /\ pc \in {"scan", "delete"} /\ pc' \in {"delete", "health"}
    BY <1>10 DEF ScanFails, ScanEmpty, Scan, CleanupReturns, nvs
  <2> QED
    BY <1>1, <2>1 DEF NvsState, NvsReady, Opening, Removing
<1>11. CASE (\E ok \in BOOLEAN : BootEnds(ok))
  <2>1. Same /\ pc = "health" /\ pc' = "up"
    BY <1>11 DEF BootEnds, nvs
  <2> QED
    BY <1>1, <2>1 DEF NvsState, NvsReady, Opening, Removing
<1>12. CASE \/ RemoveFails \/ OtherDriver \/ (\E ok \in BOOLEAN : RemoveOk(ok))
            \/ \E f \in Capture : WriteCapture(f) \/ RemoveCapture(f)
  <2>1. Same /\ UNCHANGED pc
    BY <1>12 DEF RemoveFails, OtherDriver, RemoveOk, WriteCapture, RemoveCapture, nvs
  <2> QED
    BY <1>1, <2>1 DEF NvsState, NvsReady
<1>13. CASE Deinit
  BY <1>1, <1>13 DEF Deinit, NvsDeinit, NvsState, NvsReady, Opening, Removing
<1>14. CASE Reset
  BY <1>1, <1>14 DEF Reset, NvsState, NvsReady, Opening, Removing
<1> QED
  BY <1>2, <1>3, <1>4, <1>5, <1>6, <1>7, <1>8, <1>9, <1>10, <1>11, <1>12, <1>13, <1>14
     DEF Next, BootGoesOn, Aborts

(* The health report: false until the manager has done its part, then what   *)
(* it found or did.                                                          *)
LEMMA HealthKept ==
  ASSUME IInv, [Next]_vars
  PROVE  HealthState'
<1>1. /\ HealthState /\ NvsState
      /\ nvs_initialized \in BOOLEAN /\ mounted \in BOOLEAN
      /\ nvs_ready \in BOOLEAN /\ sd_ready \in BOOLEAN
  BY DEF IInv, Flags
<1>2. CASE UNCHANGED vars
  BY <1>1, <1>2 DEF vars, nvs, card, health, HealthState, HealthTrue
<1>3. CASE FlashReady \/ FlashFails
  BY <1>1, <1>3 DEF FlashReady, FlashFails, rest, card, health, HealthState, HealthTrue, Opening, Removing
<1>4. CASE InitBegins
  BY <1>1, <1>4 DEF InitBegins, NoHealth, HealthState, HealthTrue, Opening, Removing
<1>5. CASE SchemaFound \/ SchemaUnreadable \/ SchemaSet \/ SchemaCommits \/ SchemaFails
  <2>1. UNCHANGED <<health, card>> /\ pc \in Opening /\ pc' \in Opening \cup {"mount", "panic"}
    BY <1>5 DEF SchemaFound, SchemaUnreadable, SchemaSet, SchemaCommits, SchemaFails, rest, Opening
  <2> QED
    BY <1>1, <2>1 DEF health, HealthState, HealthTrue, Opening, Removing
<1>6. CASE SpiffsTried
  BY <1>1, <1>6 DEF SpiffsTried, HealthState, HealthTrue, Opening, Removing
<1>7. CASE NoCard
  <2>1. /\ UNCHANGED <<nvs_initialized, spiffs_mounted, health, mounted>>
        /\ pc = "card" /\ ~mounted /\ pc' = "up"
    BY <1>7 DEF NoCard, MountFails, nvs, card
  <2>2. nvs_initialized = nvs_ready /\ sd_ready = mounted /\ spiffs_ready = spiffs_mounted
    BY <1>1, <2>1 DEF HealthState, NvsState
  <2> QED
    BY <2>1, <2>2 DEF health, HealthState, HealthTrue, Opening, Removing
<1>8. ASSUME NEW ok \in BOOLEAN, CardReady(ok)
      PROVE  HealthState'
  <2>1. /\ pc = "card" /\ pc' \in {"up", "scan"}
        /\ sd_ready' = TRUE /\ mounted' = TRUE
        /\ UNCHANGED <<nvs_initialized, spiffs_mounted, nvs_ready, spiffs_ready>>
    BY <1>1, <1>8 DEF CardReady, MountOk, nvs, card
  <2> QED
    BY <1>1, <2>1 DEF HealthState, HealthTrue, NvsState, Opening, Removing
<1>9. CASE ScanFails \/ ScanEmpty \/ CleanupReturns \/ (\E ok \in BOOLEAN : Scan(ok))
  <2>1. /\ UNCHANGED <<nvs, spiffs_mounted, health, card>>
        /\ pc \in Removing /\ pc' \in {"delete", "health"}
    BY <1>9 DEF ScanFails, ScanEmpty, CleanupReturns, Scan, Removing
  <2> QED
    BY <1>1, <2>1 DEF nvs, health, card, HealthState, HealthTrue, Opening, Removing
<1>10. CASE \E ok \in BOOLEAN : BootEnds(ok)
  <2>1. /\ UNCHANGED <<nvs_initialized, spiffs_mounted, nvs_ready, spiffs_ready, sd_ready, mounted>>
        /\ pc = "health" /\ pc' = "up"
    BY <1>10 DEF BootEnds, nvs, card
  <2> QED
    BY <1>1, <2>1 DEF HealthState, HealthTrue, NvsState, Opening, Removing
<1>11. CASE \/ RemoveFails \/ OtherDriver \/ (\E ok \in BOOLEAN : RemoveOk(ok))
            \/ \E f \in Capture : WriteCapture(f) \/ RemoveCapture(f)
  <2>1. UNCHANGED <<pc, nvs_initialized, spiffs_mounted, health, mounted>>
    BY <1>11 DEF RemoveFails, OtherDriver, RemoveOk, WriteCapture, RemoveCapture, nvs, card
  <2> QED
    BY <1>1, <2>1 DEF health, HealthState, HealthTrue
<1>12. CASE Deinit
  BY <1>12 DEF Deinit, NoHealth, NvsDeinit, HealthState, HealthTrue, Opening, Removing
<1>13. CASE Reset
  BY <1>13 DEF Reset, NoHealth, HealthState, HealthTrue, Opening, Removing
<1> QED
  BY <1>2, <1>3, <1>4, <1>5, <1>6, <1>7, <1>8, <1>9, <1>10, <1>11, <1>12, <1>13
     DEF Next, BootGoesOn, Aborts

(* The bus is only touched by the mount, the deinit and its other user. *)
LEMMA BusKept ==
  ASSUME IInv, [Next]_vars
  PROVE  BusOwnership'
<1>1. BusOwnership /\ mounted \in BOOLEAN /\ bus_owned \in BOOLEAN
  BY DEF IInv, Flags
<1>2. CASE UNCHANGED card
  BY <1>1, <1>2 DEF card, BusOwnership
<1>3. ASSUME NEW ok \in BOOLEAN, CardReady(ok)
      PROVE  BusOwnership'
  BY <1>1, <1>2, <1>3 DEF CardReady, MountOk, BusOwnership
<1>4. CASE Deinit
  BY <1>1, <1>4 DEF Deinit, BusOwnership
<1>5. CASE Reset
  BY <1>5 DEF Reset, BusOwnership
<1>6. CASE OtherDriver
  BY <1>1, <1>6 DEF OtherDriver, BusOwnership
<1>7. \/ UNCHANGED card \/ Deinit \/ Reset \/ OtherDriver
      \/ \E ok \in BOOLEAN : CardReady(ok)
  BY DEF Next, BootGoesOn, Aborts, vars, rest, FlashReady, FlashFails, InitBegins,
         SchemaFound, SchemaUnreadable, SchemaSet, SchemaCommits, SchemaFails, SpiffsTried,
         NoCard, MountFails, ScanFails, ScanEmpty, Scan, RemoveOk, RemoveFails, CleanupReturns,
         BootEnds, WriteCapture, RemoveCapture
<1> QED
  BY <1>2, <1>3, <1>4, <1>5, <1>6, <1>7

(* log_rotate_cleanup: the loop leaves nothing behind it but what it could    *)
(* not remove, and touches nothing before its turn.                           *)
LEMMA CleanupKept ==
  ASSUME IInv, [Next]_vars
  PROVE  CleanupState'
<1>1. CleanupState /\ captures \subseteq Capture /\ blind \in BOOLEAN
  BY DEF IInv, Flags
<1>2. CASE UNCHANGED <<pc, cleanup, captures, blind>>
  BY <1>1, <1>2 DEF CleanupState, cleanup, Free
<1>3. CASE UNCHANGED <<files, next>> /\ pc' # "delete"
  BY <1>1, <1>3 DEF CleanupState
<1>4. CASE CleanupReturns \/ Reset
  <2>1. files' = <<>> /\ next' = 1 /\ pc' \in {"health", "reset"}
    BY <1>4 DEF CleanupReturns, Reset, NoLocals
  <2>2. files' \in Seq(Capture) /\ next' \in Nat \ {0}
    BY <2>1
  <2> QED
    BY <2>1, <2>2 DEF CleanupState
<1>5. ASSUME NEW ok \in BOOLEAN, Scan(ok)
      PROVE  CleanupState'
  <2>1. PICK S \in Scanned : files' \in Sorted(S)
    BY <1>5 DEF Scan
  <2>2. S \in SUBSET Capture /\ S \subseteq captures
    BY <1>1, ScannedCaptures
  <2>3. /\ files' \in Seq(S)
        /\ \A i, j \in 1 .. Len(files') : i # j => files'[i] # files'[j]
        /\ \A i, j \in 1 .. Len(files') : i < j => Mtime[files'[i]] <= Mtime[files'[j]]
    BY <2>1, <2>2, SortedArray
  <2>4. \A i \in 1 .. Len(files') : files'[i] \in captures
    BY <2>2, <2>3
  <2>5. files' \in Seq(Capture) /\ next' = 1 /\ UNCHANGED captures
    BY <1>5, <2>2, <2>3 DEF Scan
  <2>6. ~blind' => free_bytes' = Free'
    BY <1>5, <2>5 DEF Scan, Query, Free
  <2>7. next' \in Nat \ {0} /\ Len(files') \in Nat
    BY <2>5
  <2>8. \A i \in 1 .. Len(files') :
          IF i < next' THEN files'[i] \notin captures' \/ files'[i] \in failed'
                       ELSE files'[i] \in captures'
    BY <2>4, <2>5, <2>7
  <2> QED
    BY <2>3, <2>5, <2>6, <2>7, <2>8 DEF CleanupState
<1>6. CASE RemoveFails
  <2>1. /\ pc = "delete" /\ next \in 1 .. Len(files) /\ next' = next + 1
        /\ failed' = failed \cup {files[next]}
        /\ UNCHANGED <<pc, files, captures, free_bytes, blind>>
    BY <1>1, <1>6 DEF RemoveFails, MoreToDelete, CleanupState
  <2>2. \A i \in 1 .. Len(files) :
          IF i < next' THEN files[i] \notin captures \/ files[i] \in failed'
                       ELSE files[i] \in captures
    BY <1>1, <2>1 DEF CleanupState
  <2>3. next' <= Len(files') + 1 /\ next' \in Nat \ {0}
    BY <1>1, <2>1 DEF CleanupState
  <2> QED
    BY <1>1, <2>1, <2>2, <2>3 DEF CleanupState, Free
<1>7. ASSUME NEW ok \in BOOLEAN, RemoveOk(ok)
      PROVE  CleanupState'
  <2>1. /\ pc = "delete" /\ next \in 1 .. Len(files) /\ next' = next + 1
        /\ captures' = captures \ {files[next]}
        /\ UNCHANGED <<pc, files, failed>>
    BY <1>1, <1>7 DEF RemoveOk, MoreToDelete, CleanupState
  <2>2. \A i \in 1 .. Len(files) : i # next => files[i] # files[next]
    BY <1>1, <2>1 DEF CleanupState
  <2>3. \A i \in 1 .. Len(files) :
          IF i < next' THEN files[i] \notin captures' \/ files[i] \in failed
                       ELSE files[i] \in captures'
    BY <1>1, <2>1, <2>2 DEF CleanupState
  <2>4. ~blind' => free_bytes' = Free'
    BY <1>7 DEF RemoveOk
  <2>5. files' \in Seq(Capture) /\ next' \in Nat \ {0} /\ next' <= Len(files') + 1
    BY <1>1, <2>1 DEF CleanupState
  <2>6. /\ \A i, j \in 1 .. Len(files') : i # j => files'[i] # files'[j]
        /\ \A i, j \in 1 .. Len(files') : i < j => Mtime[files'[i]] <= Mtime[files'[j]]
    BY <1>1, <2>1 DEF CleanupState
  <2>7. \A i \in 1 .. Len(files') :
          IF i < next' THEN files'[i] \notin captures' \/ files'[i] \in failed'
                       ELSE files'[i] \in captures'
    BY <2>1, <2>3
  <2> QED
    BY <2>4, <2>5, <2>6, <2>7 DEF CleanupState
<1>8. CASE \/ InitBegins \/ SpiffsTried \/ NoCard \/ ScanFails \/ ScanEmpty
           \/ (\E ok \in BOOLEAN : CardReady(ok) \/ BootEnds(ok)) \/ Deinit \/ OtherDriver
           \/ \E f \in Capture : WriteCapture(f) \/ RemoveCapture(f)
  BY <1>3, <1>8 DEF InitBegins, SpiffsTried, NoCard, ScanFails, ScanEmpty, CardReady, BootEnds,
                    Deinit, OtherDriver, WriteCapture, RemoveCapture, cleanup
<1>9. CASE \/ FlashReady \/ FlashFails
           \/ SchemaFound \/ SchemaUnreadable \/ SchemaSet \/ SchemaCommits \/ SchemaFails
  BY <1>3, <1>9 DEF FlashReady, FlashFails, SchemaFound, SchemaUnreadable, SchemaSet,
                    SchemaCommits, SchemaFails, rest, cleanup
<1>10. CASE UNCHANGED vars
  BY <1>2, <1>10 DEF vars
<1> QED
  BY <1>4, <1>5, <1>6, <1>7, <1>8, <1>9, <1>10 DEF Next, BootGoesOn, Aborts

----------------------------------------------------------------------------
(* IInv is inductive: each of its parts is kept by every step.               *)
THEOREM Invariant == Spec => []IInv
<1>1. IInv /\ [Next]_vars => IInv'
  BY CapturesKept, FlagsKept, NvsKept, HealthKept, BusKept, CleanupKept DEF IInv
<1> QED
  BY <1>1, Initially, PTL DEF Spec

(* nvs_mgr is initialized over a committed schema version and with its one    *)
(* open handle, for resets and failures at any call of nvs_mgr_init.          *)
THEOREM SchemaBeforeUse == Spec => []NvsReady
<1>1. IInv => NvsReady
  BY DEF IInv, NvsState
<1> QED
  BY <1>1, Invariant, PTL

(* No failure after nvs_mgr_init makes the boot abort: SPIFFS, the card and   *)
(* the cleanup may fail at any call, any number of times.  It is the first    *)
(* part of BootTerminates.                                                    *)
THEOREM AbortsBeforeNvs == Spec => []OnlyNvsAborts
<1>1. IInv => OnlyNvsAborts
  BY DEF IInv, NvsState
<1> QED
  BY <1>1, Invariant, PTL

(* Between the calls s_health is what the three managers hold.                *)
THEOREM HealthReportTrue == Spec => []HealthTrue
<1>1. IInv => HealthTrue
  BY DEF IInv, HealthState
<1> QED
  BY <1>1, Invariant, PTL

(* The SPI bus is owned exactly while the card that was mounted on it is.     *)
THEOREM BusGivenBack == Spec => []BusOwnership
<1>1. IInv => BusOwnership
  BY DEF IInv
<1> QED
  BY <1>1, Invariant, PTL

(* log_rotate_cleanup takes no capture before an older one it has seen, for   *)
(* any directory order, array size and captures that cannot be removed.       *)
THEOREM OldestFirstOfScanned == Spec => []OldestScannedFirst
<1>1. ASSUME IInv, pc = "delete",
             NEW f \in ToSet(files), NEW g \in ToSet(files),
             Mtime[f] < Mtime[g], g \notin captures
      PROVE  f \notin captures \/ f \in failed
  <2>1. CleanupState /\ files \in Seq(Capture) /\ next \in Nat
    BY <1>1 DEF IInv, CleanupState
  <2>2. PICK i \in 1 .. Len(files) : files[i] = f
    BY <2>1 DEF ToSet
  <2>3. PICK j \in 1 .. Len(files) : files[j] = g
    BY <2>1 DEF ToSet
  <2>4. Mtime[f] \in Nat /\ Mtime[g] \in Nat
    BY <2>1, <2>2, <2>3
  <2>5. i < j
    <3>1. SUFFICES ASSUME ~(i < j)
                   PROVE  FALSE
      OBVIOUS
    <3>2. i = j \/ j < i
      BY <3>1
    <3>3. Mtime[g] <= Mtime[f]
      BY <1>1, <2>1, <2>2, <2>3, <2>4, <3>2, SMTT(30) DEF CleanupState
    <3> QED
      BY <1>1, <2>4, <3>3
  <2>6. j < next
    BY <1>1, <2>1, <2>3 DEF CleanupState
  <2>7. i < next
    BY <2>1, <2>5, <2>6
  <2> QED
    BY <1>1, <2>1, <2>2, <2>7 DEF CleanupState
<1>2. IInv => OldestScannedFirst
  BY <1>1 DEF OldestScannedFirst
<1> QED
  BY <1>2, Invariant, PTL

(* As long as the free space can be read, log_rotate_cleanup removes a        *)
(* capture only from a card that is short of space.                           *)
THEOREM RemovesWhenShort == Spec => RemovesOnlyWhenShort
<1>1. ASSUME IInv, [Next]_vars, pc = "delete", captures' # captures, ~blind
      PROVE  Free < MinFree
  <2>1. PICK ok \in BOOLEAN : RemoveOk(ok)
    BY <1>1 DEF Next, BootGoesOn, Aborts, vars, rest, FlashReady, FlashFails, InitBegins,
         SchemaFound, SchemaUnreadable, SchemaSet, SchemaCommits, SchemaFails, SpiffsTried,
         NoCard, CardReady, ScanFails, ScanEmpty, Scan, RemoveFails, CleanupReturns,
         BootEnds, WriteCapture, RemoveCapture, Deinit, OtherDriver, Reset
  <2>2. free_bytes = Free
    BY <1>1 DEF IInv, CleanupState
  <2> QED
    BY <2>1, <2>2 DEF RemoveOk, MoreToDelete
<1>2. IInv /\ [Next]_vars =>
        [pc = "delete" /\ captures' # captures /\ ~blind => Free < MinFree]_vars
  BY <1>1
<1> QED
  BY <1>2, Invariant, PTL DEF Spec, RemovesOnlyWhenShort

----------------------------------------------------------------------------
(* The sum of the sizes of a set of captures.  MapThenSumSet goes through the  *)
(* set in an order of its own choice, by a recursion over the parts of the    *)
(* set: that it is defined, and that the order does not matter, is shown by   *)
(* taking a smallest set for which it fails.                                  *)

(* A collection of sets of captures has a smallest one: this is what the    *)
(* proofs below use in place of an induction.                               *)
LEMMA Smallest ==
  ASSUME NEW T \in SUBSET (SUBSET Capture), T # {}
  PROVE  \E s \in T : \A u \in T : u \subseteq s => u = s
<1>1. FiniteSubsetsOf(Capture) = SUBSET Capture
  BY FS_FiniteSubsetsOfFinite
<1>2. IsWellFoundedOn(StrictSubsetOrdering(Capture), SUBSET Capture)
  BY <1>1, FS_StrictSubsetOrderingWellFounded, Zenon
<1>3. PICK s \in T : \A u \in T : ~(<<u, s>> \in StrictSubsetOrdering(Capture))
  BY <1>2, WFMin, Zenon
<1>4. \A u \in T : u \subseteq s => u = s
  BY <1>3 DEF StrictSubsetOrdering
<1> QED
  BY <1>4

(* The order in which the sum goes through a set.                            *)
First(S) == CHOOSE x \in S : TRUE
Others(S) == S \ {First(S)}

(* g sums up the sizes of the captures of any part of S.                    *)
Sums(g, S) ==
  g = [s \in SUBSET S |-> IF s = {} THEN 0 ELSE Bytes[First(s)] + g[Others(s)]]

(* It takes the captures one by one.                                         *)
LEMMA FirstIn ==
  ASSUME NEW S, S # {}
  PROVE  First(S) \in S /\ Others(S) \subseteq S /\ Others(S) # S
  BY DEF First, Others

(* Two sums agree where both are defined.                                    *)
LEMMA SumsAgree ==
  ASSUME NEW S \in SUBSET Capture, NEW T \in SUBSET S, NEW g, NEW h, Sums(g, S), Sums(h, T)
  PROVE  g[T] = h[T]
<1> DEFINE W == {s \in SUBSET Capture : s \subseteq T /\ g[s] # h[s]}
<1>1. W = {}
  <2> SUFFICES ASSUME W # {} PROVE FALSE
    OBVIOUS
  <2>1. PICK m \in W : \A s \in W : s \subseteq m => s = m
    <3> HIDE DEF W
    <3>1. W \in SUBSET (SUBSET Capture)
      BY DEF W
    <3> QED
      BY <3>1, Smallest, Zenon
  <2>2. /\ g[m] = IF m = {} THEN 0 ELSE Bytes[First(m)] + g[Others(m)]
        /\ h[m] = IF m = {} THEN 0 ELSE Bytes[First(m)] + h[Others(m)]
    BY <2>1 DEF Sums
  <2>3. m # {}
    BY <2>1, <2>2
  <2>4. Others(m) \notin W
    BY <2>1, <2>3, FirstIn, Zenon
  <2>5. g[Others(m)] = h[Others(m)]
    BY <2>1, <2>3, <2>4, FirstIn
  <2> QED
    BY <2>1, <2>2, <2>3, <2>5, Zenon
<1> QED
  BY <1>1

(* There is a sum over every set of captures.                                *)
LEMMA SumsExist ==
  ASSUME NEW S \in SUBSET Capture
  PROVE  \E g : Sums(g, S)
<1> DEFINE W == {s \in SUBSET Capture : ~ \E g : Sums(g, s)}
<1> SUFFICES ASSUME W # {} PROVE FALSE
  OBVIOUS
<1>1. PICK m \in W : \A s \in W : s \subseteq m => s = m
  <2> HIDE DEF W
  <2>1. W \in SUBSET (SUBSET Capture)
    BY DEF W
  <2> QED
    BY <2>1, Smallest, Zenon
<1>2. \A s \in SUBSET m : s # m => \E g : Sums(g, s)
  BY <1>1
<1> DEFINE H(s) == CHOOSE g : Sums(g, s)
<1>3. \A s \in SUBSET m : s # m => Sums(H(s), s)
  BY <1>2, Zenon
<1> HIDE DEF H
<1> DEFINE total == IF m = {} THEN 0 ELSE Bytes[First(m)] + H(Others(m))[Others(m)]
           g == [s \in SUBSET m |-> IF s = m THEN total ELSE H(s)[s]]
<1>4. \A s \in SUBSET m : g[s] = IF s = {} THEN 0 ELSE Bytes[First(s)] + g[Others(s)]
  <2> SUFFICES ASSUME NEW s \in SUBSET m
               PROVE  g[s] = IF s = {} THEN 0 ELSE Bytes[First(s)] + g[Others(s)]
    OBVIOUS
  <2>1. s # {} => First(s) \in s /\ Others(s) \in SUBSET m /\ Others(s) \subseteq s /\ Others(s) # m
    BY FirstIn
  <2>2. CASE s = m
    BY <2>1, <2>2
  <2>3. CASE s # m
    <3>1. Sums(H(s), s) /\ g[s] = H(s)[s]
      BY <1>3, <2>3
    <3>2. H(s)[s] = IF s = {} THEN 0 ELSE Bytes[First(s)] + H(s)[Others(s)]
      BY <3>1 DEF Sums
    <3>3. ASSUME s # {} PROVE H(s)[Others(s)] = g[Others(s)]
      <4> DEFINE o == Others(s)
                 a == H(s)
                 b == H(o)
      <4>1. Sums(b, o) /\ g[o] = b[o]
        BY <1>3, <2>1, <3>3
      <4>2. Sums(a, s) /\ s \in SUBSET Capture /\ o \in SUBSET s
        BY <1>1, <2>1, <3>1, <3>3
      <4> HIDE DEF o, a, b, g, W, total
      <4>3. a[o] = b[o]
        BY <4>1, <4>2, SumsAgree
      <4> QED
        BY <4>1, <4>3, Zenon DEF o, a, b
    <3> QED
      BY <3>1, <3>2, <3>3
  <2> QED
    BY <2>2, <2>3
<1>5. g = [s \in SUBSET m |-> IF s = {} THEN 0 ELSE Bytes[First(s)] + g[Others(s)]]
  <2>1. g = [s \in SUBSET m |-> g[s]]
    BY Zenon
  <2> HIDE DEF g
  <2> QED
    BY <2>1, <1>4, Zenon
<1>6. Sums(g, m)
  BY <1>5, Zenon DEF Sums
<1> QED
  BY <1>6, <1>1

(* So BytesOf satisfies the equation it is defined by.                       *)
LEMMA BytesOfIs ==
  ASSUME NEW S \in SUBSET Capture
  PROVE  /\ S = {} => BytesOf[S] = 0
         /\ S # {} => BytesOf[S] = Bytes[First(S)] + BytesOf[Others(S)]
<1>1. ASSUME NEW T \in SUBSET Capture
      PROVE  /\ Sums(CHOOSE g : Sums(g, T), T)
             /\ BytesOf[T] = (CHOOSE g : Sums(g, T))[T]
  <2>1. \E g : Sums(g, T)
    BY SumsExist
  <2>2. BytesOf[T] = MapThenSumSet(LAMBDA f : Bytes[f], T)
    BY DEF BytesOf
  <2>3. MapThenSumSet(LAMBDA f : Bytes[f], T) = (CHOOSE g : Sums(g, T))[T]
    BY Zenon DEF MapThenSumSet, MapThenFoldSet, Sums, First, Others
  <2> QED
    BY <2>1, <2>2, <2>3, Zenon
<1> DEFINE g == CHOOSE g : Sums(g, S)
<1>2. Sums(g, S) /\ BytesOf[S] = g[S]
  BY <1>1, Zenon
<1>3. ASSUME S # {}
      PROVE  BytesOf[Others(S)] = g[Others(S)]
  <2> DEFINE h == CHOOSE h : Sums(h, Others(S))
  <2>1. Others(S) \in SUBSET Capture /\ Others(S) \in SUBSET S
    BY <1>3, FirstIn
  <2>2. Sums(h, Others(S)) /\ BytesOf[Others(S)] = h[Others(S)]
    BY <1>1, <2>1, Zenon
  <2> HIDE DEF g, h
  <2> QED
    BY <1>2, <2>1, <2>2, SumsAgree, Zenon
<1> HIDE DEF g, BytesOf
<1>4. g[S] = IF S = {} THEN 0 ELSE Bytes[First(S)] + g[Others(S)]
  BY <1>2 DEF Sums
<1> QED
  BY <1>2, <1>3, <1>4, Zenon

(* Captures take a number of bytes.                                          *)
LEMMA BytesOfNat ==
  ASSUME NEW S \in SUBSET Capture
  PROVE  BytesOf[S] \in Nat
<1> DEFINE W == {s \in SUBSET Capture : BytesOf[s] \notin Nat}
<1> SUFFICES ASSUME W # {} PROVE FALSE
  OBVIOUS
<1>1. PICK m \in W : \A s \in W : s \subseteq m => s = m
  <2> HIDE DEF W
  <2>1. W \in SUBSET (SUBSET Capture)
    BY DEF W
  <2> QED
    BY <2>1, Smallest, Zenon
<1> HIDE DEF BytesOf
<1>2. m # {}
  <2>1. {} \in SUBSET Capture
    OBVIOUS
  <2>2. BytesOf[{}] = 0 /\ 0 \in Nat
    BY <2>1, BytesOfIs, Zenon
  <2>3. BytesOf[m] \notin Nat
    BY <1>1
  <2> QED
    BY <2>2, <2>3, Zenon
<1>3. First(m) \in m /\ Others(m) \in SUBSET Capture /\ Others(m) \subseteq m /\ Others(m) # m
  BY <1>1, <1>2, FirstIn
<1>4. BytesOf[Others(m)] \in Nat
  BY <1>1, <1>3
<1>5. BytesOf[m] = Bytes[First(m)] + BytesOf[Others(m)]
  BY <1>1, <1>2, BytesOfIs
<1>6. Bytes[First(m)] \in Nat
  BY <1>1, <1>3
<1>7. BytesOf[m] \in Nat
  BY <1>4, <1>5, <1>6
<1> QED
  BY <1>1, <1>7

(* The sizes add up in any order.                                            *)
LEMMA BytesOfSplit ==
  ASSUME NEW S \in SUBSET Capture, NEW c \in S
  PROVE  BytesOf[S] = Bytes[c] + BytesOf[S \ {c}]
<1> DEFINE W == {s \in SUBSET Capture : \E x \in s : BytesOf[s] # Bytes[x] + BytesOf[s \ {x}]}
<1> SUFFICES ASSUME W # {} PROVE FALSE
  OBVIOUS
<1>1. PICK m \in W : \A s \in W : s \subseteq m => s = m
  <2> HIDE DEF W
  <2>1. W \in SUBSET (SUBSET Capture)
    BY DEF W
  <2> QED
    BY <2>1, Smallest, Zenon
<1>2. PICK x \in m : BytesOf[m] # Bytes[x] + BytesOf[m \ {x}]
  BY <1>1
<1> HIDE DEF BytesOf
<1> DEFINE y == First(m)
           both == m \ {x, y}
<1>3. /\ y \in m /\ Others(m) = m \ {y} /\ m \in SUBSET Capture
      /\ BytesOf[m] = Bytes[y] + BytesOf[m \ {y}]
  BY <1>1, <1>2, FirstIn, BytesOfIs DEF Others
<1> HIDE DEF y
<1>4. x # y
  BY <1>2, <1>3
<1>5. m \ {x} \notin W /\ m \ {y} \notin W
  BY <1>1, <1>2, <1>3
<1>6. BytesOf[m \ {y}] = Bytes[x] + BytesOf[both]
  <2>1. x \in m \ {y} /\ (m \ {y}) \ {x} = both /\ m \ {y} \in SUBSET Capture
    BY <1>2, <1>3, <1>4
  <2> QED
    BY <1>5, <2>1, Zenon
<1>7. BytesOf[m \ {x}] = Bytes[y] + BytesOf[both]
  <2>1. y \in m \ {x} /\ (m \ {x}) \ {y} = both /\ m \ {x} \in SUBSET Capture
    BY <1>2, <1>3, <1>4
  <2> QED
    BY <1>5, <2>1, Zenon
<1>8. BytesOf[both] \in Nat /\ Bytes[x] \in Nat /\ Bytes[y] \in Nat
  BY <1>2, <1>3, BytesOfNat
<1> QED
  BY <1>2, <1>3, <1>6, <1>7, <1>8

----------------------------------------------------------------------------
(* The types.  What makes the byte counts of the health report and of the     *)
(* cleanup numbers of bytes of this card is that the captures fit on it.      *)
Fits == captures \subseteq Capture /\ BytesOf[captures] <= CardBytes

Places ==
  /\ pc \in Booting \cup {"reset", "panic", "down", "up"}
  /\ schema \in {"absent", "pending", "present"}
  /\ bus \in {"free", "ours", "other"}

Counts ==
  /\ failed \subseteq Capture /\ before \subseteq Capture
  /\ Len(files) <= Slots /\ next <= Slots + 1 /\ deleted \in 0 .. MaxDelete
  /\ sd_free_bytes \in 0 .. CardBytes /\ free_bytes \in 0 .. CardBytes

(* What is left of the card is between nothing and all of it.                 *)
LEMMA Room ==
  /\ Fits => Free \in 0 .. CardBytes
  /\ Fits' => Free' \in 0 .. CardBytes
<1>1. ASSUME NEW S \in SUBSET Capture, BytesOf[S] <= CardBytes
      PROVE  CardBytes - BytesOf[S] \in 0 .. CardBytes
  <2>1. BytesOf[S] \in Nat
    BY BytesOfNat
  <2> QED
    BY <1>1, <2>1
<1> QED
  BY <1>1 DEF Fits, Free

(* Each step leaves pc, the schema version and the bus at one of their values. *)
LEMMA PlacesKept ==
  ASSUME Places, [Next]_vars
  PROVE  Places'
<1>1. CASE UNCHANGED <<pc, schema, bus>>
  BY <1>1 DEF Places
<1>2. CASE FlashReady \/ FlashFails \/ InitBegins \/ Deinit \/ Reset \/ OtherDriver
  BY <1>2 DEF Places, FlashReady, FlashFails, InitBegins, Deinit, Reset, OtherDriver, Booting,
              rest, card, nvs, NvsDeinit, Opens
<1>3. CASE SchemaFound \/ SchemaUnreadable \/ SchemaSet \/ SchemaCommits \/ SchemaFails
  BY <1>3 DEF Places, SchemaFound, SchemaUnreadable, SchemaSet, SchemaCommits, SchemaFails,
              Booting, rest, card, nvs
<1>4. CASE SpiffsTried \/ NoCard \/ ScanFails \/ ScanEmpty \/ RemoveFails \/ CleanupReturns
  BY <1>4 DEF Places, SpiffsTried, NoCard, MountFails, ScanFails, ScanEmpty, RemoveFails,
              CleanupReturns, Booting, card, nvs
<1>5. ASSUME NEW ok \in BOOLEAN, CardReady(ok) \/ Scan(ok) \/ RemoveOk(ok) \/ BootEnds(ok)
      PROVE  Places'
  BY <1>5 DEF Places, CardReady, MountOk, Scan, RemoveOk, BootEnds, Booting, card, nvs
<1>6. CASE \E f \in Capture : WriteCapture(f) \/ RemoveCapture(f)
  BY <1>6, <1>1 DEF WriteCapture, RemoveCapture, card, nvs
<1>7. CASE UNCHANGED vars
  BY <1>7, <1>1 DEF vars, card, nvs
<1> QED
  BY <1>2, <1>3, <1>4, <1>5, <1>6, <1>7 DEF Next, BootGoesOn, Aborts

(* A capture is written only where there is room for it.                      *)
LEMMA FitsKept ==
  ASSUME Fits, [Next]_vars
  PROVE  Fits'
<1>1. CASE UNCHANGED captures
  BY <1>1 DEF Fits
<1>2. ASSUME NEW f \in captures, captures' = captures \ {f}
      PROVE  Fits'
  <2>1. BytesOf[captures] = Bytes[f] + BytesOf[captures \ {f}]
    BY <1>2, BytesOfSplit DEF Fits
  <2>2. Bytes[f] \in Nat /\ BytesOf[captures \ {f}] \in Nat
    BY <1>2, BytesOfNat DEF Fits
  <2> QED
    BY <1>2, <2>1, <2>2 DEF Fits
<1>3. ASSUME NEW f \in Capture, WriteCapture(f)
      PROVE  Fits'
  <2>1. /\ f \notin captures /\ captures' = captures \cup {f}
        /\ Bytes[f] <= CardBytes - BytesOf[captures]
    BY <1>3 DEF WriteCapture, Free
  <2>2. captures' \in SUBSET Capture /\ f \in captures' /\ captures' \ {f} = captures
    BY <2>1 DEF Fits
  <2>3. BytesOf[captures'] = Bytes[f] + BytesOf[captures]
    BY <2>2, BytesOfSplit
  <2>4. Bytes[f] \in Nat /\ BytesOf[captures] \in Nat
    BY BytesOfNat DEF Fits
  <2> QED
    BY <2>1, <2>2, <2>3, <2>4 DEF Fits
<1>4. ASSUME NEW f \in Capture, RemoveCapture(f)
      PROVE  Fits'
  BY <1>2, <1>4 DEF RemoveCapture
<1>5. ASSUME NEW ok \in BOOLEAN, RemoveOk(ok)
      PROVE  Fits'
  <2>1. captures' = captures \ {files[next]}
    BY <1>5 DEF RemoveOk
  <2> QED
    BY <1>1, <1>2, <2>1
<1>6. \/ UNCHANGED captures
      \/ \E ok \in BOOLEAN : RemoveOk(ok)
      \/ \E f \in Capture : WriteCapture(f) \/ RemoveCapture(f)
  BY DEF Next, BootGoesOn, vars, rest, cleanup, FlashReady, FlashFails, Aborts, InitBegins,
         SchemaFound, SchemaUnreadable, SchemaSet, SchemaCommits, SchemaFails, SpiffsTried,
         NoCard, CardReady, ScanFails, ScanEmpty, Scan, RemoveFails, CleanupReturns, BootEnds,
         Deinit, OtherDriver, Reset
<1> QED
  BY <1>1, <1>3, <1>4, <1>5, <1>6

(* The array never holds more than its entries, and the counters of the loop  *)
(* stop at their limits.                                                      *)
LEMMA CountsKept ==
  ASSUME IInv, Fits, Fits', Counts, [Next]_vars
  PROVE  Counts'
<1>1. Free \in 0 .. CardBytes /\ Free' \in 0 .. CardBytes
  BY Room
<1>2. files \in Seq(Capture) /\ next \in Nat /\ captures \subseteq Capture
  BY DEF IInv, CleanupState
<1>3. CASE UNCHANGED <<sd_free_bytes, cleanup>>
  BY <1>3 DEF Counts, cleanup
<1>4. CASE sd_free_bytes' \in {0, sd_free_bytes, Free} /\ UNCHANGED cleanup
  BY <1>1, <1>4 DEF Counts, cleanup
<1>5. CASE sd_free_bytes' \in {0, sd_free_bytes} /\ NoLocals
  BY <1>5 DEF Counts, NoLocals
<1>6. ASSUME NEW ok \in BOOLEAN, Scan(ok)
      PROVE  Counts'
  <2>1. PICK S \in Scanned : files' \in Sorted(S)
    BY <1>6 DEF Scan
  <2>2. Cardinality(S) \in Nat /\ Cardinality(S) <= Slots
    <3>1. S \in SUBSET Capture
      BY <1>2, ScannedCaptures
    <3>2. Cardinality(S) \in Nat
      BY <3>1, FS_Subset, FS_CardinalityType
    <3> QED
      BY <3>2, <2>1 DEF Scanned, kSubset
  <2>3. Len(files') <= Slots
    <3>1. files' \in [1 .. Cardinality(S) -> S]
      BY <2>1 DEF Sorted, SetToSeqs
    <3> QED
      BY <3>1, <2>2
  <2>4. free_bytes' \in 0 .. CardBytes
    BY <1>1, <1>6 DEF Scan, Query
  <2>5. next' = 1 /\ deleted' = 0 /\ failed' = {} /\ before' \subseteq Capture /\ UNCHANGED sd_free_bytes
    BY <1>2, <1>6 DEF Scan, health
  <2> QED
    BY <2>3, <2>4, <2>5 DEF Counts
<1>7. ASSUME NEW ok \in BOOLEAN, RemoveOk(ok)
      PROVE  Counts'
  <2>1. /\ next <= Len(files) /\ deleted < MaxDelete
        /\ deleted' = deleted + 1 /\ next' = next + 1
        /\ free_bytes' \in {Free', free_bytes}
        /\ UNCHANGED <<files, failed, before, sd_free_bytes>>
    BY <1>7 DEF RemoveOk, MoreToDelete, health
  <2> QED
    BY <1>1, <1>2, <2>1 DEF Counts
<1>8. CASE RemoveFails
  <2>1. /\ next \in 1 .. Len(files) /\ next' = next + 1 /\ failed' = failed \cup {files[next]}
        /\ UNCHANGED <<files, deleted, free_bytes, before, sd_free_bytes>>
    BY <1>2, <1>8 DEF RemoveFails, MoreToDelete, health, IInv, CleanupState
  <2>2. files[next] \in Capture
    BY <1>2, <2>1
  <2> QED
    BY <1>2, <2>1, <2>2 DEF Counts
<1>9. CASE InitBegins \/ Deinit \/ (\E ok \in BOOLEAN : CardReady(ok) \/ BootEnds(ok))
  BY <1>4, <1>9 DEF InitBegins, Deinit, CardReady, BootEnds, Query, NoHealth
<1>10. CASE CleanupReturns \/ Reset
  BY <1>5, <1>10 DEF CleanupReturns, Reset, NoHealth, health
<1>11. CASE \/ FlashReady \/ FlashFails \/ SchemaFound \/ SchemaUnreadable \/ SchemaSet
            \/ SchemaCommits \/ SchemaFails
  BY <1>3, <1>11 DEF FlashReady, FlashFails, SchemaFound, SchemaUnreadable, SchemaSet,
                     SchemaCommits, SchemaFails, rest, health
<1>12. CASE \/ SpiffsTried \/ NoCard \/ ScanFails \/ ScanEmpty \/ OtherDriver
            \/ \E f \in Capture : WriteCapture(f) \/ RemoveCapture(f)
  BY <1>3, <1>12 DEF SpiffsTried, NoCard, ScanFails, ScanEmpty, OtherDriver, WriteCapture,
                     RemoveCapture, health
<1>13. CASE UNCHANGED vars
  BY <1>3, <1>13 DEF vars, health
<1> QED
  BY <1>6, <1>7, <1>8, <1>9, <1>10, <1>11, <1>12, <1>13 DEF Next, BootGoesOn, Aborts

(* The variables have their types: in particular no free space is reported    *)
(* beyond what the card has, the array of log_rotate_cleanup takes no more    *)
(* than its entries, and one call removes no more than max_delete captures.   *)
THEOREM TypeCorrect == Spec => []TypeOK
<1> DEFINE TInv == Fits /\ Places /\ Counts
<1>1. Init => TInv
  <2> SUFFICES ASSUME Init PROVE TInv
    OBVIOUS
  <2>1. BytesOf[{}] = 0
    BY BytesOfIs
  <2>2. Fits
    BY <2>1 DEF Init, Fits
  <2>3. Places /\ Counts
    BY DEF Init, Places, Counts
  <2> QED
    BY <2>2, <2>3
<1>2. IInv /\ TInv /\ [Next]_vars => TInv'
  BY FitsKept, PlacesKept, CountsKept
<1>3. IInv /\ TInv => TypeOK
  <2> SUFFICES ASSUME IInv, TInv PROVE TypeOK
    OBVIOUS
  <2>1. next \in 1 .. Slots + 1
    BY DEF IInv, CleanupState, Counts
  <2>2. nvs_handle \in Handle \cup {0} /\ handles \subseteq Handle
    BY DEF IInv, NvsState, NvsReady
  <2>3. /\ nvs_initialized \in BOOLEAN /\ spiffs_mounted \in BOOLEAN /\ mounted \in BOOLEAN
        /\ bus_owned \in BOOLEAN /\ blind \in BOOLEAN
        /\ nvs_ready \in BOOLEAN /\ spiffs_ready \in BOOLEAN /\ sd_ready \in BOOLEAN
    BY DEF IInv, Flags
  <2>4. \A b \in {nvs_initialized, spiffs_mounted, mounted, bus_owned, blind} : b \in BOOLEAN
    BY <2>3, Zenon
  <2> QED
    BY <2>1, <2>2, <2>3, <2>4 DEF TypeOK, IInv, CleanupState, Fits, Places, Counts
<1> QED
  BY <1>1, <1>2, <1>3, Invariant, PTL DEF Spec

(* A boot that has begun makes at most Slots + 7 steps: spectra_storage_init  *)
(* goes through its stages once, and the loop of log_rotate_cleanup through   *)
(* the entries of its array, whatever fails.  The half of BootTerminates that *)
(* needs no fairness.                                                         *)
THEOREM BootsInBoundedSteps == Spec => BootAdvances
<1> DEFINE A == (pc \in Booting) => StepsLeft \in 1 .. Slots + 7 /\ StepsLeft' < StepsLeft
<1>1. IInv /\ TypeOK /\ TypeOK' /\ [Next]_vars => [A]_vars
  <2> SUFFICES ASSUME IInv, TypeOK, TypeOK', Next, pc \in Booting
               PROVE  StepsLeft \in 1 .. Slots + 7 /\ StepsLeft' < StepsLeft
    OBVIOUS
  <2>1. /\ Len(files) \in 0 .. Slots /\ Len(files') \in 0 .. Slots
        /\ next \in Nat \ {0} /\ (pc = "delete" => next <= Len(files) + 1)
    BY DEF TypeOK, IInv, CleanupState
  <2>2. StepsLeft \in 1 .. Slots + 7
    <3>1. CASE pc = "delete"
      <4>1. StepsLeft = Len(files) - next + 3
        BY <3>1 DEF StepsLeft
      <4> QED
        BY <3>1, <4>1, <2>1
    <3>2. CASE pc \in {"health", "scan", "card", "mount", "commit", "schema"}
      <4>1. StepsLeft \in {1, Slots + 3, Slots + 4, Slots + 5, Slots + 6, Slots + 7}
        BY <3>2 DEF StepsLeft
      <4> QED
        BY <4>1
    <3> QED
      BY <3>1, <3>2 DEF Booting
  <2>3. CASE SchemaFound \/ SchemaUnreadable \/ SchemaSet \/ SchemaCommits \/ SchemaFails
    BY <2>3 DEF SchemaFound, SchemaUnreadable, SchemaSet, SchemaCommits, SchemaFails, StepsLeft
  <2>4. CASE SpiffsTried \/ NoCard \/ ScanFails \/ ScanEmpty
    <3>1. \/ pc = "mount" /\ pc' = "card"
          \/ pc = "card" /\ pc' = "up"
          \/ pc = "scan" /\ pc' = "health"
      BY <2>4 DEF SpiffsTried, NoCard, ScanFails, ScanEmpty
    <3> QED
      BY <3>1 DEF StepsLeft
  <2>5. ASSUME NEW ok \in BOOLEAN, CardReady(ok)
        PROVE  StepsLeft' < StepsLeft
    <3>1. pc = "card" /\ pc' \in {"up", "scan"}
      BY <2>5 DEF CardReady
    <3> QED
      BY <3>1 DEF StepsLeft
  <2>6. ASSUME NEW ok \in BOOLEAN, Scan(ok)
        PROVE  StepsLeft' < StepsLeft
    <3>1. pc = "scan" /\ pc' = "delete" /\ next' = 1
      BY <2>6 DEF Scan
    <3> QED
      BY <3>1, <2>1 DEF StepsLeft
  <2>7. CASE RemoveFails \/ \E ok \in BOOLEAN : RemoveOk(ok)
    <3>1. pc = "delete" /\ pc' = "delete" /\ next' = next + 1 /\ files' = files
      BY <2>7 DEF RemoveFails, RemoveOk
    <3> QED
      BY <3>1, <2>1, SMTT(30) DEF StepsLeft
  <2>8. CASE CleanupReturns
    <3>1. pc = "delete" /\ pc' = "health"
      BY <2>8 DEF CleanupReturns
    <3> QED
      BY <3>1, <2>1 DEF StepsLeft
  <2>9. CASE Reset \/ \E ok \in BOOLEAN : BootEnds(ok)
    <3>1. pc' \in {"reset", "up"}
      BY <2>9 DEF Reset, BootEnds
    <3> QED
      BY <3>1, <2>2 DEF StepsLeft
  <2>10. ~ \/ FlashReady \/ FlashFails \/ InitBegins \/ Deinit \/ OtherDriver
           \/ \E f \in Capture : WriteCapture(f) \/ RemoveCapture(f)
    BY DEF FlashReady, FlashFails, InitBegins, Deinit, OtherDriver, WriteCapture, RemoveCapture, Booting
  <2> QED
    BY <2>2, <2>3, <2>4, <2>5, <2>6, <2>7, <2>8, <2>9, <2>10 DEF Next, BootGoesOn, Aborts
<1> QED
  BY <1>1, Invariant, TypeCorrect, PTL DEF Spec, BootAdvances
=============================================================================
