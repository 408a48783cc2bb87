# SPECTRA firmware: TLA+ models and proofs

TLA+ specifications of the SPECTRA ESP32-C5 firmware (`src/`), checked with TLC
on small instances, with the safety properties of every modelled component, the
two refinements, and bounds on the calls that must end proved by TLAPS for all
values of the constants. Every definition that stands for code is
listed in `PROJECT.json` under `map` with the lines it models.

Contents: [inventory](#1-inventory), [modules](#2-modules),
[runs](#3-runs), [bounds](#4-bounds), [fairness](#5-fairness),
[proofs](#6-proofs), [differences from the documents](#7-where-the-code-differs-from-its-documents),
[not modelled](#8-what-is-not-modelled), [plan](#9-plan).

## 1. Inventory

The firmware is C on ESP-IDF and FreeRTOS, preemptive on one RISC-V core. Four
tasks matter: the main task (priority 1) that runs `app_main` and ends, the GUI
task (3), the CLI task (5), and the timer task of FreeRTOS, which runs the blink
callback of the LED. There are no unit tests; the documents under `src/docs` say
what each part is for.

| Component | State it keeps | Operations | What makes it correct |
|---|---|---|---|
| `packet_buffer` | byte ring: `head`, `tail`, `used_bytes`, storage, counters | init, deinit, push, pop, flush | a FIFO of whole packets; no packet is overwritten; the corruption guards never fire by themselves |
| `pcap_writer` | open file, index of the series, bytes and packets of the file and of the session | open, write_packet, close | the acknowledged packets can be read back from the files, once and in order; files below the threshold, closed files left alone, readable files |
| `packet_stats` | totals, counts per type and subtype, histogram, a window of one second | init, on_packet, snapshot, print | each count is of what it is labelled with; the rate is that of one second, those that are counted follow one another |
| `packet_filter` | none | match | |
| `gui_main`, `gui_events` | flags, task handle, mutex, queue handle | init, start, stop, deinit, the task's loop; send, receive | one task at a time, stopped before its queue goes; handles never dangle; events are consumed |
| `spectra_storage`, `log_rotate`, `sd_card` | health record; none; mount flag and bus ownership | init, deinit; check, cleanup; mount, free space | boot ends whatever fails; health is true; oldest captures go first, only when space is short; the SPI bus is given back |
| `nvs_mgr`, `spiffs_mgr` | handle and flag; flag | init, deinit, store, load; init, deinit | ready only over a committed schema; what was stored is what is loaded |
| `cli_engine` | history ring, script depth | dispatch, set, get, script, reboot | scripts end, abort together, and give their level back; the ring holds the last lines |
| `wifi_engine`, `wifi_scanner` | flags, two interface handles; buffers of a scan | init, start, stop, deinit; scan, free | flags say what the driver does, handles never dangle, no memory is lost |
| `led_status` | flag, mode, timer and pin; commands in the timer task's queue | init, set_mode, deinit; the callback | timer and pin are given back, no timer is used after its delete, one blinks, the mode is shown |
| `mac_utils`, `oui_lookup`, `time_utils` | none; a table of vendors | formatting and parsing; load, lookup | the first line of the file wins, then the builtin table |
| `main`, `core_system` | none | `app_main`: flash of the NVS, storage, GUI, CLI, restart on an error | the boot ends |
| `radio_ble`, `radio_802154`, `web` | none | | placeholders |

How they interact. `app_main` initializes the flash of the NVS, storage, GUI and
CLI in this order and ends; any error there restarts the chip.
`spectra_storage_init` calls `nvs_mgr_init`, `spiffs_mgr_init` and `sd_card_init`,
then `log_rotate_check` and `log_rotate_cleanup`, which ask `sd_card` for the
free space. The CLI reads and writes `nvs_mgr` and reads files on the card. The
GUI task gets its work through the event queue, the LED's timer its through the
command queue of the timer task. The packet engine is not yet wired to a radio:
the buffer is meant to sit between a capture task and the task that filters,
counts and exports, `pcap_writer` behind it on the card. `wifi_scan_ap` brings
the engine up itself.

Hard behaviours: the byte arithmetic of the ring over long sequences of calls;
two tasks on one buffer without a lock; short writes and files that cannot be
opened; the races between `gui_stop`, the GUI task and clients of the queue;
commands to a timer that wait, or are lost, in a queue while their sender goes
on; resets and failures of NVS and card in the middle of the boot; recursion of
scripts; retries after an initialization that failed half-way; packets of
several radios out of order. `PROJECT.json` lists them one by one under
`hazards`, each at its line, with the properties about it or the reason why
there is none.

## 2. Modules

| Module | Models |
|---|---|
| `PacketQueue` | abstract: a queue of packets and the reply of the last call |
| `PacketBuffer` | `packet_buffer.c`, one call per step, down to bytes and offsets; refines `PacketQueue` |
| `PacketBufferSPSC` | the same code with a producer and a consumer that preempt each other between a load and a store of `used_bytes` |
| `CaptureLog` | abstract: the packets taken since a capture was opened, in order; a failed call may leave it damaged, and a damaged log may lose what it acknowledges |
| `PcapWriter` | `pcap_writer.c`, one call per step, with the failures of `fopen` and `fwrite`; refines `CaptureLog` |
| `PacketStats` | `packet_stats.c`, one report per step, times in any order |
| `GuiLifecycle` | `gui_main.c` and `gui_events.c`: a controller, the GUI task, clients and time |
| `LedStatus` | `led_status.c`: the owner, the timer task, its command queue and the callback |
| `Storage` | the boot: the NVS flash part of `app_main`, `spectra_storage.c`, `nvs_mgr` and `spiffs_mgr` init and deinit, mounting and free space of `sd_card.c`, `log_rotate.c`; resets at any step |
| `CliEngine` | `cli_engine.c`: dispatch, history, scripts, set, get, reboot |
| `WifiEngine` | `wifi_engine.c`, `wifi_scanner.c`, a scan call by call |
| `...Proofs` | the theorems about `PacketBuffer`, `PcapWriter`, `PacketStats`, `GuiLifecycle`, `LedStatus`, `Storage`, `CliEngine`, `WifiEngine` |
| `MC...` | the instance of each of them for TLC |

Operators named `Mutant...` are the definition that follows them with a bug put
in; nothing uses them, they show which slip each property would catch.

**PacketBuffer.** Storage is a function from offsets to cells: zero, first byte
of a record, or another byte of one. A header read at a byte of the last kind
yields `Alias[p]`, what the payload happens to decode to, which is arbitrary;
so a wrong offset can give a plausible record, as in memory. `size_t`
subtraction wraps (`Minus`). `compact_tail` is a loop in the code and one
round in the model: `NeverCorrupt` says that after one skipped pad there is
always a record, so a second round would find nothing to skip. `live` and
`discarded` are history variables that say where each packet was put.
The second guard in `packet_buffer_pop` (lines 212-219) repeats two tests of the
one in the loop and has no action of its own.

**PacketBufferSPSC.** A step is one access to `used_bytes`. Accesses to what one
side alone uses join a neighbouring step, which loses no behaviour of the
shared variables.

**PcapWriter.** A file is what a reader makes of it: the global header, the
packets of the records before the first fragment, the bytes up to there
(`whole`), the bytes from there on (`tail`), and whether a whole record lies
behind a fragment (`broken`). A short `fwrite` leaves any part of the record:
`WithFragment` lengthens the file by it, and no counter knows. From a fragment
on a reader has lost the record boundaries, so what is written behind it adds to
`tail` and to the counters, and not to `packets`. Buffering by stdio is not
modelled: a write is done when `fwrite` returned in full. A reader who takes the
files of the session one after the other has read `Reading` after the first `n`
of them and `Recorded` in the end.

What the code promises of a capture ends where a caller writes on after an
`ESP_FAIL`, and each property says what holds on either side. Until then the
counters are the size of the file and the totals are what a reader finds;
afterwards both exceed what he finds, and the counter of the file falls short of
its size, so the split test sees less than there is. `SplitBound` is about
`whole`: the size, for a file without a fragment. `CaptureLog` knows neither
files nor counters: a call takes a packet, clears the log, or refuses and loses
nothing; a refusal may leave the log damaged, and then packets are acknowledged
and lost (`Lose`) until one is taken again, which is in the next file. That
packets are lost at all is the finding `pcap_standard`.

**PacketStats.** `seen` is a history variable with every report since init; the
properties count in it. A type or subtype beyond its array is in the total only,
a signal strength beyond the histogram in an outer bin, as in the code. The
widths of the counters are not modelled.

**GuiLifecycle.** FreeRTOS objects are numbered and handles are numbers, so a
handle to a deleted object differs from the object that is there. Two rigid
variables hold what the code leaves to its callers: `outranked`, the lifecycle
is called from below the priority of the GUI task, as by `app_main`; and
`quiescent`, no client is inside `gui_event_send` during `gui_deinit`.
Properties that need one of them say so. `gui_stop`, `gui_deinit` and
`gui_event_send` are cut where a preemption matters.

**LedStatus.** Timers are numbered like the objects of the GUI. `xTimerStart`,
`xTimerStop` and `xTimerDelete` append a command if there is room and are lost
if not (the code posts with no wait); other users of the timer service take
room too. The owner's calls and the callback are cut where one can preempt the
other, and the callback keeps what it read in locals. `lost` is a history
variable with the timers whose delete met a full queue, in `led_status_deinit` or
in the undo of a start that the same queue refused: their handle is gone and they
stay, a loss the code does not see. The properties say that nothing else is lost
with them: every other timer is the owner's or has its delete under way. One task
owns the LED, as the code expects: nothing in the tree calls it from two.

**Storage.** `nvs_mgr_init` and `log_rotate_cleanup` are step by step, and `Reset`
may come between any two steps: it clears the memory, and the schema version
that was set and not committed may or may not have reached the flash.
`f_getfree`, `remove`, `opendir`, mounting and the calls of the NVS may fail each
time. That unmounting and `spi_bus_free` succeed is assumed, in a failed mount
and in the deinit: their results are dropped by the code. GUI and CLI do not run yet, so there is one task. `spectra_storage_init`
may be called again, or after a deinit.

**CliEngine.** The recursion of `cmd_script` is the sequence `stack`. A script
is the sequence of pieces `fgets` reads, which are the commands that run.

**WifiEngine.** A network interface is the number it was created with, the access
points found are a number. The driver is modelled from how the code uses it: a
call goes through or fails, and `ESP_ERR_WIFI_CONN` counts as a start because the
code takes it as one.

Calls with NULL arguments return before they touch anything and are left out
everywhere, as are logging, formatting and the branches disabled by `#if`.

## 3. Runs

Passing runs:

| Run | Checks |
|---|---|
| `packet_buffer` | `RecordsIntact` no held packet is overwritten; `RecordsChained` records lie in order and `used_bytes` counts them and the pads; `RingConsistent` head, tail, used agree; `NeverCorrupt` the guards of pop cannot fire; `EmptyTakesHalf` an empty buffer takes each frame of at most half its capacity; `QueueSpec` refinement of `PacketQueue` |
| `pcap_writer` | `SplitBound` what a reader gets of a file ends below the threshold; `CountersMatchFile` the counters against the last file, and how far they are from it once a record lies behind a fragment; `TotalsMatchFiles` the same of the totals and what a reader finds in the files; `ClosedFilesFrozen` (action); `LogSpec` refinement of `CaptureLog` |
| `packet_stats` | `CountsAsLabelled` every counter against the reports, every bin against the range it is printed with; `WindowIsASecond` for packets in order the rate is that of a whole second, one of those that follow one another from the first packet on, however long nothing came, and a sliding second lies between the count going on and that plus the rate; `WindowHoldsLatest` in any order the window is made of the latest reports |
| `gui_lifecycle` | `InitAllOrNothing`; `OneGuiTask`; `RunningMatchesTask`; `StopIsGraceful`, the fallback `vTaskDelete` is never needed below the task's priority; `NoDanglingQueue`; `EventsConsumed` (liveness) |
| `led_status` | `LedAllOrNothing` handle, pin and timers after each call; `NoUseAfterDelete`; `OneBlinker` among the timers whose delete did not meet a full queue; `AttackShown` (liveness), in the one steady mode the LED ends up on, whatever level a preempted callback still had in hand |
| `storage` | types; `HealthTrue`; `BusOwnership`; `OldestScannedFirst`; `NvsReady`; `RemovesOnlyWhenShort` (action); `BootAdvances` (action) every step of a boot lowers a bounded count; `BootTerminates` (liveness) a boot opens the NVS or aborts, then comes up whatever SPIFFS, card and cleanup do, and aborts for nothing else |
| `cli` | `DepthCountsScripts`; `HistoryHoldsLast`; `FailureStopsScripts` (action); `PromptReturns` (liveness) |
| `wifi` | `HandlesLive`; `FlagsMatchDriver`; `NoStrayNetif`; `ScanMemoryBalanced` |

Where a run does not list the types, `TypeOK` is proved for all instances. That of
`Storage` is also checked: it holds the limits on the array and on removals in one
cleanup.

Runs that end in a counterexample, one for each place where the code does not do
what a document says ([section 7](#7-where-the-code-differs-from-its-documents)):
`packet_buffer_spsc`, `pcap_standard`, `gui_thread_safe`, `storage_threshold`.

To run one: `tlc -config MCPacketBuffer.cfg MCPacketBuffer`.

## 4. Bounds

Counters that only grow are bounded in a guard, by a constant the module names
as a bound of the model.

- `packet_buffer`: headers of 2 bytes, frames of 1, 2 and 4, capacities 9 and 7
  (fallback), `SizeMax` 63. Pads with and without room for a header, records that
  end exactly at the end of storage, full and empty buffers all occur. Five
  pushes go round the ring more than once; the counter goes back to 0 with each
  init, so sequences of calls are not bounded. `MaxDropped` 1: dropping changes
  nothing else.
- `pcap_writer`: a global header of 2 bytes, record headers of 1; a threshold for
  two small packets, one for none, and 0; a packet above the snap length; three
  files; five packets, so that a file split, one that failed and short writes fall
  into one session. Short writes leave a tail of at most 2 bytes (`MaxTail`):
  nothing, a header, a header and part of a payload, or two headers in a row;
  records behind it are not bounded by it.
- `packet_stats`: a second of 3 units and the times 1, 2, 4, 6, 7 and 12, so that
  packets share a second, meet its border, come in the next one and after empty
  ones; bins of 2 dBm, one of them cut short by the upper end of the range;
  strengths below, on the border of and above the histogram; four packets.
- `gui_lifecycle`: times in units of 5 ms (receive timeout 4, poll 2), 4 polls
  for the 20 of the code. A receive timeout is two polls, so four are enough for
  the property and `MutantOnePoll` shows that one is not. Two lives of task and
  queue, one client, a queue of one event, so that it is full.
- `led_status`: a queue of three commands, so that each post of init and deinit
  can meet it full; three timers, one pin.
- `storage`: four captures, two of one age, three entries in the array for the
  128 of the code, two removals allowed, two handles of the NVS.
- `cli`: depth 4 as in the code; four scripts, one that calls itself; a history of
  two lines and four lines entered, so it wraps twice over.
- `wifi`: three access points; a limit of two and a default of four; interfaces
  for four inits.

A queue or counter in a passing run that reaches its bound stops growing, which
the properties above do not depend on: none is about a call being possible,
except `EmptyTakesHalf`, which is stated on the reply. The theorems hold for any
value of these bounds.

## 5. Fairness

- `GuiLifecycle`: weak fairness of the steps of a call that has begun, of each
  step of the GUI task, and of time. FreeRTOS runs a ready task, the GUI task has
  nothing of its own priority beside it, and calls of the API do not block except
  in `vTaskDelay`. No fairness is given to the callers: none has to start, stop or
  send.
- `LedStatus`: weak fairness of the steps of a call that has begun, of the timer
  task taking commands, and of a callback that has begun. Strong fairness of the
  expiry of each timer: a timer that is active again and again goes off again and
  again, although commands and callbacks of the same task keep it waiting.
  `led_set_mode` need not be called.
- `Storage`: weak fairness of the boot's next step, on its own (`Reset` may
  always come and also ends the boot). `app_main` waits for nothing there.
- `CliEngine`: weak fairness of the running script; nobody has to type.

The other modules have safety properties only and no fairness.

## 6. Proofs

TLAPS proves the following for all values of the constants that satisfy the
named assumption of each module (`ConstantsAssumption`, `PcapConstants`,
`StatsConstants`, `GuiConstants`, `LedConstants`, `StorageConstants`,
`CliConstants`, `WifiConstants`). They say that sizes and counts are natural
numbers, that a capacity is not 0 and that a "none" is not one of the values it
stands beside. One says more: `PollsOutlastReceive`, twenty polls of 10 ms last
at least one receive timeout of 20 ms, which is what the constants of
`gui_main.c` satisfy and `StopIsGraceful` needs.

In each module the theorem `Invariant` shows that `IInv` always holds, and every
other theorem follows from it. Why `IInv` is what it is:

`PacketBufferProofs`: `NothingOverwritten`, `BytesAccounted`, `OffsetsAgree`,
`GuardsNeverFire`, `EmptyBufferTakesHalf`, `ImplementsQueue`. `IInv` is
`TypeOK`, `RecordsIntact`, `RecordsChained` and `RingConsistent` together. Pad
and record of a push lie in the free part of the ring, because `Fits` compares
both with `capacity - used` and the records fill exactly the `used` bytes from
`tail`. So a push changes no byte of a held record, and the header at `tail`,
after at most one pad, is the header of the oldest packet: length and type are
valid, it ends inside storage and inside `used`, and no guard fires. A pop
therefore delivers the head of the abstract queue, byte for byte.
`RecordsIntact` alone is not inductive: without the chain nothing says that the
free bytes are free.

`PcapWriterProofs`: `FilesWithinThreshold`, `CountersExact`, `TotalsExact`,
`ImplementsLog` (the refinement), `ClosedFilesKept` and `StandardUntilWrittenOn`
(action properties). A file takes a second packet only because the counters the
split test reads describe that very file, and an open file is at least its
global header long (`Started`), without which the test
`bytes_written_current_file > 0` would let a record through. In a file with a
fragment the counters no longer describe it; that they stay between what a reader
finds and the size is part of the invariant. A call changes what a reader finds
only at the end: `AppendLast` says so of a record in the last file, `ReadingSame`
of files the call leaves alone or adds to behind a fragment only.
`StandardUntilWrittenOn` is what holds of the promise that `pcap_standard`
refutes: files stay standard until a caller writes on after an `ESP_FAIL`.

`PacketStatsProofs`: `CountsExact`, `LatestInWindow`, `RateOfASecond`. A
division puts each strength in the bin whose printed range holds it
(`Quotient`), and a count over one more report is one more exactly when the
report is of that kind (`Counted`). The rate needs `WholeSeconds`: for packets
in order, the window starts a whole number of seconds after the first of them,
since it is moved by `elapsed / 1 s` seconds at a time and not to the late
packet. A sliding second overlaps two of these seconds at most
(`SlidingBetween`).

`GuiLifecycleProofs`: `AllOrNothing`, `OneTask`, `FlagMatchesTask`, `Graceful`,
`NoDangling`, `CallsReturn` (an action property). The properties that speak of
the time between calls follow from `Places`, which says for each place of the
controller what the flag, the handle and the task are and which side may still
clear the handle; `Resources` and `Clients` say who may be inside the queue's
functions. `Outlasted` is the clock: a controller that is still polling has seen
no more time than the task's receive may take, so the polls cannot run out
before the task has seen the flag. `CallsReturn` counts the steps and ticks a
call may still need: no step of anybody adds to them, each of its own takes one
away.

`LedStatusProofs`: `AllOrNothing`, `CommandsMeetTimers`, `AtMostOneBlinks`,
`AttackSettles` (an action property). The owner goes on while its commands wait,
so the invariant is about the queue: nothing follows a delete of the same timer,
the timer the owner holds is not about to be deleted, and between the starts of
two timers stands the delete of the first, unless that one is `lost`.
`AttackSettles` is the safety half of
`AttackShown`: a callback that a change of the mode overtook is the last one
that can show the old mode.

`StorageProofs`: `TypeCorrect`, `HealthReportTrue`, `BusGivenBack`,
`SchemaBeforeUse`, `AbortsBeforeNvs`, `OldestFirstOfScanned`, `RemovesWhenShort`
and `BootsInBoundedSteps` (action properties). The invariant says for each place of
the boot which managers have done their part and what the health record holds of
it; in the loop of `log_rotate_cleanup` the captures before `next` are gone or
could not be removed, and those from `next` on, which are no older, are still
there. A reset may leave any place. That `free_bytes` is never negative needs
the sum of the sizes of the captures (`BytesOfSplit`: one capture less is its
size less). Every step of a boot lowers `StepsLeft`, which is at most `Slots +
7`; with `AbortsBeforeNvs` that is the part of `BootTerminates` that needs no
fairness.

`CliEngineProofs`: `DepthExact`, `HistoryExact`, `FailureEndsAll` (an action
property), `ScriptsReadInBounds`, `ScriptsTerminate`. A command does the same to
the scripts that run it wherever it stands, and a script that goes on has seen
no failure (`ScriptUnharmed`). The ring is read back with the arithmetic modulo
its length. Scripts may call themselves and each other, and each opens scripts
of any length, so no number bounds what is left. `Left` lists, from the
outermost script inwards, what each has still to read; a step makes it smaller
in the lexicographic order, because it changes nothing outside of the script it
reads on or leaves, and `MaxScriptDepth` makes that order well founded.
`ScriptsTerminate` states the three together; with fairness, which says that the
steps are taken, it gives `PromptReturns`.

`WifiEngineProofs`: `HandlesStayLive`, `FlagsAgree`, `NoInterfaceStrays`,
`ScansLeakNothing`. An engine that is not up has no handles left for the next
init to overwrite (`EngineDown`); the invariant of a scan says at which call
which buffer is allocated, and that a scan that allocates found something, since
an empty result is never freed.

Data of any length without an induction rule. The induction theorems of the
library take a predicate as a parameter, which the provers cannot instantiate.
Two facts about sets do the same: a set of numbers that is not empty has a least
element (`Least`, from `WFMin` and `NatLessThanWellFounded`), and a set of
finite sets that is not empty has a smallest one (`Smallest`, from
`FS_StrictSubsetOrderingWellFounded`). A claim about every index, or every set
of captures, is proved from the least one where it would fail. The recursive
definitions are functions, which TLA+ defines by CHOOSE; that there is a
function which satisfies the equation is shown in the same way, by joining the
functions on shorter ranges (`ReadingExists`, `SumsExist`), and everything else
uses the equation only (`ReadingIs`, `BytesOfSplit`).

Model-checked only: liveness (`EventsConsumed`, `AttackShown`, `BootTerminates`,
`PromptReturns`), because fairness and ENABLED are beyond the prover. Every
other property of a passing run is a theorem.

## 7. Where the code differs from its documents

Each is a run that finds a counterexample, and a finding in `PROJECT.json`.

1. `packet_buffer` is documented as single producer, single consumer
   (`packet-buffer.md:7`, `:32`). `used_bytes` is updated by both sides without a
   lock; an update can be lost and accepted packets are not delivered.
2. Captures are "standard libpcap files" (`pcap-writer.md:7`). After a short
   `fwrite` the fragment stays and later records follow it, acknowledged, where no
   reader finds them.
3. The event transport is "thread-safe" (`foundation.md:8`). `gui_event_send`
   uses the handle it tested before a preemption in which `gui_deinit` deleted
   the queue.
4. Rotation starts below 50 MB free (`recovery-runbook.md:23`). When the free
   space cannot be read it counts as 0 and captures are removed.

Seen while reading and not the subject of a run, because the size of a buffer or
one word of a call decides it, or one short sequence of calls shows it:
- cleanup takes the "oldest `*.pcap` files first" (`recovery-runbook.md:24`), but
  compares only the first 128 entries of the directory; `OldestScannedFirst` is
  what holds of those;
- a script runs "line-by-line" (`commands.md:28`), but a line over 255 bytes is
  run in pieces, the end of a long comment too;
- `wifi-engine-scanner.md:21` calls the scan passive, `wifi_scanner.c:69` asks for
  an active one;
- `packet-stats.md:20` has the rate "over sliding 1-second window"; `packet_stats.c`
  (lines 60-68) counts consecutive seconds and reports one when a packet comes
  after its end. Packets at 0.1, 1.0, 1.2 and 1.3 s: the one at 1.2 s closes the
  window from 0.1 to 1.1 s, and `last_window_pps` is 2; at 1.3 s the last second
  holds three packets, and at 10 s, if nothing else came, none, and
  `last_window_pps` is 2 both times. So the reported rate alone is not bound to
  the sliding one; `WindowIsASecond` states what the code does and, with the count
  of the window that is still open, the interval in which the sliding rate lies.

## 8. What is not modelled

- `packet_filter`: a pure predicate over one frame.
- `mac_utils`, `time_utils`, `oui_lookup`: formatting, parsing and a table read once
  from a file, sequential and without callers in the tree.
- The GUI's theme and the display and touch drivers, which are a palette and stubs
  that return `ESP_ERR_NOT_SUPPORTED`; `gui_lock`, `gui_unlock`, the active screen
  and the toasts, which nothing calls.
- The whole-file helpers of `sd_card` and `spiffs_mgr` and the blobs and integers
  of `nvs_mgr`: no callers, one `fopen` or one call of the NVS each.
- The editing of a command line and the commands that print.
- `esp_wifi` channel and address calls, which only pass on to the driver.
- The widths of the counters of `packet_stats`: 64 bits, and 32 for a rate.
- Stack and heap sizes. `log_rotate_cleanup` keeps 128 entries of 264 bytes on a
  stack of 6144: the models cannot show it, the hazard list does.
- `radio_ble`, `radio_802154` and `web` are placeholders, `spectra_system_init` a
  stub.

## 9. Plan

Done, in this order: packet buffer (queue, ring, proofs, SPSC), capture writer
and its proofs, GUI lifecycle, storage, CLI, Wi-Fi engine; packet statistics, LED,
the boot with NVS and SPIFFS; the theorems of all of them; the log the capture
writer implements, as a theorem; the bounds on boot, scripts and lifecycle calls, and what a steady LED mode keeps.

Left:
1. A bound for the commands that wait in the timer task's queue (`LedStatus`), as
   there is one for the calls of `GuiLifecycle`.
2. `gui_lock` and the mutex in `GuiLifecycle`, as soon as a screen uses them.
3. `oui_lookup`: the table that grows while a file is read, and stays partial
   when there is no memory for more.
4. A composition of buffer, statistics and writer once the pipeline exists in the
   code.
