# Verification of the Tater native firmware

The firmware in `src/` turns an ESP32-S3 board into a voice satellite: it listens for a wake
word, streams the microphone to a Tater server over one WebSocket, plays the replies, rings
local timers and joins a Sendspin music group. It is some 25 000 lines of C and C++ on FreeRTOS,
two cores, and about thirty tasks that share state through a handful of mutexes, C11/C++ atomics
and plain `volatile` or unprotected variables. This directory holds TLA+ models of the parts
whose difficulty is that sharing, the TLC configurations that check them and the TLAPS proofs
about them.

## 1. The system

| part | state it keeps | operations | talks to |
|---|---|---|---|
| local timers (`tater_protocol.c`) | `s_timers[8]` under `s_timer_lock`, alarm task handle | timer.start/arm/cancel/clear/snooze/alarm, device stop, monitor every 200 ms, alarm task | wake engine (stop model), playback, LED state |
| voice session (`tater_protocol.c`) | active flag, generation, pre-roll ring, transmit queue, reopen flags | start, ack/nack, audio, stop, link down, continued-chat watchdog | server, wake engine, playback |
| WebSocket lifecycle (`tater_protocol.c`) | client handle, connected/acknowledged flags, receive reassembly | create, refresh on a changed credential, event handler | ESP WebSocket client (external) |
| wake engine (`wake_engine.cc`) | models, detection windows, pending verification, downloaded model | feature frames, detection, verification, timeout, model download | voice session, server |
| playback (`playback.c`) | task handle, playing/abort flags, output mode, jitter buffer, scene ring | play url/scene/clip/tone, stop, reader and background tasks | Sendspin, board speaker, watchdog |
| Sendspin (`sendspin_player.cpp`) | claims, stream, ownership, overlay ring, duck, frames reported | stream start/end, audio write, claim/release, overlay, render feedback | external Sendspin client, board speaker |
| OTA update (`ota_update.c`, `ota_family.c`) | running flag, pending request, family scanner | start, download, verify the family marker, failure callback | Sendspin claims, flash |
| Wi-Fi station (`wifi_station.c`, `network_recovery.c`) | connected/stopping flags, attempts, task notification | events, reconnect task with backoff | ESP Wi-Fi driver (external) |
| BLE scanner (`ble_scanner.c`) | dedupe table, batch, counters, scan flags | GAP event, poll, start/stop | NimBLE host (external), server |
| render clock (`audio_render_clock.h`) | frames submitted and completed, an instant, a sequence number | write, interrupt, snapshot without a lock, reset | boards, Sendspin, watchdog |
| playback recovery (`playback_recovery.c`) | last progress, fired flag | note, observe, poll every 500 ms | playback, render clock |
| button (`button_voice_pe.c`) | click counter, windows, setup gesture | short press, hold, five clicks and a hold | everything above |
| Satellite1 power (`sat1_power_delivery.c`) | contract, deadlines, last message | USB-PD messages, recovery, timeouts | charger (external), amplifier |
| Satellite1 outputs (`audio_sat1.c`) | output mode, jack, amplifier profile, speaker session | begin, end, jack poll, set mode | playback, power |
| other boards, DoA, echo canceller | I2S drivers, direction memory | | |
| settings, provisioning, URLs | NVS values | | |

What is hard in this code: almost every shared flag is read by one task and acted on after the
lock, if there was one, has been given back; ends of activities run concurrently with the starts
of the next ones; and the network may go away between any two steps.

The components, and which of them are modelled, are listed in `PROJECT.json`, as are the hazards,
each at the line where it bites.

## 2. The modules

| module | what it models | lines of code behind it |
|---|---|---|
| `LocalTimers` | timer table, `timer.*` commands, monitor, alarm task, dismissal from the device | `tater_protocol.c` 1480-2250, 2940-2990 |
| `VoiceSession` | opening, answering, stopping and timing out a session; pre-roll, upload queue, capture and sender tasks; loss of the link | `tater_protocol.c` 500-1130, 2286-2390, 3310-3610 |
| `LossyChannel` | what the upload promises to the server: a channel that loses and does nothing worse | (abstract) |
| `SpeakerOwnership` | playback start, end and stop, native-audio claims, Sendspin's stream callbacks and loop, the board's speaker session, an update's claim | `playback.c` 320-620, 2722-3227; `sendspin_player.cpp` 543-930, 1049-1118; `app_main.c` 84-106 |
| `SpeakerTurns` | what the lifecycle and the claims promise of the speaker: playbacks take turns, one task sounds at a time | (abstract) |
| `AudioChannel` | what an audio buffer promises to its two ends: a bounded FIFO | (abstract) |
| `PlaybackStream` | the download of a clip: HTTP reader task, jitter buffer, playback task, direct path | `playback.c` 759-1002, 1434-2098 |
| `SceneMix` | a scene: foreground, background task, ring and mixer between them | `playback.c` 2113-2567, 2783-2885 |
| `PlaybackRecovery` | the playback watchdog | `playback_recovery.c`; `playback.c` 330-411, 580-617 |
| `RenderFeedback` | the render clock, its interrupt, and the poll that tells Sendspin what has been played | `audio_render_clock.h`; `sendspin_player.cpp` 443-721 |
| `OverlayMix` | native audio over Sendspin's music, and the ducking | `sendspin_player.cpp` 112-176, 471-509, 679-696, 1081-1193 |
| `WifiRecovery` | Wi-Fi event handler and reconnect task over the driver | `wifi_station.c` |
| `WsClient` (extends `WifiRecovery`) | client handle, connection flags, hello, replacement of the client for a new credential | `tater_protocol.c` 518-670, 1419-1493, 2757-2880 |
| `ScoreWindow` | the ring of scores a wake word is detected on: scoring, gate, switch to the stop model, resets | `wake_engine.cc` 334-354, 481-553, 845-862, 2367-2390, 2549-2686, 2949-2976 |
| `WakeVerification` | from a wake word to its session: request, upload, answer, timeout | `wake_engine.cc` 1813-2045, 2653-2786; `tater_protocol.c` 1197-1302 |
| `WakeModel` | which wake model listens: selection, download, cache, the wake task's comparison | `wake_engine.cc` 1550-1640, 2047-2365; `native_settings.c` 286-456 |
| `OtaFamily` | the streaming scanner for the family marker | `ota_family.c` |
| `OtaUpdate` (extends `OtaFamily`) | request, updater task, download, partition, each failure | `ota_update.c` |
| `BleScanner` | when the radio scans: host callbacks, poll | `ble_scanner.c` 160-376 |
| `BleAdverts` | what is reported: dedupe table, batch, counters | `ble_scanner.c` 89-222, 377-409 |
| `PowerDelivery` | the USB-PD negotiation: `pd_task`, the controller's queue and line, the charger | `sat1_power_delivery.c`, `sat1_pd_policy.c` |
| `Sat1Output` (extends `PowerDelivery`) | which outputs are on, with which profile of the amplifier | `audio_sat1.c` 195-201, 599-744, 1988-2165 |
| `SetupGesture` | the action button: debounce, intercom hold, setup gesture | `button_voice_pe.c` 659-829 |

The instances and sums: `MCLocalTimers` (payloads of the timers) and `MCProtocol` (timers and a
chat); `MCMedia` (speaker, voice upload, render clock, overlay: safety); `MCPlayback` (speaker,
download, scene, watchdog, under fairness); `MCDevice` (connection, verification, wake model,
update, scanner, adverts, power, outputs, button, score window). The proofs: `ProtocolProofs` (timers,
voice), `SpeakerOwnershipProofs`, `WsClientProofs` (with the Wi-Fi station), `WakeProofs`
(verification, model, score window), `OtaUpdateProofs`, `SendspinProofs` (render clock, accounts,
overlay), `PlaybackProofs` (download, scene, watchdog), `DeviceProofs` (power, outputs, scanner,
adverts, button, and the sum `MCDevice`).

Each definition's exact lines are in the `map` of `PROJECT.json`. The definitions whose comment
begins "Faulty form of" are not part of the model: each is the wrong version of the definition
below it that some property is there to exclude, and replacing the definition by it violates that
property.

### Conventions

A FreeRTOS task is an element of a set and `pc[task]` (`where[task]` in `VoiceSession`, `.at` of a
record elsewhere) says where it stands. What the code does in one locked section is one step;
every access to shared state outside a lock is a step of its own, so two tasks interleave wherever
the scheduler can interleave them. The flags the code declares `volatile` or leaves unprotected
are words the two cores read and write whole. Durations (grace periods, backoff, timeouts, drain
waits) are left open: a step that waits is enabled throughout, so the properties hold for any
length of the waits, unless a definition says otherwise (`PlaybackRecovery` and `SetupGesture`
count ticks, since their properties are about them). A task creation, an allocation or a send may
fail wherever the code tests for it. A variable marked *history* is written and never read by the
model; it is there for a property.

### LocalTimers

`slots` is `s_timers`; a slot is free, armed or ringing, which is what `active`, `ringing` and the
two deadlines come to. `TimerStart`, `TimerCancel` (also `timer.clear`), `TimerSnooze` and
`TimerAlarm` are the commands: their effect on the table is one step, and what follows outside the
lock (stop model, visible state, alarm task) is a chain of `BeginRinging` or `FinishRinging` steps
of the same task. `MonitorScan` is one pass of `timer_monitor_task` with an arbitrary choice of
what has expired and what has rung too long; `MonitorRecheck`, `RecoverTask` and `RecoverCreate`
are the repair of an alarm that is not shown or has no task. `DeviceStop` and `DeviceCancel` are
the two locked sections of `tater_protocol_timer_stop_from_device`. `OtherState` is anything else
that changes the visible state.

### VoiceSession

`link` is the pair of `s_connected` and `s_hello_acked` with the transport behind them. `mine`
says whose stored generation equals `s_voice_generation`, which is all the generation is compared
for. The audio is a stream of frames two of which may be marked: an order fault or a duplicate
between any two frames is one between the marked ones. `preroll` is the ring that holds audio back
until the session is acknowledged, `queue` the transmit queue with its congestion limits, `hand`
and `chunk` what the capture and the sender task have in their hands. `LinkLost` and `ClearQueue`
are the two halves of `mark_link_down`, which `VoiceFailed` and `UnduckFailed` follow in a start
that could not be sent. `WatchdogFires` and `Abort` are `continued_reopen_watchdog_task` after its
delay. Left out: the queue's wake-up semaphore and the joining of short frames, the decision at
INTENT_END to continue a chat, the visible state.

`LossyChannel` is what the upload promises to the server. It keeps no order and no buffer, only the
set of frames on their way: any of them may be lost at any moment, the one that is delivered is the
oldest. `VoiceSession` implements it (`Upload`): on their way are the marks in the microphone's
hand, the preroll, the queue and the sender's chunk. A frame that were sent after a later one, twice,
or after a stop or the next start had thrown it away would not be a step of it. `AudioInOrder` says a
part of this as an invariant.

### SpeakerOwnership

A start walks through `TakeLock`, `Stopped`/`NotStopped` (`playback_wait_stopped_locked`),
`ChooseOutput`, `BeginOverlay` or `Claim` with `ClaimGranted`/`ClaimTimeout`, `Arm`, `CreateTask`,
or `StartFailed`. A playback task walks through `Run`, `Open`, playing, `EndSession`,
`MarkFinished`, `ClearPlaying` and `ReleaseSpeaker`: the last three are the unlocked end whose
interleaving with the next start matters. `Poll` is one pass of the Sendspin loop, `StreamBegin`,
`StreamBegun` and `StreamEnd` its callbacks. The atomic claim counter wraps at the top of its
word, which is `TopClaims` here. The history variable `inStep` is false once a start has overtaken
the end of a playback, or an update ran without its claim or beside another one. The code does not
exclude these (section 4), and what it guarantees otherwise is stated under `inStep`.

`SpeakerTurns` is what that amounts to for who is heard. It knows the playback that has its turn,
from the creation of its task to the end of `playback_mark_finished`, and the task that sounds; it
has no lock, no flag, no claim and no output mode. A playback begins when none has its turn, sounds
in its turn when nobody sounds, and is through when it does not sound any more. `SpeakerOwnership`
implements it (`Turns`): sounding is whoever uses the board's speaker as its own, that is a playback
between its begin and its end that is not mixed into an overlay, and Sendspin from a begin that
succeeded to the end of its stream. Two that sound at once, one that takes over from another
without a release, or one that is through while it still sounds would not be a step of it. Once
`inStep` is false it allows everything.

### AudioChannel, PlaybackStream and SceneMix

`AudioChannel` is an abstract specification: a source that puts numbered units, a FIFO of bounded
depth, a listener that takes them, and an answer that may only be "ok" when the source has closed
and nothing is left. `PlaybackStream` implements it through a refinement mapping (`Channel` in the
module): `queue` is what lies in the ring's memory between the read and the write index.
`StreamPlayer` is the playback task in `stream_audio_url`, `StreamReader` is
`codec_http_reader_task`; the critical sections of the jitter buffer (`CopyIn`, `CopyOut`,
`CloseOrFail`) are steps, and the two binary semaphores (`canRead`, `canWrite`) are given and
taken outside of them, as in the code. A WAV file whose buffer or reader cannot be had goes the
direct path (`DirectBegin`, `DirectRead`, `DirectEnd`). `AbortStream` sets `s_abort` at any moment.
`SceneMix` implements `AudioChannel` with the scene's ring: `SceneTask` is `scene_task` with its
mixer sink, `BackgroundTask` is `scene_background_task`. A scene's two downloads are only what
`stream_audio_url` does to its sink; `PlaybackStream` has the rest. What the mixer does not find in
the ring is silence, which the mapping leaves out.

### PlaybackRecovery

The watchdog and the playback task both read clock and time before they enter the section that
guards `s_recovery_state`: `Look`, then `Observe`; `WriteOutput`, then `NoteOutput`. Time is in poll
intervals and wraps at `TickWord`, as milliseconds do at 2^32. `RaiseAbort` comes after the warning
was sent to the server, for whichever playback is on by then. Progress is what the render clock has
completed, so the watchdog also stops a playback that got no audio from the network for five
seconds. `OnlyNotesMislead` says when it is wrong about an output that has moved in time.
`playback_recovery_watch_rebuffer` (playback.c:287-320) is called by nothing, and so it
and `tater_playback_recovery_observe_rebuffer` are not modelled.

### RenderFeedback and OverlayMix

In `RenderFeedback` the stream task, the DMA interrupt (`BufferSent`, `OnSent` with one step per
store) and the poll on the other core (`SnapBefore` to `SnapAfter`, one step per load) share
`clock`. A stamp is the number of frames it completes, so that a snapshot that mixes two
completions shows. Frames are DMA buffers; the queue also holds the silence a board primes it with
(`Prime`), which `Account` takes off. The boards that stop their channel before they reset the
clock are modelled; the S3 Box resets it with the channel running.

`OverlayMix` has four tasks: `MusicTask` (`on_audio_write` with `refresh_duck_target` and
`read_overlay_frames`), `NativeTask` (begin, write, end and abort of an overlay), `SongsTask`
(a stream's begin and end) and the voice session's wish to duck. Every access to an atomic is a
step. `torn` notes that the ring was reset between the two loads of a read.

### WifiRecovery and WsClient

The driver posts its events, in the order in which they happen, to a queue that the event task
takes them from, so `hasIp` may be about a past address. A client object is `none`, `made`,
`waiting` (its task runs, no transport), `open`, `stopped` or `gone`; the library reconnects a
waiting one by itself. `Owner` is `tater_protocol_start` and then the refresh task, each of whose
steps may fail where the code looks. `settled` becomes true at any moment or never; afterwards the
access point and the server fail no more. Not more than one refresh runs at a time, which takes
the server to issue new credentials less than half a second apart.

### ScoreWindow, WakeVerification and WakeModel

A score is its age, so that the window can be compared with what was heard last; whether a full
window is a detection is open (`NotDetected`, `DetectedVerifies`, `DetectedStarts`). The microphone
task goes from `SkipChunk` or one of the `Switch` actions and `SameModel` through `GateOpen` to
`PutScore`, `Advance` and `CountScore`. `ResetCount`, `ResetIndex` and `ResetSlots` are the reset at
the end of a verification, on another task and without a lock, which is why `Advance` and
`CountScore` may use what they loaded before it. `ChooseWindow` changes the size at any moment.
`steady` counts the scores since the last such disturbance.

A detection's number is its request id. `QueueNothing`, `QueueRegister`, `Queue`, `QueueFailed`,
`CreateTimeout` and `CreateTimeoutFailed` are `queue_wake_verification`; `Decide` is the rest of
`handle_feature_frame`, with its second look at the mode. `Complete` is
`complete_wake_verification` up to the end of its locked section; the start of the session
(`StartSession`) happens after it, in the same task, and the model lets it happen any time later.
What a start does is `VoiceSession`.

A model is told from another by the URL it was fetched from, and `active` keeps both what
`s_active_model_url` says and where the data came from. The wake task's steps follow one call of
`tater_wake_engine_process`: `ConsumePending`, `UsePending`, then `ensure_selected_wake_model`
(`EnsureEmbedded`, `EnsureCustom`), `start_custom_wake_model_download` (`AlreadyActive`,
`AlreadyStarted`, `Register`, `CreateDownload`) with `load_cached_custom_wake_model` in between
(`LookUp`, `LoadCached`). It has only a pointer into the settings, so each step reads
`selection.url` anew. The event task changes fields and generation in two steps (`Select`,
`CountSelection`). `DownloadTask(g)` is the task of the download with generation `g`; several can be
on their way after a selection or a stale download, and they write the same two files.
`s_custom_download_running` is cleared by the newest alone (`RunningIsReal`).

### OtaFamily and OtaUpdate

A byte the scanner has at hand is `byte`, the ones before it `image`; `FallBack` is one pass of the
while loop, `Match` and `Mismatch` end the work on a byte. `Asker` is `tater_ota_start_url` on the
event task, `Updater` is `ota_task` with `ota_run`: `http`, `ota` and `slot` are its client, its
handle and what became of the handle. A refused request changes nothing and is left out. That
`esp_ota_end` refuses an image that was cut short is taken from ESP-IDF: `whole` guards the
boot, as nothing in `ota_run` compares the length received with the one announced.

### BleScanner and BleAdverts

`HostTask` is NimBLE's task with `gap_event`, `on_reset` and `on_sync`; what the host does by itself
(`DiscoveryEnds`, `HostResets`) is external. `PollTask` is `tater_ble_scanner_poll`, one step per
look at a flag or call of the host, so resets and completions fall between any two. `BleAdverts`
lets adverts come at any time; two of them are the same if address, event and payload are. The
scan's flags and the adverts share no state except the pause, which only holds adverts back.

### PowerDelivery and Sat1Output

`sink` is what `pd_task` keeps: where it stands in its loop, which deadline is armed, the stage of
its recovery, the request it has out and the number of the last message. `Service` is
`pd_service_interrupt` with `pd_handle_message`, message by message; any I2C access may fail, and
so a message be lost (`ReadFails`), the rest of the queue be left (`Handle` with `timers`) or the
interrupt line stay low (`ReadStatusFails`), after which no new edge wakes the task. `PdTimers` is
`pd_run_recovery` and `pd_run_transition_timeout`: the deadline that is armed may have been reached
or not. `Source` is the charger: it makes one
offer at a time (it waits for the answer longer than `pd_task` takes to read the offer), repeats a
message whose acknowledgement was lost (`SourceRepeats`), resets the link, answers the request for
its last offer, or falls silent. A soft reset with the number of the last message is taken for a
duplicate (`HandleDuplicate`), as in the code.

In `Sat1Output` a playback's begin and end, the direction task's look at the jack and a command
that sets the mode take turns on `s_output_mutex` (`mutex`). `Switch` is
`sat1_output_apply_locked`. The contract changes under it in every way `pd_task` could change it
(`ContractChanges`), or, in `PoweredSpec`, by `PowerDelivery` itself.

### SetupGesture

A step is a turn of `button_task`'s loop (20 ms), `Poll`; the level of the pin, what the device does
and whether an update runs are free at each turn. `Pushed`, `Released`, `Held` and `Rested` are the
four parts of the loop's body. Counters stop where a larger value makes no difference. `presses`
and `rest` note what somebody at the button would have seen, for the property.

### The sums

The components composed in `MCProtocol`, `MCMedia`, `MCPlayback` and `MCDevice` share no variable
there. Their product would check the same behaviours of each many times over, so each is a
disjoint sum: `part` names the component a behaviour is about, the others rest in their initial
states, and each component keeps its fairness. Each property is about the variables of one
component. Components that do share state are composed in one module: `WifiRecovery` in
`WsClient`, `OtaFamily` in `OtaUpdate`, `PowerDelivery` in `Sat1Output`, and playback, claims,
stream callbacks and updates in `SpeakerOwnership`.


## 3. What is checked

Four runs check that properties hold, each a sum of components (section 2, "The sums").

| run, component | instance | what it shows |
|---|---|---|
| `protocol`, timers | 2 slots, 2 ids of one name; server, monitor, button, one alarm task | `UniqueIds`; `AlarmFollows` under fairness |
| `protocol`, chat | a continued chat and its watchdog, pre-roll 1, queue 1 | `SessionsSettle`, `DuckReleased` under fairness |
| `media`, speaker | 1 caller, 2 playback tasks, 1 claim, updates | `ClaimsBalance`, `TakesTurns` |
| `media`, voice | 1 user, pre-roll 2, queue 3 with congestion at 2, 2 marked frames | `UploadIsChannel`, `OldAudioBounded` |
| `media`, clock | blocks of 2 DMA buffers, 2 frames a stream, 2 streams | `ClockIsAtomic`, `AllReported` |
| `media`, overlay | ring of 2 frames, clip of 2, reads of 2, 1 overlay, 2 turns of the duck | `OverlayInOrder`, `DuckCurrent` |
| `playback`, speaker | 2 callers, 1 playback task | `SpeakerYielded`, `AvailableAgain`, `StopHeard` under fairness |
| `playback`, stream | a clip of 4 units, buffer of 3, prebuffer of 2, reads of 2, header of up to 2 | `NoMissedWake`, `BufferInUse`, `StreamIsChannel`; `PlaybacksEnd` under fairness |
| `playback`, scene | foreground 2, background up to 4, ring of 3, mixed in pieces of 2, fade of 2 | `RingInUse`, `RingIsChannel`; its half of `PlaybacksEnd` |
| `playback`, watchdog | stall after 2 ticks, a clock that wraps at 5 | `StalledIsStopped` under fairness |
| `device`, connection | 2 events in flight, 3 client objects (2 replacements) | `NeverStranded`, `NoOverlap`; `Recovers` under fairness |
| `device`, verification | 2 wake words | `OneVerdict`; `FailsOpen` under fairness |
| `device`, wake model | 2 URLs, 2 selections, 5 downloads of which one before the network settles | `SelectedModelUsed` under fairness |
| `device`, update | marker abaa over 2 letters, images of up to 7 bytes for a partition of 5, chunks of 1 and 2, 2 updates | `ScanExact`, `BootsOwnFamily`; `UpdatesEnd` under fairness |
| `device`, scanner | not bounded | `PausesForAudio`; `ScanResumes` under fairness |
| `device`, adverts | 3 adverts, 2 entries, a batch of 1, 3 adverts heard | `EntryIsOwn` |
| `device`, power | offers of 15 and 28 V beside 5 V, limit 20 V, message numbers up to 8, the source begins anew twice | `ContractIsSupplied`; `NegotiationEnds` under fairness |
| `device`, outputs | not bounded | `OutputFollows` |
| `device`, button | debounce 1, intercom 3, 2 clicks, window 3, armed for 4, hold 4 | `SetupIsMeant` |
| `device`, score window | windows of up to 3, 2 for the stop model, a board that leaves the engine out | `JudgesLatest` |

`DeviceTypeOK` is the type invariant of the ten components of `device`. The other eight runs end in
a counterexample each (section 4): `timers_stop_model`, `timers_dismiss`, `speaker_available`,
`voice_overtake`, `connection_stuck`, `wake_model_cache`, `watchdog_alarm`, `power_fallback`.

**Why the bounds are enough.** Every table or pool that matters is at least as large as the
smallest conflict: two timers that a name does not tell apart, a playback that ends while the next
one starts, one claim beside another, a queue that passes its congestion limit and recovers, a
client that is replaced by one that is itself replaced, a request that is superseded by the next, a
marker whose false start overlaps the true one within a chunk and across two, an entry that is
evicted and comes back, a download that ends after a newer one began, a ring that wraps with a
write in two pieces, a stream that is reset with a completion on its way, a clock that wraps
between two looks at it, a message that is repeated after a reset of the numbers, a click that is
too long, too late or bounces, a window that shrinks below its index. Larger instances found nothing more: two callers with updates (7.6
million states), two users with two marks (18 million), three wake words (1.3 million), longer
clocks for the adverts (0.4 million), a source that begins anew four times with message numbers of
one to eight. What section 5 lists is also proved for every size.

The bounds that stand for sizes or limits of the code are `MaxTimers`, `PrerollFrames`,
`QueueFrames`, `Congested`, `Recovery`, `PartitionSize`, `ChunkSize`, `Entries`, `BatchMax`,
`EmitMin`, `EmitMax`, `FlushAfter`, `DmaFrames`, `BlockFrames`, `OverlayCapacity`, `MixFrames`,
`Capacity`, `Target`, `ReadSize`, `StallTicks`, `TickWord`, `RingFrames`, `ReadyFrames`,
`PieceFrames`, `FadeFrames`, `Highest`, `HighPower`, `IdWord`, `Debounce`, `Intercom`, `Clicks`,
`Window`, `ArmedFor`, `HoldFor`, `ShortClick`, `MaxWindow`, `StopWindow`; `Skips` says whether
the board leaves the engine out during a session. Those that only keep an instance finite are
`MaxClaims`, `MaxStarts`, `MaxMarks`, `MaxEvents`, `MaxClients`, `MaxDetections`, `MaxSelections`,
`MaxEarly`, `MaxDownloads`, `MaxUpdates`, `MaxTime`, `MaxSeen`, `MaxFrames`, `MaxStreams`,
`ClipFrames`, `MaxOverlays`, `MaxTurns`, `Units`, `MaxHeader`, `Foreground`, `MaxBackground`,
`MaxSourced`. `RingLimit` turns the fifteen-minute limit of an alarm on or off. `MaxDownloads` is large
enough that the downloads a settled model can still ask for are never cut off by it: with four of
them TLC finds `SelectedModelUsed` violated, with five it holds.

**Fairness.** FreeRTOS runs every ready task, and the tasks of a handler have nothing to wait for
between its steps: each task gets weak fairness. So do the tasks of a download and of a scene, the
watchdog, the playback task's notes to it, and the clock (`Tick`). `Poll` and `MicExpire` get strong
fairness: the Sendspin loop polls for ever between callbacks that disable it for a moment, and the
grace period of a session, measured on the microphone's calls, runs out although each call is short.
In `PowerDelivery` only `pd_task` is fair: the source owes nothing, and a negotiation ends without
it. An HTTP read ends because the client has a timeout, and so do an update's requests. Nothing
else is asked of users, the server, the network, or of media to end, except in `Recovers`,
`ClientRecovers`, `SelectedModelUsed`, `RightModelListens` and `ScanResumes`, which are about what
happens once `settled`, `modelSettled` or `calm` holds: failures, selections or audio have ended. In
a sum each component keeps its own fairness, so that a behaviour about one of them is as fair as it
is alone.

`CHECK_DEADLOCK FALSE` stands where the system may rest: nothing is played, no timer set, the
connection ready, a source silent for ever, the bound of the wake words, adverts or updates used up.

## 4. Where the code and its documents differ

* **Stop model** (`timers_stop_model`). README.md:98 has the stop model active only while a timer
  rings. `timer_finish_ringing_if_idle` decides under the lock and acts outside it; a timer that
  begins to ring in between is left without its stop word.
* **Dismissal** (`timers_dismiss`). README.md:240 has a dismissal leave later timers alone. Test
  and cancellation are two locked sections; of two dismissals at once the second finds nothing
  ringing and cancels the only armed timer.
* **Availability** (`speaker_available`). README.md:204 has the satellite available to Sendspin
  after a clip. A start that overtakes the end of the previous playback overwrites
  `s_output_mode`, and a claim stays counted for good.
* **Audio before voice.start** (`voice_overtake`). A comment has audio never overtake `voice.start`.
  The session is marked, and its grace period starts, before the frame is sent.
* **Stuck client** (`connection_stuck`). README.md:88 promises a watchdog that recovers a stuck
  client. A hello whose send fails while the transport stays is never sent again, and nothing
  looks after such a connection.
* **Cached model under another name** (`wake_model_cache`). README.md:99 promises models by URL with
  a persistent cache. The URL is read through a pointer into the settings at each step of loading:
  a selection between the look at the metadata and the end of the loading labels the data of the
  old URL with the new one, and the comparison that follows finds the new one in use.
* **False alarm of the watchdog** (`watchdog_alarm`). The log and the host test have it stop only an
  output that has stalled. It reads clock and frames before it takes the lock; when the playback
  task notes the same frames at a later time in between, the elapsed time is an unsigned negative
  number. That this is the only way to it is a theorem (`OnlyOvertakenAlarms`). `s_abort` also comes
  late, after a blocking send, for whichever playback is on by then.
* **Amplifier after a fallback** (`power_fallback`). README.md:60-61 promises a safe 5 V fallback of
  the amplifier. Its profile is chosen once, when a playback begins; when the contract is lost
  while it plays, the amplifier stays on the profile for more than 5 V.

What follows is in the models as the code has it, and the properties are stated so that they hold
beside it, or it is outside of them:

* *Verification.* `handle_feature_frame` looks at `wake_verifier_mode` again after the request was
  queued, so a change of the settings in between starts a wake word's session twice or not at all.
* *Detection.* A change of `wake_sliding_window` leaves the ring as it is: with an index past the new
  end the score is written outside of the window, and up to one window of scores is judged in the
  wrong order or not at all. The same holds after a reset by the task that completes a verification,
  in the middle of a score (it also resets the interpreter, which the microphone task may be
  running), and after a session on a board that leaves the engine out, when the model's state and
  scores are from before the session. `JudgesLatest` excepts that one window. A pending close miss
  survives a session that the button starts within its 0.9 s, and what it then uploads as
  `close_miss` is the session's audio.
* *Scanner.* An advert that is lost to a full batch is recorded in the dedupe table as reported. A
  `DISC_COMPLETE` that is delivered after the next scan has started leaves `s_scanning` false while
  the radio scans (`MustStop` asks the host too, so the pause for audio still works).
* *Download.* The code that would buffer again after an underrun is never called. A prebuffer that
  fails discards what it holds. A download that is cut short ends "ok". When the reader closes after the
  last data was taken, the decoder is not told of the end. A first WAV write that is stopped by an
  abort falls to the direct path, which begins the sink once more.
* *Scene.* A writer to the ring waits at the end of its memory though there is room at its start.
  `scene_background_task` reads `request->notify_task` after it has said it is done
  (playback.c:2449-2452).
* *Watchdog.* It cannot tell a stalled output from a network that has delivered nothing for five
  seconds.
* *Sendspin.* Silence played after an underrun counts against the frames written, so the playhead
  runs ahead. A reset of the overlay during a read lets up to one read's worth of old frames be mixed
  (`torn`).
* *Power.* A source's SOFT_RESET with number 0 after a message 0 is taken for a duplicate. A request
  that fails to go out has already replaced the pending voltage; this matters only with a source that
  offers again before its last offer was read. When the status block cannot be read, the interrupt
  line stays low and `pd_task` hears no more; it still falls back.
* *Outputs.* `set_output_mode` waits one second for a mutex that `speaker_begin` may hold for 1.5 s.
  A switch between `speaker_end`'s mute and `sat1_speaker_session_give` leaves the amplifier on, and
  a `speaker_end` that does not get the mutex leaves the outputs on (`flawed`).
* *Button.* The setup gesture does not ask whether an update runs, and its window only counts while
  the button is up.
* *Voice.* `audio_tx_clear_queue` can drain the wake-up of a frame queued after it
  (tater_protocol.c:748). The continued chat's watchdog stops whatever session is on when it has
  found its own generation current a moment before (tater_protocol.c:3606).

## 5. What is proved

The proofs are checked by TLAPS from the assumptions named in the modules (`TimersAssumption`,
`VoiceAssumption`, `OwnershipAssumption`, `WifiAssumption`, `ClientAssumption`,
`VerificationAssumption`, `ModelAssumption`, `WindowAssumption`, `FamilyAssumption`, `UpdateAssumption`,
`RenderAssumption`, `OverlayAssumption`, `StreamAssumption`, `SceneAssumption`,
`RecoveryAssumption`, `PowerAssumption`, `AdvertsAssumption`, `GestureAssumption`: sizes are positive, the marker is not empty, task names
are distinct, payloads have their shape, a click is shorter than a hold, the clock's range more than twice
a stall). Every inductive invariant
was checked with TLC on the instances of section 3, or smaller ones, before it was proved.

* **ProtocolProofs**, timers: `TypeCorrect`, `IdsStayUnique`, `HandleStaysLive`. The type invariant
  is strengthened by keeping each task to the steps of its kind. Ids stay unique because a start
  looks for its id before it takes a free slot, in one locked section; nearly all other steps leave
  the table alone or only clear slots (`Quiet`). The handle names a live task because the creation
  that sets it and the exit that clears it are each one step.
* **ProtocolProofs**, voice: `AudioKeepsOrder`, `OldAudioIsBounded`, `UploadOnlyLoses`,
  `VoiceTypeCorrect`. `InLine` follows a frame from the
  microphone's hand through preroll and queue to the sender's chunk: within each place the marks
  rise, and those of a place nearer to the server come before those of one farther off. That the
  microphone overtakes nothing is `Hands`: it goes to the queue with a frame only when nothing is
  held back. `FewOld` counts the frames of an ended session: one in the sender's hand, one in the
  microphone's, and none in preroll or queue beyond the latter's, as a start empties both. The
  lemmas say what trimming, joining and cutting buffers keeps, for every size of the buffers.
  `UploadOnlyLoses` is a refinement on top of `InLine`: every step moves marks along the line, takes
  some out, puts the newest one in, or takes the oldest out at the sender, whose rank `InLine` gives.
  The types need that preroll and queue stay within their capacities, and that the numbers of the
  sessions started are counted, over a finite set of users (`VoiceAssumption`).
* **SpeakerOwnershipProofs**: `TypeCorrect`, `ClaimsAreOwned`, `OnePlayback`, `OwnSessionGiven`,
  `SpeakerTakesTurns`, `StopIsKept`.
  `ClaimsBalance` counts claims, but is not inductive: that a release finds its claim depends on
  who holds the lifecycle lock (`LockInv`), on there being one playback task (`PlayerInv`), on the
  output mode having an owner (`OutputInv`), and on the counter not wrapping under those about to
  add to it (`RoomInv`). The speaker session adds where the Sendspin stream stands (`SessionInv`).
  All but types and lock hold under `inStep`.
  `SpeakerTakesTurns` is the refinement of `SpeakerTurns`. What a caller does is nobody's turn but for
  the creation of a task, before which no playback is left (`PlayerInv`); whoever sounds holds the
  session (`SessionInv`), so one that gets it finds nobody sounding; and the output mode of a playback
  stays as it is while it plays, as those who change it come before its creation or after its end.
  `StopIsKept` is the half of `StopHeard` that is about safety: only an end or the start of a playback
  that none precedes may take the flag of a stop away; that the playback then ends needs fairness.
* **WsClientProofs** (Wi-Fi station and client): `NotStranded`, `ConnectionNotStranded`,
  `TypeCorrect`, `SingleOwner`, `ReadyMeansAnswered`. A station is not stranded because a loss in
  the queue is the last thing in it that matters and the event task wakes the reconnect task after
  it has cleared the flag. One client runs because only the object made last can have a task, and
  where its owner stands says what it may be doing (`Phases`); ready is real because behind the
  closed gate the flags are never both set for the old object (`Flags`).
* **WakeProofs**, verification: `VerificationTypeCorrect`, `StartedOnce`. Starts are counted together
  with the right to start (`Right`): it lies with the wake task until a request is registered, with
  the pending request until it is completed, and is then used up by a start or a rejection.
* **WakeProofs**, model: `ModelTypeCorrect`, `DownloadFlagIsReal`. `ModelInv` adds to the types that
  the downloads not yet counted have no task (`Uncounted`, `Unborn`) and that a task knows its own
  number (`Numbered`): a download that was superseded finds another number in the counter and leaves
  the flag to the newer one.
* **WakeProofs**, window: `WindowTypeCorrect`, `DetectsOnLatest`. `SlotOf` is where the score of an age lies in the ring. `AtRest` says that the scores noted since the last disturbance lie at their
  places, `AtPut` and `AtCount` the same halfway through a score, when it has gone in and index or
  count are not up to date. After a disturbance nothing is claimed until as many scores have been
  noted as the window holds: the ring heals by being written over, whatever a reset left in it.
* **OtaUpdateProofs**: `ScannerExact`, `UpdateScansExactly`, `OnlyOwnFamilyBoots`,
  `HandlesGivenBack`, `UpdateTypeCorrect`. The scanner's invariant (`FamilyInv`) is the one of
  string matching: between two bytes `matched` is the length of the longest proper prefix of the
  marker that the stream ends with; with a byte at hand no longer prefix than `matched` continues
  with that byte. The prefixes a stream ends with are the borders of a longer one (`BorderEnds`), so
  `FallBack` skips none. It holds for every marker and stream. `UpdateInv` adds what is known of the
  image by stage (`ImageInv`), who owns handle, client and context (`HandleInv`, `ContextInv`) and
  that requests do not overlap (`RequestInv`): a second one is accepted only once the context of the
  first was freed.
* **SendspinProofs**, clock: `SnapshotIsAtomic`. `Parity` says that the sequence number is odd exactly
  while the interrupt or a reset stands between its two increments, `Whole` that frames and stamp
  belong together outside of that, `Snapshot` that what a poll has loaded so far belongs to the
  clock as long as the sequence number it began with still stands. So a poll that finds the number
  unchanged has loaded one completion, whatever came between its loads.
* **SendspinProofs**, accounts: `ReportsAreComplete`, on top of the clock's invariant. `Sent` says
  that no frame on its way through the channel is missing from the clock, `Books` that every frame
  submitted is either silence from before the stream or the stream's, and every completed one that
  the poll has taken was silence, is reported or is about to be; `News` that a completion the poll
  has not taken has a notification on its way. Failed writes and a poll that straddles two streams
  void the accounts, in the code and in the invariant (`Told`).
* **SendspinProofs**, overlay: `DuckIsCurrent`, `OverlayKeepsOrder`. The ducking is current because
  nobody has seen a revision that is not published (`DuckSeen`). The ring has no lock: `Filled` says
  that every frame between the positions is in its cell, `Reader` that what the music has copied was
  there when it loaded the positions, `Writer` that the piece on its way in lies within the room that
  was seen for it. Two positions less than a ring apart have cells of their own, so neither writes
  where the other reads. All of it ends when a reset finds the music at the ring (`torn`, section 4).
* **PlaybackProofs**, download: `NobodyMissesWake`, `BufferOutlivesUse`, `DownloadIsChannel`.
  `StreamInv` has four parts: `Shape` (types, and the fill as the distance of the indices), `Control`
  (where reader and player can stand for each state of the buffer), `Ending` (what the flags of the
  end entitle to) and `NoMissedWake` itself: who waits finds its semaphore given, or the other end has
  yet to give it. `DownloadIsChannel` is a refinement: lemmas about the ring say that a copy in
  appends to, and a copy out takes from the front of, the queue that lies between its indices, for
  every capacity, and each step of the download maps to a step of `AudioChannel` or to none.
* **PlaybackProofs**, scene: `RingOutlivesUse`, `SceneIsChannel`. `Lasting` says where the background
  task can stand for each state of the scene that may free the ring. The refinement is the
  download's with another ring: a piece that would go over the end of the memory is cut there
  (`PieceFits`), so it needs no second copy, and no cell that is still to be mixed is among its own.
* **PlaybackProofs**, watchdog: `RecoveryTypeCorrect`, `OnlyOvertakenAlarms`. `Age` is the time since
  a reading on a clock that wraps. `Watched` says that a look is fresh, or one tick old with its
  task due, and that the last progress noted is at most a tick older than the output's last
  movement: so an elapsed time of a stall is either true or, modulo the word, one less than nothing,
  and the latter is a note of a time after the look's. The clock's wrap alone misleads nobody.
* The types of what carries audio: `RenderTypeCorrect` and `OverlayTypeCorrect` (SendspinProofs),
  `StreamTypeCorrect` and `SceneTypeCorrect` (PlaybackProofs). The bounds of the counters are what
  needs an argument. `Limits`: as long as no write failed, what is on the clock is silence or
  counted as written, less what is left of the block. `Published`: the revision, with what is still
  owed (`ClipOwes`, `SongsOwe`, `VoiceOwes`), is paid for by the overlays and wishes so far.
  `ClipFits`: a piece on its way in is within its clip. `Counted`: what a reader has read and what is
  left make the file, so no unit bears a number beyond its end.
* **DeviceProofs**, power, outputs and radio: `PowerTypeCorrect`, `ContractIsReal`,
  `OutputsAreRight`, `SilentForAudio`, `OwnEntries`, `CountersBalance`, and the types of outputs,
  scanner and adverts. A contract is for the voltage supplied, because of
  the request that is out and the offer that is unread there is one each (`OneRequest`, `OneOffer`), a
  PS_RDY in the queue stands for what is supplied (`ReadyIsSupplied`), and what the source said last
  fits where it stands (`SaidFits`): it is what a repetition brings again. `OutputInv` says for
  whoever holds the mutex what it has still to switch; `ScanInv` that a poll which saw audio has
  stopped a discovery before it counts as paused; `TableInv` that no two entries of the dedupe table
  are about the same advert. `CountersBalance` is proved only, no run checks `AllAccounted`: each
  advert heard is counted once or lies in one of the two batches, because a batch that is out between
  the two locks is in the main loop's hand, and only there (`Sending`).
* **DeviceProofs**, button: `GestureTypeCorrect`, `SetupOnlyIfMeant`. The property speaks of the presses as they were, the
  code keeps only counters: `Chain` says that the clicks counted are the latest presses, short, not
  stopped and close enough together; `Resting` and `Pressing` relate the counters to the time since
  the last edge and to the press under way; `Armed` says that the reset is armed exactly when all
  clicks were counted. It holds for every length of window, click and hold that the assumption admits.

* **DeviceProofs**, the sum: `DeviceTypeCorrect`, `DeviceIsSafe`. `EachStep` says what a step of
  `MCDevice` is to each of its components: one of its own or none. The exception is the power in a
  behaviour about the outputs, whose contract changes in every way it might (`ContractChanges`);
  there only its types and `ContractIsSupplied` are kept, not the invariant of the negotiation.
  What is proved of each component alone then holds of the specification the run checks.

Proved though no run checks them by name: `TypeOK` of timers, speaker and connection, `HandleLive`,
`CurrentPlayback`, `StopKept`, `ReadyIsReal`, `GivesBack`, `AudioInOrder`, `VoiceTypeOK`,
`RunningIsReal`, `RecoveryTypeOK`, `OnlyNotesMislead`, `AllAccounted`, `GivesOwnSession`,
`RenderTypeOK`, `OverlayTypeOK`, `StreamTypeOK`, `SceneTypeOK`. TLC was asked about each of them before.

Only model-checked: everything about liveness (the prover handles neither fairness nor ENABLED for
these specifications). Every safety property of the runs, and all four refinements, are theorems.
Facts that need induction over data are out of the prover's reach, which is why the models avoid
recursion.

## 6. What is not modelled, and the plan

Left out for good: rendering of LEDs and display, codec and sample arithmetic, neural inference,
filters of the direction of arrival, register programming of the boards, form and JSON parsing,
build tooling, host scripts and vendored code. They make up most of the tree: of its 73 000 lines
some 24 000 are the firmware's own under src/main (without the XMOS sources and the host libraries),
and most of those draw, parse or write registers. No property is about them beyond the choices that
the models leave open. The update of the XMOS chip follows the protocol of a boot ROM that is not
in the repository.

What would come next, in this order:

1. `AudioTxQueue`: the upload queue's semaphore, on which `VoiceSession`'s sender waits, with the
   token that is lost at tater_protocol.c:748; the watchdog of a chat against a newer session.
2. The reassembly of text messages (tater_protocol.c 2652-2737) with a loss of the link in the
   middle of one.
3. The capture ring, close misses and the upload of a wake word (wake_engine.cc 883-1450), and the
   download of wake sounds (1643-1795), which shares the cache with `WakeModel`.
4. The settings: their writes without a lock, and the NVS save.

