---------------------------- MODULE BleScanner ----------------------------
(***************************************************************************)
(* When the Bluetooth radio scans (main/ble_scanner.c).  The host's task   *)
(* delivers resets and syncs; the main loop polls: it starts the scan and  *)
(* stops it while audio is on.  What is heard is in BleAdverts.            *)
(*                                                                         *)
(* What is done under s_ble_lock is one step, and the flags that are read  *)
(* outside are words.                                                      *)
(***************************************************************************)
EXTENDS Naturals

VARIABLES
  requested, initialized, synced, scanning, paused,   \* s_requested_enabled ...
  discovering, \* ble_gap_disc_active
  sync,        \* the host has yet to sync, did so, or found no address
  host,        \* where the host's task stands
  poll,        \* where the main loop stands in tater_ble_scanner_poll
  busy,        \* its audio_busy
  stopFailed,  \* history: its last attempt to stop the scan failed
  calm         \* no more audio, resets and refusals

flags == <<requested, initialized, synced, scanning, paused>>
polling == <<poll, busy, stopFailed>>
ble == <<flags, discovering, sync, host, polling, calm>>

ScannerTypeOK ==
  /\ {requested, initialized, synced, scanning, paused, discovering, busy, stopFailed, calm}
       \subseteq BOOLEAN
  /\ sync \in {"due", "done", "failed"} /\ host \in {"idle", "complete", "reset"}
  /\ poll \in {"idle", "stack", "want", "start", "started", "refused", "stop", "flush"}

ScannerInit ==
  /\ requested = TRUE   \* after tater_ble_scanner_init
  /\ initialized = FALSE /\ synced = FALSE /\ scanning = FALSE /\ paused = FALSE
  /\ discovering = FALSE /\ sync = "due" /\ host = "idle"
  /\ poll = "idle" /\ busy = FALSE /\ stopFailed = FALSE
  /\ calm = FALSE

Calm ==
  /\ ~calm /\ calm' = TRUE
  /\ UNCHANGED <<flags, discovering, sync, host, polling>>

-----------------------------------------------------------------------------
(* The host's task: gap_event, on_reset and on_sync.                       *)

Hosts(from, to) == initialized /\ host = from /\ host' = to

(* The host ends the discovery and then says so. *)
DiscoveryEnds ==
  /\ Hosts("idle", "complete") /\ ~calm
  /\ discovering /\ discovering' = FALSE
  /\ UNCHANGED <<flags, sync, polling, calm>>

DiscoveryComplete ==
  /\ Hosts("complete", "idle")
  /\ scanning' = FALSE
  /\ UNCHANGED <<requested, initialized, synced, paused, discovering, sync,
                 polling, calm>>

HostResets ==
  /\ Hosts("idle", "reset") /\ ~calm
  /\ discovering' = FALSE
  /\ UNCHANGED <<flags, sync, polling, calm>>

OnReset ==
  /\ Hosts("reset", "idle")
  /\ synced' = FALSE /\ scanning' = FALSE /\ sync' = "due"
  /\ UNCHANGED <<requested, initialized, paused, discovering, polling, calm>>

OnSync ==
  /\ Hosts("idle", "idle")
  /\ sync = "due"
  /\ \/ sync' = "done" /\ synced' = TRUE
     \/ sync' = "failed" /\ synced' = FALSE
  /\ UNCHANGED <<requested, initialized, scanning, paused, discovering,
                 polling, calm>>

HostTask ==
  DiscoveryEnds \/ DiscoveryComplete \/ HostResets \/ OnReset \/ OnSync

-----------------------------------------------------------------------------
(* tater_ble_scanner_poll.                                                 *)

Polls(from, to) == poll = from /\ poll' = to

(* Faulty form of PollBegin: the pause is set and not taken back. *)
PollBeginPauses(audio) ==
  /\ Polls("idle", IF requested /\ ~initialized THEN "stack" ELSE "want")
  /\ calm => ~audio
  /\ paused' = (paused \/ (requested /\ audio))
  /\ busy' = audio
  /\ UNCHANGED <<requested, initialized, synced, scanning, discovering, sync,
                 host, stopFailed, calm>>

PollBegin(audio) ==
  /\ Polls("idle", IF requested /\ ~initialized THEN "stack" ELSE "want")
  /\ calm => ~audio
  /\ paused' = (requested /\ audio)
  /\ busy' = audio
  /\ UNCHANGED <<requested, initialized, synced, scanning, discovering, sync,
                 host, stopFailed, calm>>

StartStack ==
  /\ Polls("stack", "want")
  /\ initialized' = TRUE
  /\ UNCHANGED <<requested, synced, scanning, paused, discovering, sync, host,
                 busy, stopFailed, calm>>

(* Without memory for the controller the scanner is off until a reboot. *)
StartStackFailed ==
  /\ Polls("stack", "want")
  /\ requested' = FALSE
  /\ UNCHANGED <<initialized, synced, scanning, paused, discovering, sync,
                 host, busy, stopFailed, calm>>

(* Faulty form of MustStop: s_scanning is taken for what the radio does. *)
MustStopStale == scanning

MustStop == scanning \/ (initialized /\ discovering)

WantScan ==
  /\ Polls("want", IF requested /\ synced /\ ~busy THEN "start"
                   ELSE IF MustStop THEN "stop" ELSE "flush")
  /\ stopFailed' = FALSE
  /\ UNCHANGED <<flags, discovering, sync, host, busy, calm>>

(* start_scan asks again. *)
StartNot ==
  /\ Polls("start", "flush")
  /\ ~synced \/ paused \/ discovering
  /\ UNCHANGED <<flags, discovering, sync, host, busy, stopFailed, calm>>

StartScan ==
  /\ Polls("start", "started")
  /\ synced /\ ~paused /\ ~discovering /\ host # "reset"
  /\ discovering' = TRUE
  /\ UNCHANGED <<flags, sync, host, busy, stopFailed, calm>>

StartRefused ==
  /\ Polls("start", "refused")
  /\ synced /\ ~paused /\ ~discovering /\ (calm => host = "reset")
  /\ UNCHANGED <<flags, discovering, sync, host, busy, stopFailed, calm>>

StartMarked ==
  /\ Polls("started", "flush") \/ Polls("refused", "flush")
  /\ scanning' = (poll = "started")
  /\ UNCHANGED <<requested, initialized, synced, paused, discovering, sync,
                 host, busy, stopFailed, calm>>

(* stop_scan, with nothing to stop and with something. *)
StopMarked ==
  /\ Polls("stop", "flush")
  /\ ~discovering /\ scanning' = FALSE
  /\ UNCHANGED <<requested, initialized, synced, paused, discovering, sync,
                 host, busy, stopFailed, calm>>

StopScan ==
  /\ Polls("stop", "flush")
  /\ discovering /\ discovering' = FALSE
  /\ UNCHANGED <<flags, sync, host, busy, stopFailed, calm>>

StopRefused ==
  /\ Polls("stop", "flush") /\ ~calm
  /\ discovering /\ stopFailed' = TRUE
  /\ UNCHANGED <<flags, discovering, sync, host, busy, calm>>

(* What has come together is sent: BleAdverts. *)
PollEnd ==
  /\ Polls("flush", "idle")
  /\ UNCHANGED <<flags, discovering, sync, host, busy, stopFailed, calm>>

PollTask ==
  \/ \E audio \in BOOLEAN : PollBegin(audio)
  \/ StartStack \/ StartStackFailed \/ WantScan
  \/ StartNot \/ StartScan \/ StartRefused \/ StartMarked
  \/ StopMarked \/ StopScan \/ StopRefused \/ PollEnd

-----------------------------------------------------------------------------

ScannerNext == Calm \/ HostTask \/ PollTask

(* The main loop polls and the host's task runs. *)
ScannerFairness == WF_ble(PollTask) /\ WF_ble(HostTask)

ScannerSpec == ScannerInit /\ [][ScannerNext]_ble /\ ScannerFairness

-----------------------------------------------------------------------------
(* Properties.                                                             *)

(* README.md:250, the scanner "pauses during critical voice/playback       *)
(* activity": between two polls of which the first saw audio the radio     *)
(* does not scan, unless the host refused to stop.                         *)
PausesForAudio == poll = "idle" /\ paused => ~discovering \/ stopFailed

(* Once audio, resets and refusals end, the scan goes on for good, unless  *)
(* the controller was not started or has no address.                       *)
ScanResumes == <>[]calm => <>[](requested /\ sync # "failed" => discovering)

=============================================================================
