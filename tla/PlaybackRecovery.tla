-------------------------- MODULE PlaybackRecovery --------------------------
(***************************************************************************)
(* The playback watchdog: main/playback_recovery.c, the calls that the     *)
(* playback task makes to it from main/playback.c, and                     *)
(* playback_recovery_task, which looks at the speaker's render clock at    *)
(* every poll and stops a playback whose output no longer moves.           *)
(*                                                                         *)
(* Both read the render clock and the time before they enter the critical  *)
(* section that guards the state; what they do inside it is one step.  A   *)
(* tick is one poll interval, and neither is held up for more than one     *)
(* tick there.  Time is counted as the code does, modulo a word.           *)
(***************************************************************************)
EXTENDS Naturals

CONSTANTS
  StallTicks,  \* PLAYBACK_RECOVERY_STALL_MS, in ticks
  TickWord     \* the word that milliseconds are counted in, in ticks

ASSUME RecoveryAssumption ==
  StallTicks \in Nat \ {0} /\ TickWord \in Nat /\ TickWord > 2 * StallTicks

VARIABLES
  now,       \* playback_now_ms
  frames,    \* completed_frames of the render clock; it does not come back to
             \* a value that somebody still compares it with
  recovery,  \* s_recovery_state
  running,   \* s_playing and s_abort
  output,    \* the playback task: where it stands, and what it has read
  watchdog,  \* playback_recovery_task: likewise
  late,      \* who has to take a step before the next tick
  started,   \* history: the playback has written, and not ended its output
  still      \* history: ticks for which its output has not moved since, up
             \* to StallTicks

watching == <<now, frames, recovery, running, output, watchdog, late, started, still>>

Counts == 0..3
Ticks == 0..TickWord - 1
Looks == [at : {"idle", "open", "note", "end", "wait", "looked", "log"},
          frames : Counts, time : Ticks]

RecoveryTypeOK ==
  /\ now \in Ticks /\ frames \in Counts
  /\ recovery \in [tracking : BOOLEAN, last : Counts, progress : Ticks, fired : BOOLEAN]
  /\ running \in [playing : BOOLEAN, abort : BOOLEAN]
  /\ output \in Looks /\ watchdog \in Looks
  /\ late \subseteq {"output", "watchdog"}
  /\ started \in BOOLEAN /\ still \in 0..StallTicks

RecoveryInit ==
  /\ now = 0 /\ frames = 0
  /\ recovery = [tracking |-> FALSE, last |-> 0, progress |-> 0, fired |-> FALSE]
  /\ running = [playing |-> FALSE, abort |-> FALSE]
  /\ output = [at |-> "idle", frames |-> 0, time |-> 0]
  /\ watchdog = [at |-> "wait", frames |-> 0, time |-> 0]
  /\ late = {} /\ started = FALSE /\ still = 0

-----------------------------------------------------------------------------
(* The playback task.                                                      *)

(* Faulty form of NewSession: whether it has fired is not forgotten. *)
NewSessionStillFired == [tracking |-> FALSE, last |-> 0, progress |-> 0,
                         fired |-> recovery.fired]

(* tater_playback_recovery_reset *)
NewSession == [tracking |-> FALSE, last |-> 0, progress |-> 0, fired |-> FALSE]

(* playback_begin_start, once it has the speaker. *)
BeginSession ==
  /\ output.at = "idle" /\ output' = [output EXCEPT !.at = "open"]
  /\ recovery' = NewSession
  /\ running' = [playing |-> TRUE, abort |-> FALSE]
  /\ UNCHANGED <<now, frames, watchdog, late, started, still>>

(* playback_speaker_write has succeeded: playback_recovery_note_output     *)
(* reads the clocks.                                                       *)
WriteOutput ==
  /\ output.at = "open" /\ ~running.abort
  /\ output' = [at |-> "note", frames |-> frames, time |-> now]
  /\ UNCHANGED <<now, frames, recovery, running, watchdog, late, started, still>>

(* tater_playback_recovery_note_output *)
NoteOutput ==
  /\ output.at = "note" /\ output' = [at |-> "open", frames |-> 0, time |-> 0]
  /\ recovery' =
       IF ~recovery.fired /\ (recovery.tracking => output.frames # recovery.last)
       THEN [recovery EXCEPT !.tracking = TRUE, !.last = output.frames,
                             !.progress = output.time]
       ELSE recovery
  /\ started' = TRUE
  /\ late' = late \ {"output"}
  /\ UNCHANGED <<now, frames, running, watchdog, still>>

(* playback_speaker_end begins with tater_playback_recovery_stop_output. *)
StopOutput ==
  /\ output.at = "open" /\ output' = [output EXCEPT !.at = "end"]
  /\ recovery' = [recovery EXCEPT !.tracking = FALSE]
  /\ started' = FALSE /\ still' = 0
  /\ UNCHANGED <<now, frames, running, watchdog, late>>

(* tater_playback_stop, and the start of another playback. *)
StopRunning ==
  /\ running.playing /\ running' = [running EXCEPT !.abort = TRUE]
  /\ UNCHANGED <<now, frames, recovery, output, watchdog, late, started, still>>

(* playback_mark_finished *)
FinishSession ==
  /\ output.at = "end" /\ output' = [output EXCEPT !.at = "idle"]
  /\ recovery' = [recovery EXCEPT !.tracking = FALSE]
  /\ running' = [playing |-> FALSE, abort |-> FALSE]
  /\ UNCHANGED <<now, frames, watchdog, late, started, still>>

-----------------------------------------------------------------------------
(* The watchdog.                                                           *)

(* A poll reads s_playing and s_abort, the render clock and the time. *)
Look ==
  /\ watchdog.at = "wait" /\ "watchdog" \in late /\ late' = late \ {"watchdog"}
  /\ watchdog' = IF running.playing /\ ~running.abort
                 THEN [at |-> "looked", frames |-> frames, time |-> now] ELSE watchdog
  /\ UNCHANGED <<now, frames, recovery, running, output, started, still>>

(* tater_playback_recovery_observe_output; the difference of the times is  *)
(* taken modulo the word.                                                  *)
Observe ==
  LET quiet   == ~recovery.tracking \/ recovery.fired
      moved   == watchdog.frames # recovery.last
      elapsed == (watchdog.time + TickWord - recovery.progress) % TickWord
      fires   == ~quiet /\ ~moved /\ elapsed >= StallTicks
  IN /\ watchdog.at = "looked"
     /\ recovery' =
          IF fires THEN [recovery EXCEPT !.fired = TRUE]
          ELSE IF ~quiet /\ moved
          THEN [recovery EXCEPT !.last = watchdog.frames, !.progress = watchdog.time]
          ELSE recovery
     /\ watchdog' = [at |-> IF fires THEN "log" ELSE "wait", frames |-> 0, time |-> 0]
     /\ UNCHANGED <<now, frames, running, output, late, started, still>>

(* The warning has been sent to the server, however long that took, and    *)
(* the playback, whichever it is by now, is stopped.                       *)
RaiseAbort ==
  /\ watchdog.at = "log" /\ watchdog' = [watchdog EXCEPT !.at = "wait"]
  /\ running' = [running EXCEPT !.abort = TRUE]
  /\ UNCHANGED <<now, frames, recovery, output, late, started, still>>

WatchdogTask == Look \/ Observe \/ RaiseAbort

-----------------------------------------------------------------------------

(* The render clock moves, as long as there is something to play. *)
OutputMoves ==
  /\ running.playing /\ still' = 0
  /\ frames' = CHOOSE n \in Counts : n \notin {recovery.last, output.frames, watchdog.frames}
  /\ UNCHANGED <<now, recovery, running, output, watchdog, late, started>>

(* A poll interval goes by; a poll is due unless the watchdog is busy with *)
(* its warning.                                                            *)
Tick ==
  /\ late = {} /\ now' = (now + 1) % TickWord
  /\ still' = IF started /\ still < StallTicks THEN still + 1 ELSE still
  /\ late' = (IF watchdog.at = "log" THEN {} ELSE {"watchdog"})
             \cup (IF output.at = "note" THEN {"output"} ELSE {})
  /\ UNCHANGED <<frames, recovery, running, output, watchdog, started>>

PlaybackSteps ==
  BeginSession \/ WriteOutput \/ NoteOutput \/ StopOutput \/ StopRunning \/ FinishSession

RecoveryNext == PlaybackSteps \/ WatchdogTask \/ OutputMoves \/ Tick

(* Time passes, the watchdog runs, and so does what the playback task does *)
(* after a write; the task itself may wait for the network.                *)
RecoveryFair ==
  WF_watching(Tick) /\ WF_watching(WatchdogTask) /\ WF_watching(NoteOutput)

RecoverySpec == RecoveryInit /\ [][RecoveryNext]_watching /\ RecoveryFair

(* An output that has been still for as long as it may be does not stay    *)
(* so: it moves, ends or is stopped.                                       *)
StalledIsStopped ==
  []<>(still < StallTicks \/ running.abort)

(* The watchdog stops what has stalled, and nothing else. *)
StopsOnlyStalled ==
  [][RaiseAbort /\ running.playing /\ ~running.abort => still = StallTicks]_watching

(* It does so because of what it looks at, the note of which may have been *)
(* entered later: a verdict is wrong only if the playback task, between    *)
(* the look and the verdict, noted progress of a later time than that of   *)
(* the look, so that the time between them is a negative number.  (Still   *)
(* begins with the note, which may take a tick; and what moves only after  *)
(* the look comes too late.)                                               *)
Raised == watchdog.at = "looked" /\ watchdog'.at = "log"
NotedLater == recovery.progress = (watchdog.time + 1) % TickWord

OnlyNotesMislead ==
  [][Raised /\ frames = watchdog.frames => still + 1 >= StallTicks \/ NotedLater]_watching

=============================================================================
