----------------------------- MODULE ScoreWindow -----------------------------
(***************************************************************************)
(* On which scores a wake word is detected (main/wake_engine.cc): the      *)
(* microphone task lets the model score every other feature of the audio   *)
(* and keeps the last scores in a ring, as many as the settings say.  The  *)
(* ring is emptied when another model takes over, the timers' stop model   *)
(* included, when detection pauses and when a session begins; the last     *)
(* from another task, if the wake word was verified first.                 *)
(*                                                                         *)
(* Nothing is locked.  A score is its age, in scores: 0 for the latest,    *)
(* Stale for one from before a pause, one too old for any window and the   *)
(* zero of an empty slot.  What the scores are is free, and so what the    *)
(* policy for sensitivity and environment makes of a full window.          *)
(***************************************************************************)
EXTENDS Naturals

CONSTANTS
  MaxWindow,    \* kMaxSlidingWindow
  StopWindow,   \* the window of the stop model
  Skips         \* the board leaves the engine out while a session is on

ASSUME WindowAssumption ==
  /\ MaxWindow \in Nat \ {0} /\ StopWindow \in 1..MaxWindow
  /\ Skips \in BOOLEAN

VARIABLES
  size,       \* wake_sliding_window of the settings
  asked,      \* s_timer_stop_mode_requested
  scores,     \* s_score_window, s_score_window_index, s_score_window_count
  listener,   \* the microphone task: where it stands, the window it last
              \* used, what it has loaded of scores, s_timer_stop_mode_active
              \* and s_runtime_was_enabled
  verifying,  \* a wake word waits for its verification
  resetter,   \* where the task that completes this stands in reset_buffers
  alone,      \* history: nobody disturbed the score that is being noted
  steady      \* history: how many scores have been noted since the last
              \* disturbance, up to what is certain

scoring == <<size, asked, scores, listener, verifying, resetter, alone, steady>>

Windows == 1..MaxWindow
Slots == 0..(MaxWindow - 1)
Stale == MaxWindow
Certain == MaxWindow + 1

Listener ==
  [at : {"idle", "gate", "put", "advance", "count", "judge"}, window : Windows,
   index : Slots, count : 0..MaxWindow, stop : BOOLEAN, enabled : BOOLEAN]

WindowTypeOK ==
  /\ size \in Windows /\ asked \in BOOLEAN
  /\ scores \in [slots : [Slots -> 0..Stale], index : Slots, count : 0..MaxWindow]
  /\ listener \in Listener
  /\ verifying \in BOOLEAN /\ resetter \in {"idle", "index", "slots"}
  /\ alone \in BOOLEAN /\ steady \in 0..Certain

Emptied == [slots |-> [i \in Slots |-> Stale], index |-> 0, count |-> 0]

WindowInit ==
  /\ size \in Windows /\ asked = FALSE
  /\ scores = Emptied
  /\ listener = [at |-> "idle", window |-> size, index |-> 0, count |-> 0,
                 stop |-> FALSE, enabled |-> FALSE]
  /\ verifying = FALSE /\ resetter = "idle"
  /\ alone = TRUE /\ steady = Certain

-----------------------------------------------------------------------------
(* Settings and timers.                                                    *)

ChooseWindow ==
  /\ size' \in Windows \ {size}
  /\ UNCHANGED <<asked, scores, listener, verifying, resetter, alone, steady>>

AskForStop ==
  /\ asked' = ~asked
  /\ UNCHANGED <<size, scores, listener, verifying, resetter, alone, steady>>

-----------------------------------------------------------------------------
(* The microphone task.                                                    *)

Listening(from, changed) ==
  /\ listener.at = from /\ listener' = changed
  /\ UNCHANGED <<size, asked, resetter>>

Stands(to) == [listener EXCEPT !.at = to]

(* reset_buffers in this task *)
Empties ==
  /\ scores' = Emptied
  /\ steady' = IF resetter = "idle" THEN Certain ELSE steady

(* The scores noted so far are from before a pause. *)
Paused == [scores EXCEPT !.slots = Emptied.slots]

(* The board's loop, for a chunk of a session. *)
SkipChunk ==
  /\ Skips /\ Listening("idle", listener)
  /\ scores' = Paused /\ steady' = 0
  /\ UNCHANGED <<verifying, alone>>

(* enter_timer_stop_mode and restore_saved_wake_model configure a model. *)
SwitchStop ==
  /\ asked # listener.stop
  /\ Listening("idle", [Stands("gate") EXCEPT !.stop = asked])
  /\ Empties /\ UNCHANGED <<verifying, alone>>

(* The old model may have been configured again, the gate stays closed.    *)
SwitchStopFails ==
  /\ asked # listener.stop /\ Listening("idle", Stands("gate"))
  /\ Empties \/ UNCHANGED <<scores, steady>>
  /\ UNCHANGED <<verifying, alone>>

(* consume_pending_custom_model, ensure_selected_wake_model *)
SwitchModel ==
  /\ ~asked /\ ~listener.stop /\ Listening("idle", Stands("gate"))
  /\ Empties /\ UNCHANGED <<verifying, alone>>

SameModel ==
  /\ asked = listener.stop /\ Listening("idle", Stands("gate"))
  /\ UNCHANGED <<scores, verifying, alone, steady>>

(* runtime_enabled says no: for cooldown, session, mute, playback, ... *)
GateClosed ==
  /\ Listening("gate", [Stands("idle") EXCEPT !.enabled = FALSE])
  /\ IF listener.enabled THEN Empties ELSE scores' = Paused /\ UNCHANGED steady
  /\ UNCHANGED <<verifying, alone>>

(* Each second feature is scored, and a chunk may have none or several. *)
Onward == {"idle", "put"}

GateOpen ==
  /\ asked = listener.stop
  /\ \E to \in Onward : Listening("gate", [Stands(to) EXCEPT !.enabled = TRUE])
  /\ UNCHANGED <<scores, verifying, alone, steady>>

(* score_window_triggered *)
PutScore ==
  LET window == IF listener.stop THEN StopWindow ELSE size
      older(age) == IF age < Stale THEN age + 1 ELSE age
  IN /\ Listening("put", [Stands("advance") EXCEPT !.window = window, !.index = scores.index,
                                               !.count = scores.count])
     /\ scores' = [scores EXCEPT
          !.slots = [i \in Slots |-> IF i = scores.index THEN 0 ELSE older(@[i])]]
     /\ steady' = IF window = listener.window \/ scores.count = 0 THEN steady ELSE 0
     /\ alone' = TRUE
     /\ UNCHANGED verifying

(* Faulty form of Advance: it wraps where the memory ends. *)
AdvanceToMax ==
  /\ Listening("advance", [Stands("count") EXCEPT !.index = 0])
  /\ \E loaded \in {listener.index, scores.index} :
       scores' = [scores EXCEPT !.index = (loaded + 1) % MaxWindow]
  /\ UNCHANGED <<verifying, alone, steady>>

(* The index is loaded once or twice. *)
Advance ==
  /\ Listening("advance", [Stands("count") EXCEPT !.index = 0])
  /\ \E loaded \in {listener.index, scores.index} :
       scores' = [scores EXCEPT !.index = (loaded + 1) % listener.window]
  /\ UNCHANGED <<verifying, alone, steady>>

(* The count too. *)
CountScore ==
  /\ Listening("count", [Stands("judge") EXCEPT !.count = 0])
  /\ \E loaded \in {listener.count, scores.count} :
       scores' = IF loaded < listener.window
                   THEN [scores EXCEPT !.count = loaded + 1] ELSE scores
  /\ steady' = IF alone /\ steady < Certain THEN steady + 1 ELSE steady
  /\ UNCHANGED <<verifying, alone>>

Full == scores.count >= listener.window

(* score_window_value_at, from the oldest on, of a full window *)
ValueAt(offset) == scores.slots[(scores.index + offset) % listener.window]

(* Also in stop mode, where a detection dismisses the timers and no more. *)
NotDetected ==
  /\ \E to \in Onward : Listening("judge", Stands(to))
  /\ UNCHANGED <<scores, verifying, alone, steady>>

Detected ==
  /\ Full /\ ~listener.stop
  /\ \E to \in Onward : Listening("judge", Stands(to))
  /\ UNCHANGED alone

DetectedVerifies ==
  /\ Detected
  /\ verifying' = TRUE
  /\ UNCHANGED <<scores, steady>>

(* start_wake_session ends with tater_wake_engine_reset. *)
DetectedStarts ==
  /\ Detected
  /\ Empties /\ UNCHANGED verifying

MicrophoneTask ==
  \/ SkipChunk \/ SwitchStop \/ SwitchStopFails \/ SwitchModel \/ SameModel
  \/ GateClosed \/ GateOpen
  \/ PutScore \/ Advance \/ CountScore
  \/ NotDetected \/ DetectedVerifies \/ DetectedStarts

-----------------------------------------------------------------------------
(* complete_wake_verification of an answer, on the event task or on that   *)
(* of the timeout: the reset is not one step.                              *)

Resets(from, to, changed) ==
  /\ resetter = from /\ resetter' = to
  /\ scores' = changed
  /\ alone' = FALSE /\ steady' = 0
  /\ UNCHANGED <<size, asked, listener>>

ResetCount ==
  /\ verifying /\ verifying' = FALSE
  /\ Resets("idle", "index", [scores EXCEPT !.count = 0])

ResetIndex == Resets("index", "slots", [scores EXCEPT !.index = 0]) /\ UNCHANGED verifying

ResetSlots ==
  /\ Resets("slots", "idle", [scores EXCEPT !.slots = Emptied.slots])
  /\ UNCHANGED verifying

WindowNext ==
  \/ ChooseWindow \/ AskForStop
  \/ MicrophoneTask
  \/ ResetCount \/ ResetIndex \/ ResetSlots

WindowSpec == WindowInit /\ [][WindowNext]_scoring

-----------------------------------------------------------------------------
(* Properties.                                                             *)

(* A wake word is detected on the latest scores, in their order: on none   *)
(* of another model, on none from before a pause, and on none twice.  What *)
(* disturbs this (a window of another size, a reset from the other task in *)
(* the middle of a score, a board that leaves the engine out) is made good *)
(* after one score more than the window holds.                             *)
JudgesLatest ==
  listener.at = "judge" /\ Full /\ steady > listener.window =>
    \A k \in 0..(listener.window - 1) : ValueAt(k) = listener.window - 1 - k

=============================================================================
