-------------------------- MODULE WakeVerification --------------------------
(***************************************************************************)
(* What happens between a wake word and its voice session when the server  *)
(* is asked for its opinion (main/wake_engine.cc, with the upload task of  *)
(* main/tater_protocol.c).  A detection is decided by whoever comes first: *)
(* the answer, the timeout task, a failed upload, or the wake task itself  *)
(* when it cannot ask.  The server may not answer, or answer too late.     *)
(*                                                                         *)
(* A detection is named by its number, which is also its request id; the   *)
(* wrap of the 32-bit id is out of reach.  What is done under              *)
(* s_wake_verifier_lock is one step.  The cool-down of a detection may be  *)
(* shorter than the timeout, so nothing keeps two of them apart.           *)
(***************************************************************************)
EXTENDS Naturals, FiniteSets

CONSTANT MaxDetections   \* bound: wake words heard

ASSUME VerificationAssumption == MaxDetections \in Nat \ {0}

VARIABLES
  mode,       \* wake_verifier_mode, as the event task sets it
  detection,  \* the number of wake words heard
  wake,       \* where the wake task stands
  required,   \* s_last_verification_required of the detection at hand
  enforce,    \* history: the detections registered with enforce
  queued,     \* what queue_wake_verification returned
  last,       \* s_wake_verifier_last_id
  completed,  \* s_wake_verifier_completed_id
  pending,    \* s_wake_verifier_pending_id, 0 when nothing is pending
  upload,     \* of each request: "none", "queued" for its task, "sent"
  waiters,    \* the requests with a wake_verifier_timeout_task
  owed,       \* sessions a task has decided to start and not started
  sessions,   \* history: sessions started for each detection
  rejected,   \* history: the detections rejected while pending
  unsettled   \* history: the detections during which the mode was changed

request == <<enforce, last, completed, pending, upload, waiters>>
outcome == <<owed, sessions, rejected>>
verification == <<mode, detection, wake, required, queued, request, outcome, unsettled>>

Detections == 1..MaxDetections

VerificationTypeOK ==
  /\ mode \in {"off", "observe", "enforce"}
  /\ detection \in 0..MaxDetections
  /\ wake \in {"idle", "queue", "send", "timeout", "decide"}
  /\ required \in BOOLEAN /\ queued \in BOOLEAN
  /\ {last, pending} \subseteq 0..detection /\ completed \in {0, last}
  /\ upload \in [Detections -> {"none", "queued", "sent"}]
  /\ owed \in [Detections -> 0..2] /\ sessions \in [Detections -> 0..2]
  /\ \A set \in {enforce, waiters, rejected, unsettled} : set \subseteq Detections

VerificationInit ==
  /\ mode \in {"off", "observe", "enforce"}
  /\ detection = 0 /\ wake = "idle" /\ required = FALSE /\ queued = FALSE
  /\ last = 0 /\ completed = 0 /\ pending = 0
  /\ upload = [id \in Detections |-> "none"]
  /\ owed = [id \in Detections |-> 0] /\ sessions = [id \in Detections |-> 0]
  /\ enforce = {} /\ waiters = {} /\ rejected = {} /\ unsettled = {}

-----------------------------------------------------------------------------
(* Faulty form of Complete: the request is not marked as completed. *)
CompleteAgain(id, accepted) ==
  IF id = last /\ id # completed
    THEN /\ owed' = [owed EXCEPT ![id] = IF accepted THEN @ + 1 ELSE @]
         /\ rejected' = IF pending = id /\ ~accepted THEN rejected \cup {id} ELSE rejected
         /\ UNCHANGED <<completed, pending>>
    ELSE UNCHANGED <<completed, pending, owed, rejected>>

(* complete_wake_verification: the first verdict of the latest request     *)
(* counts, and only when a session waits for it.                           *)
Complete(id, accepted) ==
  IF id = last /\ id # completed
    THEN /\ completed' = id
         /\ pending' = IF pending = id THEN 0 ELSE pending
         /\ owed' = [owed EXCEPT ![id] = IF pending = id /\ accepted THEN @ + 1 ELSE @]
         /\ rejected' = IF pending = id /\ ~accepted THEN rejected \cup {id} ELSE rejected
    ELSE UNCHANGED <<completed, pending, owed, rejected>>

(* start_wake_session, by the task that completed the request. *)
StartSession(id) ==
  /\ owed[id] > 0 /\ owed' = [owed EXCEPT ![id] = @ - 1]
  /\ sessions' = [sessions EXCEPT ![id] = @ + 1]
  /\ UNCHANGED <<mode, detection, wake, required, queued, request, rejected, unsettled>>

-----------------------------------------------------------------------------
(* The wake task: handle_feature_frame from a detection on.                *)

At(from, to) == wake = from /\ wake' = to

Detect ==
  /\ At("idle", "queue")
  /\ detection < MaxDetections /\ detection' = detection + 1
  /\ required' \in BOOLEAN   \* the environment is tv_nearby
  /\ UNCHANGED <<mode, queued, request, outcome, unsettled>>

(* Nothing is asked: verification is off, or there is no audio to send. *)
QueueNothing ==
  /\ At("queue", "decide") /\ queued' = FALSE
  /\ UNCHANGED <<mode, detection, required, request, outcome, unsettled>>

(* The capture is taken and the request becomes the latest.  The code      *)
(* reads the mode twice here; a change between the two is one of SetMode,  *)
(* and the properties except the detections it falls into.                 *)
QueueRegister ==
  /\ At("queue", "send")
  /\ required \/ mode # "off"
  /\ last' = detection /\ completed' = 0
  /\ IF required \/ mode = "enforce"
       THEN pending' = detection /\ enforce' = enforce \cup {detection}
       ELSE UNCHANGED <<pending, enforce>>
  /\ UNCHANGED <<mode, detection, required, queued, upload, waiters, outcome, unsettled>>

(* The upload task is created. *)
Queue ==
  /\ At("send", IF detection \in enforce THEN "timeout" ELSE "decide")
  /\ upload' = [upload EXCEPT ![detection] = "queued"]
  /\ queued' = TRUE
  /\ UNCHANGED <<mode, detection, required, enforce, last, completed, pending, waiters,
                 outcome, unsettled>>

(* Faulty form of QueueFailed: the session is left pending. *)
QueueFailedPending ==
  /\ At("send", "decide")
  /\ queued' = (detection \in enforce)
  /\ UNCHANGED <<mode, detection, required, request, outcome, unsettled>>

(* The link is not ready, or the packet or its task cannot be made. *)
QueueFailed ==
  /\ At("send", "decide")
  /\ queued' = (detection \in enforce)
  /\ Complete(detection, TRUE)
  /\ UNCHANGED <<mode, detection, required, enforce, last, upload, waiters, sessions, unsettled>>

(* Without a timeout task an enforced request is let through at once. *)
CreateTimeout ==
  /\ At("timeout", "decide")
  /\ waiters' = waiters \cup {detection}
  /\ UNCHANGED <<mode, detection, required, queued, enforce, last, completed, pending, upload,
                 outcome, unsettled>>

CreateTimeoutFailed ==
  /\ At("timeout", "decide")
  /\ Complete(detection, TRUE)
  /\ UNCHANGED <<mode, detection, required, queued, enforce, last, upload, waiters, sessions,
                 unsettled>>

(* The mode is read again to tell whether somebody else will start it. *)
Decide ==
  /\ At("decide", "idle")
  /\ sessions' = IF queued /\ (required \/ mode = "enforce")
                   THEN sessions
                   ELSE [sessions EXCEPT ![detection] = @ + 1]
  /\ UNCHANGED <<mode, detection, required, queued, request, owed, rejected, unsettled>>

WakeTask ==
  \/ Detect \/ QueueNothing \/ QueueRegister \/ Queue \/ QueueFailed
  \/ CreateTimeout \/ CreateTimeoutFailed \/ Decide

-----------------------------------------------------------------------------
(* The upload task, the timeout task and the event task.                   *)

UploadSent(id) ==
  /\ upload[id] = "queued" /\ upload' = [upload EXCEPT ![id] = "sent"]
  /\ UNCHANGED <<mode, detection, wake, required, queued, enforce, last, completed, pending,
                 waiters, outcome, unsettled>>

UploadFailed(id) ==
  /\ upload[id] = "queued" /\ upload' = [upload EXCEPT ![id] = "none"]
  /\ IF id \in enforce THEN Complete(id, TRUE)
                       ELSE UNCHANGED <<completed, pending, owed, rejected>>
  /\ UNCHANGED <<mode, detection, wake, required, queued, enforce, last, waiters, sessions,
                 unsettled>>

Answered(id, accepted) ==
  /\ upload[id] = "sent" /\ upload' = [upload EXCEPT ![id] = "none"]
  /\ Complete(id, accepted)
  /\ UNCHANGED <<mode, detection, wake, required, queued, enforce, last, waiters, sessions,
                 unsettled>>

TimedOut(id) ==
  /\ id \in waiters /\ waiters' = waiters \ {id}
  /\ Complete(id, TRUE)
  /\ UNCHANGED <<mode, detection, wake, required, queued, enforce, last, upload, sessions,
                 unsettled>>

(* tater_live_settings_apply, also in the middle of a detection. *)
SetMode ==
  /\ mode' \in {"off", "observe", "enforce"} \ {mode}
  /\ unsettled' = IF wake = "idle" THEN unsettled ELSE unsettled \cup {detection}
  /\ UNCHANGED <<detection, wake, required, queued, request, outcome>>

-----------------------------------------------------------------------------

VerificationNext ==
  \/ WakeTask \/ SetMode
  \/ \E id \in Detections :
       \/ StartSession(id) \/ UploadSent(id) \/ UploadFailed(id) \/ TimedOut(id)
       \/ \E accepted \in BOOLEAN : Answered(id, accepted)

(* The tasks run and timeouts pass.  Nothing is asked of the server. *)
VerificationFairness ==
  /\ WF_verification(WakeTask)
  /\ \A id \in Detections : WF_verification(StartSession(id)) /\ WF_verification(TimedOut(id))

VerificationSpec ==
  VerificationInit /\ [][VerificationNext]_verification /\ VerificationFairness

-----------------------------------------------------------------------------
(* Properties.                                                             *)

(* However answer, timeout, failed upload and failed tasks race, a wake    *)
(* word starts at most one session, and none after the server rejected it  *)
(* in time; unless the mode changed while the wake task was at it.         *)
OneVerdict ==
  \A id \in Detections \ unsettled :
    owed[id] + sessions[id] <= IF id \in rejected THEN 0 ELSE 1

(* README.md:103, "with fail-open handling if verification is unavailable  *)
(* or times out": a wake word is rejected, followed by another that asks,  *)
(* or starts its session; under the same condition.                        *)
FailsOpen ==
  \A id \in Detections :
    []<>(\/ detection < id \/ last > id
         \/ sessions[id] > 0 \/ id \in rejected \/ id \in unsettled)

=============================================================================
