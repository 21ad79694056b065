----------------------------- MODULE WakeProofs -----------------------------
(***************************************************************************)
(* OneVerdict for every number of wake words, JudgesLatest for every size  *)
(* of the window, and the types of the wake model.                         *)
(*                                                                         *)
(* OneVerdict counts the starts that were decided.  A step can only add    *)
(* one when it had the right to, and the right is what has to be counted   *)
(* with them: the right to start a wake word's session lies with the wake  *)
(* task until it registers an enforced request, then with the pending      *)
(* request until somebody completes it, and is then used up, by a start    *)
(* that is owed or made or by a rejection (Right).  With the mode changing *)
(* under it the wake task may act as if it still had it, so a word has two *)
(* starts at the very most (Starts).                                       *)
(*                                                                         *)
(* JudgesLatest needs to know how many of the latest scores are where they *)
(* belong: as many as were counted since the ring was emptied, or, since   *)
(* something disturbed it, all noted since but the first, which may have   *)
(* been put outside of the window (AtRest; AtPut and AtCount say it in the *)
(* middle of a score).                                                     *)
(***************************************************************************)
EXTENDS WakeVerification, ScoreWindow, WakeModel, Integers, TLAPS

One(condition) == IF condition THEN 1 ELSE 0

AtHand(id) == id > detection \/ (id = detection /\ wake # "idle")

Starts ==
  \A id \in Detections :
    owed[id] + sessions[id] + One(pending = id) + One(AtHand(id)) <=
      IF id \in enforce THEN 2 ELSE 1

Right ==
  \A id \in Detections \ unsettled :
    owed[id] + sessions[id] + One(id \in rejected) + One(pending = id)
      + One(AtHand(id) /\ id \notin enforce) <= 1

(* Only what was asked is pending, and only of a word that was heard. *)
Asked ==
  /\ enforce \subseteq 1..detection /\ unsettled \subseteq 1..detection
  /\ pending # 0 => pending \in enforce
  /\ \A id \in Detections : id \notin enforce => owed[id] = 0 /\ id \notin rejected
  /\ wake # "idle" => detection \in Detections
  /\ wake = "queue" => detection \notin enforce
  /\ wake = "timeout" => detection \in enforce /\ queued

(* What the wake task will find when it decides. *)
Foreseen ==
  wake # "idle" /\ detection \notin unsettled =>
    /\ wake \in {"send", "timeout"} => (detection \in enforce <=> required \/ mode = "enforce")
    /\ wake = "decide" =>
         (detection \in enforce <=> queued /\ (required \/ mode = "enforce"))

VerificationInv == VerificationTypeOK /\ Starts /\ Right /\ Asked /\ Foreseen

-----------------------------------------------------------------------------
LEMMA VerificationInitInv == VerificationInit => VerificationInv
<1> SUFFICES ASSUME VerificationInit PROVE VerificationInv
  OBVIOUS
<1> USE VerificationAssumption DEF VerificationInit, Detections
<1>1. VerificationTypeOK
  <2>1. mode \in {"off", "observe", "enforce"} /\ detection \in 0..MaxDetections
    OBVIOUS
  <2>2. /\ upload \in [Detections -> {"none", "queued", "sent"}]
        /\ owed \in [Detections -> 0..2] /\ sessions \in [Detections -> 0..2]
    OBVIOUS
  <2>3. {last, pending} \subseteq 0..detection /\ completed \in {0, last}
    OBVIOUS
  <2> QED
    BY <2>1, <2>2, <2>3 DEF VerificationTypeOK
<1>2. Starts
  BY DEF Starts, AtHand, One
<1>3. Right
  BY DEF Right, AtHand, One
<1>4. Asked /\ Foreseen
  BY DEF Asked, Foreseen
<1> QED
  BY <1>1, <1>2, <1>3, <1>4 DEF VerificationInv

(* Completing a request turns the right it has, if it is the pending one,  *)
(* into a start that is owed or into a rejection.                          *)
LEMMA Completion ==
  ASSUME VerificationInv, NEW id \in Detections, NEW accepted \in BOOLEAN,
         Complete(id, accepted),
         UNCHANGED <<enforce, last, sessions, detection, unsettled>>,
         \A other \in Detections : AtHand(other)' <=> AtHand(other)
  PROVE  /\ Starts' /\ Right'
         /\ pending' \in {0, pending} /\ completed' \in {0, last}
         /\ owed' \in [Detections -> 0..2]
         /\ rejected' \subseteq Detections
         /\ \A other \in Detections \ enforce : owed'[other] = 0 /\ other \notin rejected'
<1> USE DEF VerificationInv, VerificationTypeOK
<1>1. CASE pending = id /\ id = last /\ id # completed
  <2>1. /\ completed' = id /\ pending' = 0
        /\ owed' = [owed EXCEPT ![id] = IF accepted THEN @ + 1 ELSE @]
        /\ rejected' = IF accepted THEN rejected ELSE rejected \cup {id}
    BY <1>1 DEF Complete
  <2>2. id \in enforce /\ id # 0 /\ owed[id] \in 0..1
    BY <1>1 DEF Asked, Starts, One, Detections
  <2>3. Starts'
    BY <1>1, <2>1, <2>2 DEF Starts, One, Detections
  <2>4. Right'
    BY <1>1, <2>1, <2>2 DEF Right, One, Detections
  <2>5. owed' \in [Detections -> 0..2]
    BY <2>1, <2>2
  <2>6. rejected' \subseteq Detections
    BY <2>1
  <2>7. \A other \in Detections \ enforce : owed'[other] = 0 /\ other \notin rejected'
    BY <2>1, <2>2 DEF Asked
  <2> QED
    BY <1>1, <2>1, <2>3, <2>4, <2>5, <2>6, <2>7
<1>2. CASE ~(pending = id /\ id = last /\ id # completed)
  <2>1. pending' = pending /\ owed' = owed /\ rejected' = rejected /\ completed' \in {0, last}
    BY <1>2 DEF Complete
  <2>2. Starts' /\ Right'
    BY <2>1 DEF Starts, Right, One
  <2> QED
    BY <2>1, <2>2 DEF Asked
<1> QED
  BY <1>1, <1>2

-----------------------------------------------------------------------------
(* The steps that complete nothing, one by one. *)

LEMMA DetectInv == ASSUME VerificationInv, Detect PROVE VerificationInv'
<1> USE DEF VerificationInv, VerificationTypeOK, Detect, At, request, outcome
<1>1. detection' \in Detections /\ detection' = detection + 1
  BY VerificationAssumption DEF Detections
<1>2. \A id \in Detections : AtHand(id)' <=> AtHand(id)
  BY <1>1 DEF AtHand, Detections
<1>3. VerificationTypeOK'
  <2>1. detection' \in 0..MaxDetections /\ {last, pending}' \subseteq 0..detection'
    BY <1>1 DEF Detections
  <2> QED
    BY <2>1
<1>4. Starts'
  BY <1>2 DEF Starts, One
<1>5. Right'
  BY <1>2 DEF Right, One
<1>6. Asked' /\ Foreseen'
  BY <1>1 DEF Asked, Foreseen, Detections
<1> QED
  BY <1>3, <1>4, <1>5, <1>6

LEMMA RegisterInv == ASSUME VerificationInv, QueueRegister PROVE VerificationInv'
<1> USE DEF VerificationInv, VerificationTypeOK, QueueRegister, At, outcome
<1>1. detection \in Detections /\ detection \notin enforce /\ pending # detection
  BY DEF Asked, Detections
<1>2. \A id \in Detections : AtHand(id)' <=> AtHand(id)
  BY DEF AtHand
<1>3. owed[detection] = 0 /\ sessions[detection] = 0 /\ detection \notin rejected
  BY <1>1 DEF Asked, Starts, One, AtHand
<1>4. VerificationTypeOK'
  BY <1>1 DEF Detections
<1>5. Starts'
  BY <1>1, <1>2, <1>3 DEF Starts, One
<1>6. Right'
  BY <1>1, <1>2, <1>3 DEF Right, One
<1>7. Asked' /\ Foreseen'
  BY <1>1 DEF Asked, Foreseen, Detections
<1> QED
  BY <1>4, <1>5, <1>6, <1>7

LEMMA DecideInv == ASSUME VerificationInv, Decide PROVE VerificationInv'
<1> USE DEF VerificationInv, VerificationTypeOK, Decide, At, request
<1>1. detection \in Detections /\ AtHand(detection) /\ sessions[detection] \in 0..1
  BY DEF Asked, AtHand, Starts, One
<1>2. \A id \in Detections : AtHand(id)' <=> (AtHand(id) /\ id # detection)
  BY DEF AtHand, Detections
<1>3. /\ sessions' \in [Detections -> 0..2]
      /\ \A id \in Detections \ {detection} : sessions'[id] = sessions[id]
      /\ sessions'[detection] \in {sessions[detection], sessions[detection] + 1}
  BY <1>1
<1>4. Starts'
  BY <1>1, <1>2, <1>3 DEF Starts, One
<1>5. detection \notin unsettled /\ detection \in enforce => sessions' = sessions
  BY DEF Foreseen
<1>6. Right'
  BY <1>1, <1>2, <1>3, <1>5 DEF Right, One
<1>7. VerificationTypeOK'
  BY <1>3
<1> QED
  BY <1>4, <1>6, <1>7 DEF Asked, Foreseen

LEMMA StartSessionInv ==
  ASSUME VerificationInv, NEW id \in Detections, StartSession(id) PROVE VerificationInv'
<1> USE DEF VerificationInv, VerificationTypeOK, StartSession, request
<1>1. \A other \in Detections : AtHand(other)' <=> AtHand(other)
  BY DEF AtHand
<1>2. sessions[id] \in 0..1 /\ owed[id] \in 1..2
  BY DEF Starts, One
<1>3. owed' \in [Detections -> 0..2] /\ sessions' \in [Detections -> 0..2]
  BY <1>2
<1>4. \A other \in Detections :
        /\ owed'[other] + sessions'[other] = owed[other] + sessions[other]
        /\ owed[other] = 0 => owed'[other] = 0
  BY <1>2
<1>5. Starts' /\ Right'
  BY <1>1, <1>3, <1>4 DEF Starts, Right, One
<1>6. Asked' /\ Foreseen'
  BY <1>4 DEF Asked, Foreseen
<1> QED
  BY <1>3, <1>5, <1>6

(* Steps that move the wake task, the upload or the mode only. *)
LEMMA QuietInv ==
  ASSUME VerificationInv,
         \/ QueueNothing \/ Queue \/ CreateTimeout \/ SetMode
         \/ \E id \in Detections : UploadSent(id)
         \/ UNCHANGED verification
  PROVE  VerificationInv'
<1> USE DEF VerificationInv, VerificationTypeOK, At, request, outcome
<1> DEFINE Quiet == /\ UNCHANGED <<detection, enforce, pending, outcome>>
                    /\ wake # "idle" <=> wake' # "idle"
                    /\ unsettled \subseteq unsettled'
<1>1. Quiet => Starts' /\ Right'
  <2> SUFFICES ASSUME Quiet PROVE Starts' /\ Right'
    OBVIOUS
  <2>1. \A id \in Detections : AtHand(id)' <=> AtHand(id)
    BY DEF AtHand
  <2>2. Starts'
    BY <2>1 DEF Starts, One
  <2>3. Right'
    BY <2>1 DEF Right, One
  <2> QED
    BY <2>2, <2>3
<1>2. CASE QueueNothing
  <2>1. Quiet
    BY <1>2 DEF QueueNothing
  <2> QED
    BY <1>1, <1>2, <2>1 DEF QueueNothing, Asked, Foreseen
<1>3. CASE Queue
  <2>1. Quiet
    BY <1>3 DEF Queue
  <2>2. VerificationTypeOK'
    BY <1>3 DEF Queue
  <2> QED
    BY <1>1, <1>3, <2>1, <2>2 DEF Queue, Asked, Foreseen
<1>4. CASE CreateTimeout
  <2>1. Quiet
    BY <1>4 DEF CreateTimeout
  <2>2. VerificationTypeOK'
    BY <1>4 DEF CreateTimeout, Asked
  <2> QED
    BY <1>1, <1>4, <2>1, <2>2 DEF CreateTimeout, Asked, Foreseen
<1>5. CASE SetMode
  <2>1. Quiet
    BY <1>5 DEF SetMode
  <2>2. VerificationTypeOK'
    BY <1>5 DEF SetMode, Asked
  <2>3. Asked'
    BY <1>5, VerificationAssumption DEF SetMode, Asked, Detections
  <2>4. Foreseen'
    BY <1>5 DEF SetMode, Foreseen
  <2> QED
    BY <1>1, <2>1, <2>2, <2>3, <2>4
<1>6. CASE \E id \in Detections : UploadSent(id)
  <2>1. Quiet
    BY <1>6 DEF UploadSent
  <2>2. VerificationTypeOK'
    BY <1>6 DEF UploadSent
  <2> QED
    BY <1>1, <1>6, <2>1, <2>2 DEF UploadSent, Asked, Foreseen
<1>7. CASE UNCHANGED verification
  BY <1>7 DEF verification, Starts, Right, Asked, Foreseen, AtHand, One
<1> QED
  BY <1>2, <1>3, <1>4, <1>5, <1>6, <1>7

-----------------------------------------------------------------------------
(* The steps that complete a request.                                      *)

LEMMA CompletionInv ==
  ASSUME VerificationInv,
         NEW id \in Detections,
         \/ id = detection /\ (QueueFailed \/ CreateTimeoutFailed)
         \/ UploadFailed(id)
         \/ \E accepted \in BOOLEAN : Answered(id, accepted)
         \/ TimedOut(id)
  PROVE  VerificationInv'
<1> USE DEF VerificationInv, VerificationTypeOK, At
<1> DEFINE Completed == /\ Starts' /\ Right'
                        /\ pending' \in {0, pending} /\ completed' \in {0, last}
                        /\ owed' \in [Detections -> 0..2]
                        /\ rejected' \subseteq Detections
                        /\ \A other \in Detections \ enforce :
                             owed'[other] = 0 /\ other \notin rejected'
<1>1. CASE QueueFailed /\ id = detection
  <2>1. Completed
    BY <1>1, Completion DEF QueueFailed, AtHand
  <2>2. VerificationTypeOK'
    BY <1>1, <2>1 DEF QueueFailed
  <2>3. Asked'
    BY <1>1, <2>1 DEF QueueFailed, Asked
  <2>4. Foreseen'
    BY <1>1, <2>1 DEF QueueFailed, Foreseen
  <2> QED
    BY <2>1, <2>2, <2>3, <2>4
<1>2. CASE CreateTimeoutFailed /\ id = detection
  <2>1. Completed
    BY <1>2, Completion DEF CreateTimeoutFailed, AtHand
  <2> QED
    BY <1>2, <2>1 DEF CreateTimeoutFailed, Asked, Foreseen
<1>3. CASE UploadFailed(id)
  <2>1. Completed
    <3>1. CASE id \in enforce
      BY <1>3, <3>1, Completion DEF UploadFailed, AtHand
    <3>2. CASE id \notin enforce
      BY <1>3, <3>2 DEF UploadFailed, AtHand, Asked, Starts, Right, One
    <3> QED
      BY <3>1, <3>2
  <2>2. VerificationTypeOK'
    <3>1. upload' \in [Detections -> {"none", "queued", "sent"}]
      BY <1>3 DEF UploadFailed
    <3>2. {last, pending}' \subseteq 0..detection' /\ completed' \in {0, last'}
      BY <1>3, <2>1 DEF UploadFailed
    <3> QED
      BY <1>3, <2>1, <3>1, <3>2 DEF UploadFailed
  <2>3. Asked'
    BY <1>3, <2>1 DEF UploadFailed, Asked
  <2>4. Foreseen'
    BY <1>3, <2>1 DEF UploadFailed, Foreseen
  <2> QED
    BY <2>1, <2>2, <2>3, <2>4
<1>4. CASE \E accepted \in BOOLEAN : Answered(id, accepted)
  <2>1. Completed
    BY <1>4, Completion DEF Answered, AtHand
  <2>2. VerificationTypeOK'
    <3>1. upload' \in [Detections -> {"none", "queued", "sent"}]
      BY <1>4 DEF Answered
    <3>2. {last, pending}' \subseteq 0..detection' /\ completed' \in {0, last'}
      BY <1>4, <2>1 DEF Answered
    <3> QED
      BY <1>4, <2>1, <3>1, <3>2 DEF Answered
  <2>3. Asked'
    BY <1>4, <2>1 DEF Answered, Asked
  <2>4. Foreseen'
    BY <1>4, <2>1 DEF Answered, Foreseen
  <2> QED
    BY <2>1, <2>2, <2>3, <2>4
<1>5. CASE TimedOut(id)
  <2>1. Completed
    BY <1>5, Completion DEF TimedOut, AtHand
  <2> QED
    BY <1>5, <2>1 DEF TimedOut, Asked, Foreseen
<1> QED
  BY <1>1, <1>2, <1>3, <1>4, <1>5

-----------------------------------------------------------------------------
LEMMA VerificationStepInv == VerificationInv /\ [VerificationNext]_verification => VerificationInv'
<1> SUFFICES ASSUME VerificationInv, [VerificationNext]_verification PROVE VerificationInv'
  OBVIOUS
<1>1. CASE WakeTask
  <2>1. wake # "idle" => detection \in Detections
    BY DEF VerificationInv, Asked
  <2>2. CASE QueueFailed \/ CreateTimeoutFailed
    <3>1. detection \in Detections
      BY <2>1, <2>2 DEF QueueFailed, CreateTimeoutFailed, At
    <3> QED
      BY <2>2, <3>1, CompletionInv
  <2> QED
    BY <1>1, <2>2, DetectInv, RegisterInv, DecideInv, QuietInv DEF WakeTask
<1>2. ASSUME NEW id \in Detections,
             \/ StartSession(id) \/ UploadSent(id) \/ UploadFailed(id) \/ TimedOut(id)
             \/ \E accepted \in BOOLEAN : Answered(id, accepted)
      PROVE  VerificationInv'
  BY <1>2, StartSessionInv, QuietInv, CompletionInv
<1> QED
  BY <1>1, <1>2, QuietInv DEF VerificationNext

(* The variables keep their types: in particular no wake word gets a third *)
(* start, whatever the mode does.                                          *)
THEOREM VerificationTypeCorrect == VerificationSpec => []VerificationTypeOK
<1>1. VerificationInv => VerificationTypeOK
  BY DEF VerificationInv
<1> QED
  BY <1>1, VerificationInitInv, VerificationStepInv, PTL DEF VerificationSpec

(* However answer, timeout, failed upload and failed tasks race, for every *)
(* number of wake words: one session each at most, and none after a        *)
(* rejection in time (complete_wake_verification, handle_feature_frame).   *)
THEOREM StartedOnce == VerificationSpec => []OneVerdict
<1>1. VerificationInv => OneVerdict
  BY DEF VerificationInv, VerificationTypeOK, Right, OneVerdict, One
<1> QED
  BY <1>1, VerificationInitInv, VerificationStepInv, PTL DEF VerificationSpec

-----------------------------------------------------------------------------
(* The ring of scores.                                                     *)

(* The slot of the score of age k, where w slots are used and i is next.   *)
SlotOf(w, i, k) == IF k < i THEN i - 1 - k ELSE i + w - 1 - k

InPlace(w, ring, m) ==
  \A k \in 0..(w - 1) : k < m => ring.slots[SlotOf(w, ring.index, k)] = k

(* The same in the middle of a score, which is written over the oldest.    *)
Shifted(w, ring, m) ==
  \A k \in 0..(w - 2) : k < m => ring.slots[SlotOf(w, ring.index, k)] = k + 1

AtRest ==
  listener.at \in {"idle", "gate", "put", "judge"} /\ steady > 0 =>
    /\ scores.index < listener.window
    /\ scores.count = 0 => scores.index = 0
    /\ \/ InPlace(listener.window, scores, scores.count)
       \/ InPlace(listener.window, scores, steady - 1)

AtPut ==
  listener.at = "advance" =>
    /\ alone => listener.index = scores.index /\ listener.count = scores.count
    /\ steady > 0 =>
         /\ alone
         /\ scores.index < listener.window /\ scores.slots[scores.index] = 0
         /\ \/ Shifted(listener.window, scores, scores.count)
            \/ Shifted(listener.window, scores, steady - 1)

AtCount ==
  listener.at = "count" =>
    /\ alone => scores.index < listener.window /\ listener.count = scores.count
    /\ steady > 0 =>
         /\ alone
         /\ \/ InPlace(listener.window, scores, scores.count + 1)
            \/ InPlace(listener.window, scores, steady)

(* A task that was not listening has counted nothing. *)
Unheard == ~listener.enabled => listener.at \in {"idle", "gate"} /\ scores.count = 0

(* The inductive invariant. *)
WindowInv == WindowTypeOK /\ AtRest /\ AtPut /\ AtCount /\ Unheard

-----------------------------------------------------------------------------
(* Places.                                                                 *)

LEMMA RemainderOfNext ==
  ASSUME NEW w \in Nat \ {0}, NEW x \in 0..(2 * w - 1)
  PROVE  x % w = IF x < w THEN x ELSE x - w
  BY Z3

LEMMA RemainderIsSmall ==
  ASSUME NEW w \in Nat \ {0}, NEW x \in Nat
  PROVE  x % w \in 0..(w - 1)
  OBVIOUS

LEMMA Places ==
  ASSUME NEW w \in Nat \ {0}, NEW i \in 0..(w - 1), NEW k \in 0..(w - 1)
  PROVE  /\ SlotOf(w, i, k) \in 0..(w - 1)
         /\ SlotOf(w, i, k) = i <=> k = w - 1
         /\ (i + (w - 1 - k)) % w = SlotOf(w, i, k)
<1>1. i + (w - 1 - k) \in 0..(2 * w - 1)
  OBVIOUS
<1> DEFINE x == i + (w - 1 - k)
<1>2. x % w = IF x < w THEN x ELSE x - w
  BY <1>1, RemainderOfNext
<1>3. (IF x < w THEN x ELSE x - w) = SlotOf(w, i, k)
  BY DEF SlotOf
<1>4. SlotOf(w, i, k) \in 0..(w - 1) /\ (SlotOf(w, i, k) = i <=> k = w - 1)
  BY DEF SlotOf
<1> QED
  BY <1>2, <1>3, <1>4

LEMMA NextPlaces ==
  ASSUME NEW w \in Nat \ {0}, NEW i \in 0..(w - 1), NEW k \in 0..(w - 1)
  PROVE  /\ (i + 1) % w \in 0..(w - 1)
         /\ SlotOf(w, (i + 1) % w, 0) = i
         /\ k > 0 => SlotOf(w, (i + 1) % w, k) = SlotOf(w, i, k - 1)
<1> DEFINE n == (i + 1) % w
<1>1. n = IF i + 1 < w THEN i + 1 ELSE 0
  <2>1. i + 1 \in 0..(2 * w - 1)
    OBVIOUS
  <2>2. ASSUME NEW x \in 0..(2 * w - 1)
        PROVE  x % w = IF x < w THEN x ELSE x - w
    BY RemainderOfNext
  <2>3. n = IF i + 1 < w THEN i + 1 ELSE i + 1 - w
    BY <2>1, <2>2
  <2> QED
    BY <2>3
<1> HIDE DEF n
<1>2. CASE i + 1 < w
  <2>1. n = i + 1
    BY <1>1, <1>2
  <2>2. n \in 0..(w - 1)
    BY <1>2, <2>1
  <2>3. SlotOf(w, n, 0) = i
    BY <2>1 DEF SlotOf
  <2>4. k > 0 => SlotOf(w, n, k) = SlotOf(w, i, k - 1)
    BY <2>1 DEF SlotOf
  <2> QED
    BY <2>2, <2>3, <2>4 DEF n
<1>3. CASE i + 1 >= w
  <2>1. n = 0 /\ i = w - 1
    BY <1>1, <1>3
  <2> QED
    BY <2>1 DEF SlotOf, n
<1> QED
  BY <1>2, <1>3

-----------------------------------------------------------------------------
(* The ring, as a score is noted.                                          *)

Ring == [slots : [Slots -> 0..Stale], index : Slots, count : 0..MaxWindow]

LEMMA PutKeeps ==
  ASSUME NEW ring \in Ring, NEW after \in Ring, NEW w \in Windows, ring.index < w,
         NEW m \in Int, InPlace(w, ring, m), after.index = ring.index,
         \A i \in Slots :
           after.slots[i] = IF i = ring.index THEN 0
                            ELSE IF ring.slots[i] < Stale THEN ring.slots[i] + 1
                            ELSE ring.slots[i]
  PROVE  Shifted(w, after, m)
<1> SUFFICES ASSUME NEW k \in 0..(w - 2), k < m
             PROVE  after.slots[SlotOf(w, after.index, k)] = k + 1
  BY DEF Shifted
<1>1. w \in Nat \ {0} /\ w <= MaxWindow /\ ring.index \in 0..(w - 1) /\ k \in 0..(w - 1)
      /\ k # w - 1 /\ k < Stale
  BY WindowAssumption DEF Windows, Ring, Slots, Stale
<1> DEFINE p == SlotOf(w, ring.index, k)
<1>2. p \in 0..(w - 1) /\ p # ring.index
  BY <1>1, Places
<1>3. ring.slots[p] = k
  BY <1>1 DEF InPlace
<1>4. p \in Slots
  BY <1>1, <1>2, WindowAssumption DEF Slots
<1> HIDE DEF p
<1>5. after.slots[p] = k + 1
  BY <1>1, <1>2, <1>3, <1>4
<1> QED
  BY <1>5 DEF p

LEMMA AdvanceKeeps ==
  ASSUME NEW ring \in Ring, NEW after \in Ring, NEW w \in Windows, ring.index < w,
         NEW m \in Int, Shifted(w, ring, m), ring.slots[ring.index] = 0,
         after.index = (ring.index + 1) % w, after.slots = ring.slots
  PROVE  InPlace(w, after, m + 1)
<1> SUFFICES ASSUME NEW k \in 0..(w - 1), k < m + 1
             PROVE  after.slots[SlotOf(w, after.index, k)] = k
  BY DEF InPlace
<1>1. w \in Nat \ {0} /\ ring.index \in 0..(w - 1)
  BY WindowAssumption DEF Windows, Ring, Slots
<1>2. CASE k = 0
  <2>1. SlotOf(w, after.index, k) = ring.index
    BY <1>1, <1>2, NextPlaces
  <2> QED
    BY <1>2, <2>1
<1>3. CASE k > 0
  <2>1. SlotOf(w, after.index, k) = SlotOf(w, ring.index, k - 1)
    BY <1>1, <1>3, NextPlaces
  <2>2. k - 1 \in 0..(w - 2) /\ k - 1 < m /\ k - 1 + 1 = k
    BY <1>1, <1>3
  <2>3. ring.slots[SlotOf(w, ring.index, k - 1)] = k - 1 + 1
    BY <2>2 DEF Shifted
  <2> QED
    BY <2>1, <2>2, <2>3
<1> QED
  BY <1>1, <1>2, <1>3

LEMMA NoneKnown ==
  ASSUME NEW w \in Windows, NEW ring, NEW m \in Int, m <= 0
  PROVE  InPlace(w, ring, m) /\ Shifted(w, ring, m)
BY DEF InPlace, Shifted, Windows

(* A full window is known however much more is. *)
LEMMA FullIsKnown ==
  ASSUME NEW w \in Windows, NEW ring, NEW m \in Int, NEW n \in Int, m >= w, InPlace(w, ring, m)
  PROVE  InPlace(w, ring, n)
BY DEF InPlace, Windows

-----------------------------------------------------------------------------
(* The steps.                                                              *)

LEMMA ScoringTypes ==
  ASSUME WindowTypeOK
  PROVE  /\ scores \in Ring /\ scores.index \in Slots /\ scores.count \in 0..MaxWindow
         /\ scores.slots \in [Slots -> 0..Stale]
         /\ listener \in Listener /\ listener.window \in Windows
         /\ listener.index \in Slots /\ listener.count \in 0..MaxWindow
         /\ listener.stop \in BOOLEAN /\ listener.enabled \in BOOLEAN
         /\ steady \in 0..Certain /\ Certain \in Nat /\ Stale \in Nat
         /\ MaxWindow \in Nat \ {0} /\ StopWindow \in Windows
         /\ 0 \in Slots /\ 0 \in 0..Stale /\ 0 \in 0..MaxWindow /\ Stale \in 0..Stale
BY WindowAssumption DEF WindowTypeOK, Ring, Listener, Windows, Slots, Stale, Certain

LEMMA EmptiedIsRing == Emptied \in Ring /\ Emptied.index = 0 /\ Emptied.count = 0
<1>1. 0 \in Slots /\ Stale \in 0..Stale /\ 0 \in 0..MaxWindow
  BY WindowAssumption DEF Slots, Stale
<1> QED
  BY <1>1 DEF Emptied, Ring

LEMMA WindowInitially == WindowInit => WindowInv
<1> SUFFICES ASSUME WindowInit PROVE WindowInv
  OBVIOUS
<1>1. /\ size \in Windows /\ scores = Emptied /\ steady = Certain
      /\ listener = [at |-> "idle", window |-> size, index |-> 0, count |-> 0,
                     stop |-> FALSE, enabled |-> FALSE]
  BY DEF WindowInit
<1>2. Certain \in Nat /\ 0 \in Slots /\ 0 \in 0..MaxWindow
  BY WindowAssumption DEF Certain, Slots
<1>3. listener \in Listener
  BY <1>1, <1>2 DEF Listener
<1>4. WindowTypeOK
  <2>1. asked \in BOOLEAN /\ verifying \in BOOLEAN /\ alone \in BOOLEAN
    BY DEF WindowInit
  <2>2. resetter \in {"idle", "index", "slots"}
    BY DEF WindowInit
  <2>3. steady \in 0..Certain
    BY <1>1, <1>2
  <2> QED
    BY <1>1, <1>3, <2>1, <2>2, <2>3, EmptiedIsRing DEF WindowTypeOK, Ring
<1>5. AtRest
  <2>1. InPlace(listener.window, scores, scores.count)
    BY <1>1, EmptiedIsRing, NoneKnown
  <2> QED
    BY <1>1, <2>1, EmptiedIsRing DEF AtRest, Windows
<1>6. AtPut /\ AtCount /\ Unheard
  BY <1>1, EmptiedIsRing DEF AtPut, AtCount, Unheard
<1> QED
  BY <1>4, <1>5, <1>6 DEF WindowInv

(* The task stands where it rests, before and after, and notes nothing:    *)
(* the ring stays as it is, is emptied, or says nothing any more.          *)
AtStand == {"idle", "gate", "put", "judge"}

LEMMA RestStep ==
  ASSUME WindowInv, WindowTypeOK',
         listener.at \in AtStand, listener'.at \in AtStand,
         listener'.window = listener.window,
         \/ scores' = scores /\ steady' = steady
         \/ scores'.count = 0 /\ (steady' > 0 => scores'.index = 0)
         \/ steady' = 0,
         Unheard'
  PROVE  WindowInv'
<1>1. AtPut' /\ AtCount'
  BY DEF AtPut, AtCount, AtStand
<1>2. AtRest'
  <2>1. CASE scores' = scores /\ steady' = steady
    BY <2>1 DEF WindowInv, AtRest, AtStand
  <2>2. CASE scores'.count = 0 /\ (steady' > 0 => scores'.index = 0)
    <3>1. listener'.window \in Windows
      BY ScoringTypes DEF WindowInv
    <3>2. InPlace(listener'.window, scores', scores'.count)
      BY <2>2, <3>1, NoneKnown
    <3> QED
      BY <2>2, <3>1, <3>2 DEF AtRest, Windows
  <2>3. CASE steady' = 0
    BY <2>3 DEF AtRest
  <2> QED
    BY <2>1, <2>2, <2>3
<1> QED
  BY <1>1, <1>2 DEF WindowInv

LEMMA StandsType ==
  ASSUME WindowTypeOK, NEW to \in {"idle", "gate", "put", "advance", "count", "judge"}
  PROVE  /\ Stands(to) \in Listener /\ Stands(to).at = to
         /\ Stands(to).window = listener.window /\ Stands(to).enabled = listener.enabled
         /\ Stands(to).stop = listener.stop
BY ScoringTypes DEF Stands, Listener

LEMMA PausedIsRing ==
  ASSUME WindowTypeOK
  PROVE  Paused \in Ring /\ Paused.index = scores.index /\ Paused.count = scores.count
BY ScoringTypes, EmptiedIsRing DEF Paused, Ring

LEMMA EmptiesType ==
  ASSUME WindowTypeOK, Empties
  PROVE  /\ scores' \in Ring /\ scores'.count = 0 /\ scores'.index = 0
         /\ steady' \in 0..Certain
BY EmptiedIsRing, ScoringTypes DEF Empties

(* What the steps of the task at rest have in common. *)
LEMMA TaskStep ==
  ASSUME WindowInv, listener.at \in AtStand,
         listener' \in Listener, listener'.at \in AtStand,
         listener'.window = listener.window,
         UNCHANGED <<size, asked, resetter>>,
         scores' \in Ring, verifying' \in BOOLEAN, alone' = alone, steady' \in 0..Certain,
         \/ scores' = scores /\ steady' = steady
         \/ scores'.count = 0 /\ (steady' > 0 => scores'.index = 0)
         \/ steady' = 0,
         Unheard'
  PROVE  WindowInv'
<1>1. WindowTypeOK'
  BY DEF WindowInv, WindowTypeOK, Ring
<1> QED
  BY <1>1, RestStep

LEMMA IdleSteps ==
  ASSUME WindowInv, SkipChunk \/ SwitchStop \/ SwitchStopFails \/ SwitchModel \/ SameModel
  PROVE  WindowInv'
<1> USE DEF WindowInv, Listening
<1>1. /\ listener.at = "idle" /\ "idle" \in AtStand /\ "gate" \in AtStand
      /\ UNCHANGED <<size, asked, resetter, verifying, alone>>
      /\ verifying' \in BOOLEAN
  BY DEF SkipChunk, SwitchStop, SwitchStopFails, SwitchModel, SameModel, AtStand, WindowTypeOK
<1>2. /\ Stands("gate") \in Listener /\ Stands("gate").at = "gate"
      /\ Stands("gate").window = listener.window /\ Stands("gate").enabled = listener.enabled
  BY StandsType
<1>3. /\ listener' \in Listener /\ listener'.at \in AtStand
      /\ listener'.at \in {"idle", "gate"}
      /\ listener'.window = listener.window /\ listener'.enabled = listener.enabled
  <2>1. CASE listener' = listener
    BY <1>1, <2>1, ScoringTypes
  <2>2. CASE listener' = Stands("gate")
    BY <1>1, <1>2, <2>2
  <2>3. CASE listener' = [Stands("gate") EXCEPT !.stop = asked]
    <3>1. asked \in BOOLEAN
      BY DEF WindowTypeOK
    <3> QED
      BY <1>1, <1>2, <2>3, <3>1 DEF Listener
  <2> QED
    BY <2>1, <2>2, <2>3 DEF SkipChunk, SwitchStop, SwitchStopFails, SwitchModel, SameModel
<1>4. \/ scores' = Paused /\ steady' = 0
      \/ Empties
      \/ scores' = scores /\ steady' = steady
  BY DEF SkipChunk, SwitchStop, SwitchStopFails, SwitchModel, SameModel
<1>5. /\ scores' \in Ring /\ steady' \in 0..Certain
      /\ \/ scores' = scores /\ steady' = steady
         \/ scores'.count = 0 /\ (steady' > 0 => scores'.index = 0)
         \/ steady' = 0
      /\ scores.count = 0 => scores'.count = 0
  BY <1>4, PausedIsRing, EmptiesType, ScoringTypes
<1>6. Unheard'
  BY <1>3, <1>5 DEF Unheard
<1> HIDE DEF WindowInv
<1> QED
  BY <1>1, <1>3, <1>5, <1>6, TaskStep

LEMMA GateSteps ==
  ASSUME WindowInv, GateClosed \/ GateOpen
  PROVE  WindowInv'
<1> USE DEF WindowInv, Listening
<1>1. /\ listener.at = "gate" /\ "gate" \in AtStand /\ "idle" \in AtStand /\ "put" \in AtStand
      /\ UNCHANGED <<size, asked, resetter, verifying, alone>>
      /\ verifying' \in BOOLEAN
  BY DEF GateClosed, GateOpen, AtStand, WindowTypeOK
<1>2. CASE GateClosed
  <2>1. /\ Stands("idle") \in Listener /\ Stands("idle").at = "idle"
        /\ Stands("idle").window = listener.window
    BY StandsType
  <2>2. listener' = [Stands("idle") EXCEPT !.enabled = FALSE]
    BY <1>2 DEF GateClosed
  <2>3. /\ listener' \in Listener /\ listener'.at = "idle"
        /\ listener'.window = listener.window
    BY <2>1, <2>2 DEF Listener
  <2>4. /\ scores' \in Ring /\ steady' \in 0..Certain
        /\ scores'.count = 0 /\ (steady' > 0 => scores'.index = 0)
    <3>1. CASE listener.enabled
      BY <1>2, <3>1, EmptiesType DEF GateClosed
    <3>2. CASE ~listener.enabled
      <4>1. scores' = Paused /\ steady' = steady
        BY <1>2, <3>2 DEF GateClosed
      <4>2. scores.count = 0 /\ (steady > 0 => scores.index = 0)
        BY <1>1, <3>2 DEF Unheard, AtRest
      <4> QED
        BY <4>1, <4>2, PausedIsRing, ScoringTypes
    <3> QED
      BY <3>1, <3>2
  <2>5. Unheard'
    BY <2>3, <2>4 DEF Unheard
  <2> HIDE DEF WindowInv
  <2> QED
    BY <1>1, <2>3, <2>4, <2>5, TaskStep
<1>3. CASE GateOpen
  <2>1. PICK to \in {"idle", "put"} : listener' = [Stands(to) EXCEPT !.enabled = TRUE]
    BY <1>3 DEF GateOpen, Onward
  <2>2. Stands(to) \in Listener /\ Stands(to).at = to /\ Stands(to).window = listener.window
    BY StandsType
  <2>3. /\ listener' \in Listener /\ listener'.at = to /\ listener'.enabled = TRUE
        /\ listener'.window = listener.window
    BY <2>1, <2>2 DEF Listener
  <2>4. scores' = scores /\ steady' = steady /\ scores' \in Ring /\ steady' \in 0..Certain
    BY <1>3, ScoringTypes DEF GateOpen
  <2>5. Unheard'
    BY <2>3 DEF Unheard
  <2> HIDE DEF WindowInv
  <2> QED
    BY <1>1, <2>3, <2>4, <2>5, TaskStep
<1> QED
  BY <1>2, <1>3

LEMMA JudgeSteps ==
  ASSUME WindowInv, NotDetected \/ DetectedVerifies \/ DetectedStarts
  PROVE  WindowInv'
<1> USE DEF WindowInv, Listening
<1>1. /\ listener.at = "judge" /\ "judge" \in AtStand /\ "idle" \in AtStand /\ "put" \in AtStand
      /\ UNCHANGED <<size, asked, resetter, alone>>
  BY DEF NotDetected, DetectedVerifies, DetectedStarts, Detected, AtStand
<1>2. verifying' \in BOOLEAN
  BY DEF NotDetected, DetectedVerifies, DetectedStarts, WindowTypeOK
<1>3. PICK to \in {"idle", "put"} : listener' = Stands(to)
  BY DEF NotDetected, DetectedVerifies, DetectedStarts, Detected, Onward
<1>4. /\ listener' \in Listener /\ listener'.at = to
      /\ listener'.window = listener.window /\ listener'.enabled = listener.enabled
  BY <1>3, StandsType
<1>5. (scores' = scores /\ steady' = steady) \/ Empties
  BY DEF NotDetected, DetectedVerifies, DetectedStarts
<1>6. /\ scores' \in Ring /\ steady' \in 0..Certain
      /\ \/ scores' = scores /\ steady' = steady
         \/ scores'.count = 0 /\ (steady' > 0 => scores'.index = 0)
  BY <1>5, EmptiesType, ScoringTypes
<1>7. Unheard'
  BY <1>1, <1>4 DEF Unheard
<1> HIDE DEF WindowInv
<1> QED
  BY <1>1, <1>2, <1>4, <1>6, <1>7, TaskStep

(* A score is put where the oldest was, and all others grow older. *)
LEMMA PutStep ==
  ASSUME WindowInv, PutScore PROVE WindowInv'
<1> USE DEF WindowInv, Listening
<1> DEFINE window == IF listener.stop THEN StopWindow ELSE size
           older(age) == IF age < Stale THEN age + 1 ELSE age
<1>1. /\ listener.at = "put"
      /\ listener' = [Stands("advance") EXCEPT !.window = window, !.index = scores.index,
                                               !.count = scores.count]
      /\ scores' = [scores EXCEPT
           !.slots = [i \in Slots |-> IF i = scores.index THEN 0 ELSE older(scores.slots[i])]]
      /\ steady' = IF window = listener.window \/ scores.count = 0 THEN steady ELSE 0
      /\ alone' = TRUE
      /\ UNCHANGED <<size, asked, resetter, verifying>>
  BY DEF PutScore
<1>2. window \in Windows
  BY ScoringTypes DEF WindowTypeOK
<1>3. \A age \in 0..Stale : older(age) \in 0..Stale
  BY ScoringTypes
<1>4. /\ scores' \in Ring /\ scores'.index = scores.index /\ scores'.count = scores.count
      /\ \A i \in Slots :
           scores'.slots[i] = IF i = scores.index THEN 0 ELSE older(scores.slots[i])
  BY <1>1, <1>3, ScoringTypes DEF Ring
<1>5. /\ listener' \in Listener /\ listener'.at = "advance" /\ listener'.window = window
      /\ listener'.index = scores.index /\ listener'.count = scores.count
      /\ listener'.enabled = listener.enabled
  <2>1. /\ Stands("advance") \in Listener /\ Stands("advance").at = "advance"
        /\ Stands("advance").enabled = listener.enabled
    BY StandsType
  <2> QED
    BY <1>1, <1>2, <2>1, ScoringTypes DEF Listener
<1> HIDE DEF window
<1>6. WindowTypeOK'
  <2>1. alone' \in BOOLEAN
    BY <1>1
  <2>2. steady' \in 0..Certain
    BY <1>1, ScoringTypes
  <2> QED
    BY <1>1, <1>4, <1>5, <2>1, <2>2 DEF WindowTypeOK, Ring
<1>7. ASSUME steady' > 0
      PROVE  /\ scores'.index < window /\ scores'.slots[scores'.index] = 0
             /\ \/ Shifted(window, scores', scores'.count)
                \/ Shifted(window, scores', steady' - 1)
  <2>1. steady' = steady /\ steady > 0 /\ (window = listener.window \/ scores.count = 0)
    BY <1>1, <1>7
  <2>2. /\ scores.index < listener.window /\ (scores.count = 0 => scores.index = 0)
        /\ \/ InPlace(listener.window, scores, scores.count)
           \/ InPlace(listener.window, scores, steady - 1)
    BY <1>1, <2>1 DEF AtRest
  <2>3. /\ scores.index < window
        /\ InPlace(window, scores, scores.count) \/ InPlace(window, scores, steady - 1)
    <3>1. CASE window = listener.window
      BY <2>2, <3>1
    <3>2. CASE scores.count = 0
      BY <1>2, <2>2, <3>2, NoneKnown DEF Windows
    <3> QED
      BY <2>1, <3>1, <3>2
  <2>4. scores'.slots[scores'.index] = 0
    BY <1>4, ScoringTypes
  <2>5. ASSUME NEW m \in Int, InPlace(window, scores, m) PROVE Shifted(window, scores', m)
    BY <1>2, <1>4, <2>3, <2>5, PutKeeps, ScoringTypes
  <2>6. scores.count \in Int /\ steady - 1 \in Int
    BY ScoringTypes
  <2> QED
    BY <1>4, <2>1, <2>3, <2>4, <2>5, <2>6
<1>8. AtPut'
  BY <1>1, <1>4, <1>5, <1>7 DEF AtPut
<1>9. AtRest' /\ AtCount' /\ Unheard'
  BY <1>1, <1>5 DEF AtRest, AtCount, Unheard
<1> QED
  BY <1>6, <1>8, <1>9

(* Then the index moves on, as far as the window goes: the score put is    *)
(* the latest now. *)
LEMMA AdvanceStep ==
  ASSUME WindowInv, Advance PROVE WindowInv'
<1> USE DEF WindowInv, Listening
<1>1. PICK loaded \in {listener.index, scores.index} :
        /\ listener.at = "advance"
        /\ listener' = [Stands("count") EXCEPT !.index = 0]
        /\ scores' = [scores EXCEPT !.index = (loaded + 1) % listener.window]
        /\ UNCHANGED <<size, asked, resetter, verifying, alone, steady>>
  BY DEF Advance
<1> DEFINE w == listener.window
           next == (loaded + 1) % w
<1>2. next \in 0..(w - 1) /\ next \in Slots /\ w \in Windows
  <2>1. w \in Nat \ {0} /\ w <= MaxWindow /\ loaded + 1 \in Nat
    BY ScoringTypes DEF Windows, Slots
  <2>2. next \in 0..(w - 1)
    BY <2>1, RemainderIsSmall
  <2> QED
    BY <2>1, <2>2, ScoringTypes DEF Slots
<1>3. /\ scores' \in Ring /\ scores'.index = next /\ scores'.count = scores.count
      /\ scores'.slots = scores.slots
  BY <1>1, <1>2, ScoringTypes DEF Ring
<1>4. /\ listener' \in Listener /\ listener'.at = "count" /\ listener'.window = w
      /\ listener'.count = listener.count /\ listener'.enabled = listener.enabled
  <2>1. /\ Stands("count") \in Listener /\ Stands("count").at = "count"
        /\ Stands("count").window = w /\ Stands("count").count = listener.count
        /\ Stands("count").enabled = listener.enabled
    BY StandsType, ScoringTypes DEF Stands, Listener
  <2> QED
    BY <1>1, <2>1, ScoringTypes DEF Listener
<1>5. WindowTypeOK'
  BY <1>1, <1>3, <1>4 DEF WindowTypeOK, Ring
<1>6. ASSUME steady > 0
      PROVE  alone /\ (InPlace(w, scores', scores.count + 1) \/ InPlace(w, scores', steady))
  <2>1. /\ alone /\ listener.index = scores.index
        /\ scores.index < w /\ scores.slots[scores.index] = 0
        /\ Shifted(w, scores, scores.count) \/ Shifted(w, scores, steady - 1)
    BY <1>1, <1>6 DEF AtPut
  <2>2. scores'.index = (scores.index + 1) % w
    BY <1>3, <2>1
  <2> HIDE DEF w, next
  <2>3. ASSUME NEW m \in Int, Shifted(w, scores, m) PROVE InPlace(w, scores', m + 1)
    BY <1>2, <1>3, <2>1, <2>2, <2>3, AdvanceKeeps, ScoringTypes
  <2>4. scores.count \in Int /\ steady - 1 \in Int /\ steady - 1 + 1 = steady
    BY ScoringTypes
  <2>5. CASE Shifted(w, scores, scores.count)
    BY <2>1, <2>3, <2>4, <2>5
  <2>6. CASE Shifted(w, scores, steady - 1)
    <3>1. InPlace(w, scores', steady - 1 + 1)
      BY <2>3, <2>4, <2>6
    <3> QED
      BY <2>1, <2>4, <3>1
  <2> QED
    BY <2>1, <2>5, <2>6
<1>7. scores'.index < w
  BY <1>2, <1>3, ScoringTypes DEF Windows
<1>8. AtCount'
  <2>1. alone => listener.count = scores.count
    BY <1>1 DEF AtPut
  <2> HIDE DEF w, next
  <2> QED
    BY <1>1, <1>3, <1>4, <1>6, <1>7, <2>1 DEF AtCount
<1>9. AtRest' /\ AtPut'
  BY <1>1, <1>4 DEF AtRest, AtPut
<1>10. Unheard'
  BY <1>1, <1>4 DEF Unheard
<1> QED
  BY <1>5, <1>8, <1>9, <1>10

(* And the count, with what is certain. *)
LEMMA CountStep ==
  ASSUME WindowInv, CountScore PROVE WindowInv'
<1> USE DEF WindowInv, Listening
<1> DEFINE w == listener.window
<1>1. PICK loaded \in {listener.count, scores.count} :
        /\ listener.at = "count"
        /\ listener' = [Stands("judge") EXCEPT !.count = 0]
        /\ scores' = IF loaded < w THEN [scores EXCEPT !.count = loaded + 1] ELSE scores
        /\ steady' = IF alone /\ steady < Certain THEN steady + 1 ELSE steady
        /\ UNCHANGED <<size, asked, resetter, verifying, alone>>
  BY DEF CountScore
<1>2. w \in Windows /\ w \in Nat /\ w > 0 /\ w <= MaxWindow /\ loaded \in 0..MaxWindow
  BY ScoringTypes DEF Windows
<1>3. /\ scores' \in Ring /\ scores'.index = scores.index /\ scores'.slots = scores.slots
      /\ scores'.count = IF loaded < w THEN loaded + 1 ELSE scores.count
  BY <1>1, <1>2, ScoringTypes DEF Ring
<1>4. /\ listener' \in Listener /\ listener'.at = "judge" /\ listener'.window = w
      /\ listener'.enabled = listener.enabled
  <2>1. /\ Stands("judge") \in Listener /\ Stands("judge").at = "judge"
        /\ Stands("judge").window = w /\ Stands("judge").enabled = listener.enabled
    BY StandsType
  <2> QED
    BY <1>1, <2>1, ScoringTypes DEF Listener
<1>5. WindowTypeOK'
  <2>1. steady' \in 0..Certain
    BY <1>1, ScoringTypes
  <2> QED
    BY <1>1, <1>3, <1>4, <2>1 DEF WindowTypeOK, Ring
<1> HIDE DEF w
<1>6. ASSUME NEW m \in Int PROVE InPlace(w, scores', m) <=> InPlace(w, scores, m)
  BY <1>3 DEF InPlace
<1>7. ASSUME steady' > 0
      PROVE  /\ scores'.index < w /\ (scores'.count = 0 => scores'.index = 0)
             /\ InPlace(w, scores', scores'.count) \/ InPlace(w, scores', steady' - 1)
  <2>1. alone
    BY <1>1, <1>7 DEF AtCount
  <2>2. scores.index < w /\ loaded = scores.count
    BY <1>1, <2>1 DEF AtCount, w
  <2>3. scores'.count # 0
    BY <1>2, <1>3, <2>2, ScoringTypes
  <2>4. CASE steady > 0
    <3>1. InPlace(w, scores, scores.count + 1) \/ InPlace(w, scores, steady)
      BY <1>1, <2>4 DEF AtCount, w
    <3>2. CASE InPlace(w, scores, scores.count + 1)
      <4>3. InPlace(w, scores', scores'.count)
        <5>1. CASE scores.count < w
          BY <1>3, <1>6, <2>2, <3>2, <5>1, ScoringTypes
        <5>2. CASE scores.count >= w
          <6>1. /\ scores'.count = scores.count /\ scores.count \in Int
                /\ scores.count + 1 \in Int /\ scores.count + 1 >= w
            BY <1>2, <1>3, <2>2, <5>2, ScoringTypes
          <6>2. InPlace(w, scores, scores.count)
            BY <1>2, <3>2, <6>1, FullIsKnown
          <6> QED
            BY <1>6, <6>1, <6>2
        <5> QED
          BY <1>2, <5>1, <5>2, ScoringTypes
      <4> QED
        BY <1>3, <2>2, <2>3, <4>3
    <3>3. CASE InPlace(w, scores, steady)
      <4>1. CASE steady < Certain
        <5>1. steady' - 1 = steady /\ steady \in Int
          BY <1>1, <2>1, <4>1, ScoringTypes
        <5> QED
          BY <1>3, <1>6, <2>2, <2>3, <3>3, <5>1
      <4>2. CASE steady >= Certain
        <5>1. steady' = steady /\ steady \in Int /\ steady - 1 \in Int /\ steady >= w
          BY <1>1, <1>2, <4>2, ScoringTypes DEF Certain
        <5>2. InPlace(w, scores, steady - 1)
          BY <1>2, <3>3, <5>1, FullIsKnown
        <5> QED
          BY <1>3, <1>6, <2>2, <2>3, <5>1, <5>2
      <4> QED
        BY <4>1, <4>2, ScoringTypes
    <3> QED
      BY <3>1, <3>2, <3>3
  <2>5. CASE ~(steady > 0)
    <3>1. steady' - 1 = 0
      BY <1>1, <1>7, <2>5, ScoringTypes
    <3>2. InPlace(w, scores', steady' - 1)
      BY <1>2, <3>1, NoneKnown
    <3> QED
      BY <1>3, <2>2, <2>3, <3>2
  <2> QED
    BY <2>4, <2>5
<1>8. AtRest'
  BY <1>4, <1>7 DEF AtRest
<1>9. AtPut' /\ AtCount'
  BY <1>4 DEF AtPut, AtCount
<1>10. Unheard'
  BY <1>1, <1>4 DEF Unheard
<1> QED
  BY <1>5, <1>8, <1>9, <1>10

LEMMA ResetSteps ==
  ASSUME WindowInv, ResetCount \/ ResetIndex \/ ResetSlots PROVE WindowInv'
<1> USE DEF WindowInv
<1>1. /\ alone' = FALSE /\ steady' = 0 /\ UNCHANGED <<size, asked, listener>>
      /\ resetter' \in {"idle", "index", "slots"}
      /\ \/ scores' = [scores EXCEPT !.count = 0]
         \/ scores' = [scores EXCEPT !.index = 0]
         \/ scores' = [scores EXCEPT !.slots = Emptied.slots]
  BY DEF ResetCount, ResetIndex, ResetSlots, Resets
<1>2. verifying' \in BOOLEAN
  BY DEF ResetCount, ResetIndex, ResetSlots, WindowTypeOK
<1>3. scores' \in Ring /\ (scores.count = 0 => scores'.count = 0)
  BY <1>1, ScoringTypes, EmptiedIsRing DEF Ring
<1>4. steady' \in 0..Certain /\ alone' \in BOOLEAN
  <2>1. alone' \in BOOLEAN
    BY <1>1
  <2>2. steady' \in 0..Certain
    BY <1>1, ScoringTypes
  <2> QED
    BY <2>1, <2>2
<1>5. WindowTypeOK'
  BY <1>1, <1>2, <1>3, <1>4 DEF WindowTypeOK, Ring
<1>6. AtRest' /\ AtPut' /\ AtCount' /\ Unheard'
  BY <1>1, <1>3 DEF AtRest, AtPut, AtCount, Unheard
<1> QED
  BY <1>5, <1>6

LEMMA WindowInvariant == WindowSpec => []WindowInv
<1>1. WindowInv /\ [WindowNext]_scoring => WindowInv'
  <2> SUFFICES ASSUME WindowInv, [WindowNext]_scoring PROVE WindowInv'
    OBVIOUS
  <2>1. CASE ChooseWindow \/ AskForStop \/ UNCHANGED scoring
    <3>1. /\ size' \in Windows /\ asked' \in BOOLEAN
          /\ UNCHANGED <<scores, listener, verifying, resetter, alone, steady>>
      BY <2>1 DEF ChooseWindow, AskForStop, scoring, WindowInv, WindowTypeOK
    <3> QED
      BY <3>1 DEF WindowInv, WindowTypeOK, AtRest, AtPut, AtCount, Unheard
  <2>2. CASE MicrophoneTask
    BY <2>2, IdleSteps, GateSteps, JudgeSteps, PutStep, AdvanceStep, CountStep
       DEF MicrophoneTask
  <2>3. CASE ResetCount \/ ResetIndex \/ ResetSlots
    BY <2>3, ResetSteps
  <2> QED
    BY <2>1, <2>2, <2>3 DEF WindowNext
<1> QED
  BY <1>1, WindowInitially, PTL DEF WindowSpec

(* The scores of the window, the resets and the model's index: the types.  *)
THEOREM WindowTypeCorrect == WindowSpec => []WindowTypeOK
<1>1. WindowInv => WindowTypeOK
  BY DEF WindowInv
<1> QED
  BY <1>1, WindowInvariant, PTL

(* score_window_triggered, for every size of the window: what is detected  *)
(* is detected on the latest scores in their order.                        *)
THEOREM DetectsOnLatest == WindowSpec => []JudgesLatest
<1>1. WindowInv => JudgesLatest
  <2> SUFFICES ASSUME WindowInv, listener.at = "judge", Full, steady > listener.window,
                      NEW k \in 0..(listener.window - 1)
               PROVE  ValueAt(k) = listener.window - 1 - k
    BY DEF JudgesLatest
  <2> DEFINE w == listener.window
             j == w - 1 - k
  <2>1. /\ w \in Windows /\ w \in Nat \ {0} /\ steady \in Int /\ scores.count \in Int
        /\ steady > 0 /\ scores.count >= w /\ steady - 1 >= w
        /\ j \in 0..(w - 1) /\ w - 1 - j = k
    BY ScoringTypes DEF WindowInv, Windows, Full
  <2>2. /\ scores.index \in 0..(w - 1)
        /\ InPlace(w, scores, scores.count) \/ InPlace(w, scores, steady - 1)
    BY <2>1, ScoringTypes DEF WindowInv, AtRest, Slots
  <2>3. InPlace(w, scores, w)
    BY <2>1, <2>2, FullIsKnown
  <2>4. scores.slots[SlotOf(w, scores.index, j)] = j
    BY <2>1, <2>3 DEF InPlace
  <2> HIDE DEF w, j
  <2>5. (scores.index + (w - 1 - j)) % w = SlotOf(w, scores.index, j)
    BY <2>1, <2>2, Places
  <2>6. (scores.index + k) % w = SlotOf(w, scores.index, j)
    BY <2>1, <2>5
  <2>7. ValueAt(k) = scores.slots[SlotOf(w, scores.index, j)]
    BY <2>6 DEF ValueAt, w
  <2> QED
    BY <2>4, <2>7 DEF j, w
<1> QED
  BY <1>1, WindowInvariant, PTL

-----------------------------------------------------------------------------
(* The types of the wake model. *)

(* The bounds on selections and downloads. *)
LEMMA ModelBounds ==
  MaxSelections \in Nat /\ MaxEarly \in Nat /\ MaxDownloads \in Nat /\ MaxEarly <= MaxDownloads
  BY ModelAssumption

(* A selection that is still to be counted is within the bound.            *)
Uncounted == ~selection.counted => selection.gen < MaxSelections

(* A download that was registered last has no task before it is created,   *)
(* and there is none newer.                                                *)
Unborn ==
  \A g \in Generations :
    g > generation \/ (ensuring = "create" /\ Current(g)) => downloads[g].at = "none"

Numbered == ensuring = "create" => generation > 0

ModelInv == ModelTypeOK /\ Uncounted /\ Unborn /\ Numbered /\ RunningIsReal

LEMMA EnsureTypes == ModelTypeOK /\ EnsureTask => ModelTypeOK'
<1> SUFFICES ASSUME ModelTypeOK, EnsureTask PROVE ModelTypeOK'
  OBVIOUS
<1> USE DEF ModelTypeOK, Ensuring, Ensured, waketask, download
<1>1. CASE ConsumePending \/ UsePending
  BY <1>1 DEF ConsumePending, UsePending, Anywhere
<1>2. CASE EnsureEmbedded \/ EnsureCustom
  BY <1>2 DEF EnsureEmbedded, EnsureCustom, Anywhere, Selection
<1>3. CASE StartNothing \/ AlreadyActive \/ AlreadyStarted
  BY <1>3 DEF StartNothing, AlreadyActive, AlreadyStarted
<1>4. ASSUME NEW stale, StartCached(stale) \/ StartForced(stale)
      PROVE  ModelTypeOK'
  BY <1>4 DEF StartCached, StartForced, MayStart
<1>5. CASE LookUp \/ LoadCached \/ LoadFailed
  BY <1>5 DEF LookUp, LoadCached, LoadFailed, Selection
<1>6. CASE Register
  <2>1. generation \in Nat /\ generation + 1 <= MaxDownloads
    BY <1>6, ModelBounds DEF Register
  <2>2. generation' \in 0..MaxDownloads /\ wanted' \in Anywhere
    BY <1>6, <2>1, ModelBounds DEF Register, Selection
  <2> QED
    BY <1>6, <2>2 DEF Register
<1>7. CASE CreateDownload
  <2>1. [at |-> "fetch", url |-> selection.url] \in Download
    BY DEF Download, Selection
  <2> QED
    BY <1>7, <2>1 DEF CreateDownload
<1>8. CASE CreateDownloadFailed
  BY <1>8 DEF CreateDownloadFailed
<1> QED
  BY <1>1, <1>2, <1>3, <1>4, <1>5, <1>6, <1>7, <1>8 DEF EnsureTask

LEMMA DownloadTypes ==
  ASSUME ModelTypeOK, NEW g \in Generations, DownloadTask(g)
  PROVE  ModelTypeOK'
<1> USE DEF ModelTypeOK
<1>1. downloads[g].url \in Anywhere
  BY DEF Download
<1>2. \E to \in {"data", "again", "meta", "queue", "end", "stop", "none"} :
        downloads' = [downloads EXCEPT ![g].at = to]
  BY DEF DownloadTask, Downloading, FetchFailed, Fetched, CacheData, CacheMeta, CacheFormat,
         CacheFailed, QueuePending, DownloadResult, DownloadEnds
<1>3. downloads' \in [Generations -> Download]
  <2>1. PICK to \in {"data", "again", "meta", "queue", "end", "stop", "none"} :
          downloads' = [downloads EXCEPT ![g].at = to]
    BY <1>2
  <2>2. downloads' = [downloads EXCEPT ![g] = [downloads[g] EXCEPT !.at = to]]
    BY <2>1
  <2>3. [downloads[g] EXCEPT !.at = to] \in Download
    BY DEF Download
  <2> QED
    BY <2>2, <2>3
<1>4. CASE FetchFailed(g) \/ DownloadResult(g) \/ DownloadEnds(g)
  BY <1>3, <1>4 DEF FetchFailed, DownloadResult, DownloadEnds, RetryAfter, waketask
<1>5. CASE Fetched(g) \/ CacheData(g) \/ CacheMeta(g) \/ CacheFormat(g) \/ CacheFailed(g)
  BY <1>1, <1>3, <1>5 DEF Fetched, CacheData, CacheMeta, CacheFormat, CacheFailed, waketask,
                          Anywhere
<1>6. CASE QueuePending(g)
  BY <1>1, <1>3, <1>6 DEF QueuePending, waketask
<1> QED
  BY <1>4, <1>5, <1>6 DEF DownloadTask

LEMMA ModelStarts == ModelInit => ModelInv
<1> SUFFICES ASSUME ModelInit PROVE ModelInv
  OBVIOUS
<1>1. NoUrl \in Anywhere /\ 0 \in 0..MaxSelections /\ 0 \in 0..MaxDownloads
  BY ModelBounds DEF Anywhere
<1>2. selection \in Selection /\ downloads \in [Generations -> Download]
  BY <1>1 DEF ModelInit, Selection, Download
<1>3. cache \in [data : Anywhere, meta : Anywhere]
  BY DEF ModelInit
<1>4. ModelTypeOK
  BY <1>1, <1>2, <1>3 DEF ModelInit, ModelTypeOK
<1> QED
  BY <1>4 DEF ModelInit, ModelInv, Uncounted, Unborn, Numbered, RunningIsReal

(* The steps that begin a download.                                        *)
LEMMA EnsureAccounts == ModelInv /\ EnsureTask => (Unborn /\ Numbered /\ RunningIsReal)'
<1> SUFFICES ASSUME ModelInv, EnsureTask PROVE (Unborn /\ Numbered /\ RunningIsReal)'
  OBVIOUS
<1>0. /\ generation \in 0..MaxDownloads /\ generation \in Nat /\ Generations \subseteq Nat
      /\ DOMAIN downloads = Generations
  BY ModelBounds DEF ModelInv, ModelTypeOK, Generations
<1> USE DEF ModelInv, Unborn, Numbered, RunningIsReal, Current
<1>1. CASE Register
  <2>1. generation' = generation + 1 /\ ensuring' = "create" /\ running' = TRUE
        /\ downloads' = downloads
    BY <1>1 DEF Register, Ensuring
  <2> QED
    BY <1>0, <2>1
<1>2. CASE CreateDownload
  <2>1. /\ ensuring = "create" /\ ensuring' = "idle" /\ generation' = generation
        /\ running' = running /\ running
        /\ downloads' = [downloads EXCEPT ![generation] = [at |-> "fetch", url |-> selection.url]]
    BY <1>2 DEF CreateDownload, Ensured, Ensuring
  <2>2. generation \in Generations
    BY <1>0, <2>1, ModelBounds DEF Generations
  <2>3. downloads'[generation].at = "fetch"
    BY <1>0, <2>1, <2>2
  <2>4. \A g \in Generations : g > generation => downloads'[g] = downloads[g]
    BY <1>0, <2>1
  <2> QED
    BY <1>0, <2>1, <2>2, <2>3, <2>4
<1>3. CASE CreateDownloadFailed
  BY <1>0, <1>3 DEF CreateDownloadFailed, Ensuring
<1>4. ASSUME ensuring # "create", ensuring' # "create",
             UNCHANGED <<generation, running, downloads>>
      PROVE  (Unborn /\ Numbered /\ RunningIsReal)'
  BY <1>0, <1>4
<1>5. CASE ConsumePending \/ UsePending \/ EnsureEmbedded \/ EnsureCustom \/ StartNothing
  BY <1>4, <1>5 DEF ConsumePending, UsePending, EnsureEmbedded, EnsureCustom, StartNothing,
                    Ensuring, download
<1>6. CASE AlreadyActive \/ AlreadyStarted \/ LookUp \/ LoadCached \/ LoadFailed
  BY <1>4, <1>6 DEF AlreadyActive, AlreadyStarted, LookUp, LoadCached, LoadFailed, Ensured,
                    Ensuring, download
<1>7. CASE \E stale \in {FALSE, ~modelSettled} : StartCached(stale) \/ StartForced(stale)
  BY <1>4, <1>7 DEF StartCached, StartForced, MayStart, Ensuring, download
<1> QED
  BY <1>1, <1>2, <1>3, <1>5, <1>6, <1>7 DEF EnsureTask

(* The steps of a download: nobody else is concerned by its end.           *)
LEMMA DownloadAccounts ==
  ASSUME ModelInv, NEW g \in Generations, DownloadTask(g)
  PROVE  (Unborn /\ Numbered /\ RunningIsReal)'
<1>0. /\ generation \in Nat /\ Generations \subseteq Nat /\ DOMAIN downloads = Generations
  BY ModelBounds DEF ModelInv, ModelTypeOK, Generations
<1>1. downloads[g].at # "none" /\ generation' = generation /\ ensuring' = ensuring
  BY DEF DownloadTask, Downloading, FetchFailed, Fetched, CacheData, CacheMeta, CacheFormat,
         CacheFailed, QueuePending, DownloadResult, DownloadEnds, waketask
<1>2. PICK to \in {"data", "again", "meta", "queue", "end", "stop", "none"} :
        /\ downloads' = [downloads EXCEPT ![g].at = to]
        /\ IF to = "none" THEN running' = (IF Current(g) THEN FALSE ELSE running)
                          ELSE running' = running
  <2>1. CASE DownloadEnds(g)
    BY <2>1 DEF DownloadEnds, Downloading
  <2>2. CASE DownloadResult(g) \/ FetchFailed(g) \/ QueuePending(g)
    BY <2>2 DEF DownloadResult, FetchFailed, QueuePending, Downloading
  <2>3. CASE Fetched(g) \/ CacheData(g) \/ CacheMeta(g) \/ CacheFormat(g) \/ CacheFailed(g)
    BY <2>3 DEF Fetched, CacheData, CacheMeta, CacheFormat, CacheFailed, Downloading
  <2> QED
    BY <2>1, <2>2, <2>3 DEF DownloadTask
<1>3. /\ \A other \in Generations : other # g => downloads'[other] = downloads[other]
      /\ downloads'[g].at = to
  BY <1>0, <1>2 DEF ModelInv, ModelTypeOK, Download
<1>4. ~(g > generation) /\ (ensuring = "create" => g # generation)
  BY <1>1 DEF ModelInv, Unborn, Current
<1>5. Unborn' /\ Numbered'
  BY <1>0, <1>1, <1>3, <1>4 DEF ModelInv, Unborn, Numbered, Current
<1>6. RunningIsReal'
  BY <1>0, <1>1, <1>2, <1>3, <1>4 DEF ModelInv, RunningIsReal, Current
<1> QED
  BY <1>5, <1>6

LEMMA ModelStep == ModelInv /\ [ModelNext]_model => ModelInv'
<1> SUFFICES ASSUME ModelInv, [ModelNext]_model PROVE ModelInv'
  OBVIOUS
<1> USE DEF waketask, download, ModelInv
<1>1. CASE EnsureTask
  <2>1. selection' = selection
    BY <1>1 DEF EnsureTask, ConsumePending, UsePending, EnsureEmbedded, EnsureCustom,
                StartNothing, AlreadyActive, AlreadyStarted, StartCached, StartForced, MayStart,
                LookUp, LoadCached, LoadFailed, Register, CreateDownload, CreateDownloadFailed
  <2> QED
    BY <1>1, <2>1, EnsureTypes, EnsureAccounts DEF Uncounted
<1>2. ASSUME NEW g \in Generations, DownloadTask(g)
      PROVE  ModelInv'
  <2>1. selection' = selection
    BY <1>2 DEF DownloadTask, FetchFailed, Fetched, CacheData, CacheMeta, CacheFormat,
                CacheFailed, QueuePending, DownloadResult, DownloadEnds
  <2> QED
    BY <1>2, <2>1, DownloadTypes, DownloadAccounts DEF Uncounted
<1>3. ASSUME UNCHANGED <<generation, running, downloads, ensuring>>
      PROVE  (Unborn /\ Numbered /\ RunningIsReal)'
  BY <1>3 DEF Unborn, Numbered, RunningIsReal, Current
<1>4. ASSUME NEW custom \in BOOLEAN, NEW url \in Anywhere, Select(custom, url)
      PROVE  ModelInv'
  BY <1>3, <1>4 DEF Select, Selection, ModelTypeOK, Uncounted
<1>5. CASE CountSelection
  <2>1. selection.gen \in 0..MaxSelections /\ selection.gen < MaxSelections
    BY <1>5 DEF CountSelection, Selection, ModelTypeOK, Uncounted
  <2>2. selection.gen + 1 \in 0..MaxSelections
    BY <2>1, ModelBounds
  <2> QED
    BY <1>3, <1>5, <2>2 DEF CountSelection, Selection, ModelTypeOK, Uncounted
<1>6. CASE ModelSettle \/ RetryPasses
  BY <1>3, <1>6 DEF ModelSettle, RetryPasses, ModelTypeOK, Uncounted
<1>7. CASE UNCHANGED model
  BY <1>3, <1>7 DEF model, ModelTypeOK, Uncounted
<1> QED
  BY <1>1, <1>2, <1>4, <1>5, <1>6, <1>7 DEF ModelNext

LEMMA ModelInvariant == ModelSpec => []ModelInv
BY ModelStarts, ModelStep, PTL DEF ModelSpec

(* Selection, model, downloads and cache keep their types.                 *)
THEOREM ModelTypeCorrect == ModelSpec => []ModelTypeOK
<1>1. ModelInv => ModelTypeOK
  BY DEF ModelInv
<1> QED
  BY <1>1, ModelInvariant, PTL

(* The flag that holds downloads back is not left set by one that ended or *)
(* was never begun, nor cleared by a stale one under its successor         *)
(* (set_custom_download_running), for every number of them at once.        *)
THEOREM DownloadFlagIsReal == ModelSpec => []RunningIsReal
<1>1. ModelInv => RunningIsReal
  BY DEF ModelInv
<1> QED
  BY <1>1, ModelInvariant, PTL

=============================================================================
