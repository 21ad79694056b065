---------------------------- MODULE VoiceSession ----------------------------
(***************************************************************************)
(* A voice session of main/tater_protocol.c: the tasks that open and close *)
(* it, the microphone that feeds it and the connection that may go under   *)
(* it at any moment.                                                       *)
(*                                                                         *)
(*   Users     the tasks that start a session (button, wake engine, and    *)
(*             Reopener, the continued chat); all but Reopener also stop   *)
(*   Watchdogs continued_reopen_watchdog_task, one per continued session   *)
(*   Mic       the board's capture task (tater_protocol_send_audio)        *)
(*   Tx        audio_tx_task                                               *)
(*   Rx        the client's event task (websocket_event_handler)           *)
(*                                                                         *)
(* What the code does under s_send_lock, or between two looks at the       *)
(* shared state, is one step.  mark_link_down holds no lock and is two.    *)
(* Times (the grace period, the pace of the audio, the drain wait, the     *)
(* hard timeout) are durations nothing else is bound to.  The audio is a   *)
(* stream of frames of which any two may be marked: what holds of marks 1  *)
(* and 2 holds of every pair.                                              *)
(***************************************************************************)
EXTENDS Naturals, Sequences, FiniteSets

CONSTANTS
  Users, Reopener, Watchdogs, Mic, Tx, Rx,
  PrerollFrames,  \* s_audio_preroll_capacity, in frames
  QueueFrames,    \* s_audio_tx_capacity
  Congested,      \* TATER_AUDIO_TX_CONGESTED_DEPTH
  Recovery,       \* TATER_AUDIO_TX_RECOVERY_DEPTH
  MaxStarts,      \* bound: unanswered starts when another is made
  MaxMarks        \* bound: how many frames are marked, at most 2; with none,
                  \* their age is not traced either

ASSUME VoiceAssumption ==
  /\ Reopener \notin Watchdogs \cup {Mic, Tx, Rx}
  /\ IsFiniteSet(Users) /\ Users \cap Watchdogs = {}
  /\ {Mic, Tx, Rx} \cap (Users \cup Watchdogs) = {}
  /\ Cardinality({Mic, Tx, Rx}) = 3
  /\ PrerollFrames \in Nat \ {0}
  /\ QueueFrames \in Nat /\ Congested \in 1..QueueFrames
  /\ Recovery \in 0..(Congested - 1)
  /\ MaxStarts \in Nat \ {0} /\ MaxMarks \in 0..2

VARIABLES
  link,      \* s_connected and s_hello_acked: "ready" when both; "up" before
             \* hello.ack; "down" without a transport; "lost" when a sender
             \* gave up on a transport the client still has
  active,    \* s_voice_active
  pending,   \* s_voice_start_pending
  reopen,    \* s_voice_continued_reopen
  mine,      \* whose stored generation is s_voice_generation
  preroll,   \* s_audio_preroll
  queue,     \* s_audio_tx_queue
  chunk,     \* the frame Tx has popped and not sent
  hand,      \* the frame Mic was called with
  duck,      \* what tater_sendspin_set_voice_duck was told last
  starts,    \* starts the server has on this connection and has not answered
  where,     \* where each task stands between two steps
  marks,     \* history: how many frames have been marked
  heard,     \* history: the mark the server heard last, 3 after a disorder
  oldSent,   \* history: frames older than the session that were sent in it
  announced  \* history: a voice.start was sent since the session was entered

sessionState == <<active, pending, reopen, mine, announced, oldSent>>
audio == <<preroll, queue, chunk, hand, marks, heard>>
voicing == <<link, sessionState, audio, duck, starts, where>>

Tasks == Users \cup Watchdogs \cup {Mic, Tx, Rx}
Frame == [mark : 0..2, old : BOOLEAN]

VoiceSteps == {"idle", "s_lock", "s_duck", "s_send", "s_lost", "s_queue", "s_failed",
          "s_unduck", "s_watch", "sleep", "p_ready", "p_send", "p_lost",
          "p_queue", "p_clear", "p_unduck", "lock", "put", "check", "send",
          "lost", "queue", "clear", "clear_only", "unduck"}

VoiceTypeOK ==
  /\ link \in {"down", "lost", "up", "ready"}
  /\ {active, pending, reopen, duck, announced} \subseteq BOOLEAN
  /\ mine \in [Users \cup Watchdogs -> BOOLEAN]
  /\ preroll \in Seq(Frame) /\ Len(preroll) <= PrerollFrames
  /\ queue \in Seq(Frame) /\ Len(queue) <= QueueFrames
  /\ chunk \in Seq(Frame) /\ hand \in Seq(Frame)
  /\ starts \in 0..(MaxStarts + Cardinality(Users))
  /\ where \in [Tasks -> VoiceSteps]
  /\ marks \in 0..2 /\ heard \in 0..3 /\ oldSent \in 0..3

Nobody == [t \in Users \cup Watchdogs |-> FALSE]

VoiceInit ==
  /\ link = "down"
  /\ active = FALSE /\ pending = FALSE /\ reopen = FALSE /\ mine = Nobody
  /\ preroll = <<>> /\ queue = <<>> /\ chunk = <<>> /\ hand = <<>>
  /\ duck = FALSE /\ starts = 0
  /\ where = [t \in Tasks |-> "idle"]
  /\ marks = 0 /\ heard = 0 /\ oldSent = 0 /\ announced = FALSE

VoiceGoto(t, from, to) == where[t] = from /\ where' = [where EXCEPT ![t] = to]
Ready == link = "ready"   \* websocket_ready

-----------------------------------------------------------------------------
(* The frames.                                                             *)

(* What a bounded buffer that drops its oldest keeps. *)
Newest(fs, n) ==
  IF Len(fs) > n THEN SubSeq(fs, Len(fs) - n + 1, Len(fs)) ELSE fs

Aged(fs) == [i \in DOMAIN fs |-> [fs[i] EXCEPT !.old = MaxMarks > 0]]

(* Faulty form of Flushed: what was held is queued newest first. *)
FlushedReversed ==
  IF Ready /\ active
    THEN Newest(queue \o [i \in DOMAIN preroll |-> preroll[Len(preroll) + 1 - i]], QueueFrames)
    ELSE queue

(* flush_audio_preroll_locked: the queue after it; the preroll is empty. *)
Flushed == IF Ready /\ active THEN Newest(queue \o preroll, QueueFrames) ELSE queue

-----------------------------------------------------------------------------
(* VoiceSteps several tasks make.                                               *)

(* clear_voice_capture_state *)
Clear ==
  /\ active' = FALSE /\ pending' = FALSE /\ reopen' = FALSE
  /\ mine' = Nobody
  /\ preroll' = <<>> /\ queue' = <<>>
  /\ UNCHANGED <<chunk, hand, marks, heard, oldSent, announced>>

(* mark_link_down, up to its queue: by a sender the transport is still     *)
(* there.                                                                  *)
LinkLost(t, from, to) ==
  /\ VoiceGoto(t, from, to)
  /\ link' = IF link = "down" \/ t = Rx THEN "down" ELSE "lost"
  /\ active' = FALSE /\ pending' = FALSE /\ reopen' = FALSE
  /\ mine' = Nobody
  /\ preroll' = <<>>
  /\ duck' = FALSE
  /\ starts' = IF t = Rx THEN 0 ELSE starts
  /\ UNCHANGED <<queue, chunk, hand, marks, heard, oldSent, announced>>

ClearQueue(t, from, to) ==
  /\ VoiceGoto(t, from, to)
  /\ queue' = <<>>
  /\ UNCHANGED <<link, sessionState, preroll, chunk, hand, marks, heard, duck, starts>>

Unduck(t, from) ==
  /\ VoiceGoto(t, from, "idle")
  /\ duck' = FALSE
  /\ UNCHANGED <<link, sessionState, audio, starts>>

-----------------------------------------------------------------------------
(* tater_protocol_start_voice_with_conversation.                           *)

StartReady(u) ==
  /\ VoiceGoto(u, "idle", "s_lock")
  /\ Ready /\ starts < MaxStarts
  /\ UNCHANGED <<link, sessionState, audio, duck, starts>>

(* Faulty form of StartLock: the frames of the last session stay queued. *)
StartLockQueued(u) ==
  /\ VoiceGoto(u, "s_lock", "s_duck")
  /\ active' = TRUE /\ pending' = TRUE
  /\ reopen' = (u = Reopener)
  /\ mine' = [Nobody EXCEPT ![u] = TRUE]
  /\ preroll' = <<>> /\ queue' = Aged(queue)
  /\ chunk' = Aged(chunk) /\ hand' = Aged(hand)
  /\ announced' = FALSE /\ oldSent' = 0
  /\ UNCHANGED <<link, marks, heard, duck, starts>>

StartLock(u) ==
  /\ VoiceGoto(u, "s_lock", "s_duck")
  /\ active' = TRUE /\ pending' = TRUE
  /\ reopen' = (u = Reopener)
  /\ mine' = [Nobody EXCEPT ![u] = TRUE]
  /\ preroll' = <<>> /\ queue' = <<>>
  /\ chunk' = Aged(chunk) /\ hand' = Aged(hand)
  /\ announced' = FALSE /\ oldSent' = 0
  /\ UNCHANGED <<link, marks, heard, duck, starts>>

StartDuck(u) ==
  /\ VoiceGoto(u, "s_duck", "s_send")
  /\ duck' = TRUE
  /\ UNCHANGED <<link, sessionState, audio, starts>>

(* send_json of voice.start, which waits for s_send_lock as long as other  *)
(* messages take.                                                          *)
StartSend(u) ==
  /\ \/ /\ Ready
        /\ VoiceGoto(u, "s_send", IF u = Reopener THEN "s_watch" ELSE "idle")
        /\ starts' = starts + 1
        /\ announced' = TRUE
     \/ /\ VoiceGoto(u, "s_send", "s_failed")
        /\ UNCHANGED <<starts, announced>>
     \/ /\ Ready
        /\ VoiceGoto(u, "s_send", "s_lost")
        /\ UNCHANGED <<starts, announced>>
  /\ UNCHANGED <<link, active, pending, reopen, mine, oldSent, audio, duck>>

VoiceFailed(u) ==
  /\ VoiceGoto(u, "s_failed", "s_unduck")
  /\ Clear
  /\ UNCHANGED <<link, duck, starts>>

(* Faulty form of UnduckFailed: the music stays ducked. *)
UnduckFailedNot(u) ==
  /\ VoiceGoto(u, "s_unduck", "idle")
  /\ UNCHANGED <<link, sessionState, audio, duck, starts>>

UnduckFailed(u) == Unduck(u, "s_unduck")

(* The watchdog of a continued session, unless there is no memory for it. *)
CreateWatchdog(u) ==
  /\ where[u] = "s_watch"
  /\ \/ \E w \in Watchdogs :
          /\ where[w] = "idle"
          /\ mine' = [mine EXCEPT ![w] = mine[u]]
          /\ where' = [where EXCEPT ![u] = "idle", ![w] = "sleep"]
     \/ where' = [where EXCEPT ![u] = "idle"] /\ UNCHANGED mine
  /\ UNCHANGED <<link, active, pending, reopen, announced, oldSent, audio, duck, starts>>

StartTask(u) ==
  \/ StartLock(u) \/ StartDuck(u) \/ StartSend(u) \/ VoiceFailed(u)
  \/ LinkLost(u, "s_lost", "s_queue") \/ ClearQueue(u, "s_queue", "s_failed")
  \/ UnduckFailed(u) \/ CreateWatchdog(u)

-----------------------------------------------------------------------------
(* tater_protocol_stop_voice, of a user or of a watchdog, which aborts.    *)

StopReady(t, from) == VoiceGoto(t, from, IF Ready THEN "p_send" ELSE "p_clear")

StopVoice(u) ==
  /\ StopReady(u, "idle")
  /\ UNCHANGED <<link, sessionState, audio, duck, starts>>

(* send_json of voice.stop.  What comes of it only matters when it costs   *)
(* the link.                                                               *)
StopSend(t) ==
  /\ \/ VoiceGoto(t, "p_send", "p_clear")
     \/ Ready /\ VoiceGoto(t, "p_send", "p_lost")
  /\ UNCHANGED <<link, sessionState, audio, duck, starts>>

StopClear(t) ==
  /\ \/ VoiceGoto(t, "p_clear", "p_unduck")
     \/ t \in Users /\ VoiceGoto(t, "p_clear", "idle")   \* not an abort
  /\ Clear
  /\ UNCHANGED <<link, duck, starts>>

Stop(t) ==
  \/ StopSend(t) \/ StopClear(t) \/ Unduck(t, "p_unduck")
  \/ LinkLost(t, "p_lost", "p_queue") \/ ClearQueue(t, "p_queue", "p_clear")

(* continued_reopen_watchdog_task after its delay. *)
WatchdogFires(w) ==
  /\ VoiceGoto(w, "sleep", IF active /\ reopen /\ mine[w] THEN "p_ready" ELSE "idle")
  /\ UNCHANGED <<link, sessionState, audio, duck, starts>>

(* The abort it calls for. *)
Abort(w) ==
  /\ StopReady(w, "p_ready")
  /\ UNCHANGED <<link, sessionState, audio, duck, starts>>

Watchdog(w) == WatchdogFires(w) \/ Abort(w) \/ Stop(w)

-----------------------------------------------------------------------------
(* tater_protocol_send_audio.                                              *)

MicCall(mark) ==
  /\ VoiceGoto(Mic, "idle", "lock")
  /\ Ready /\ active
  /\ mark \in {0, marks + 1} /\ mark <= MaxMarks
  /\ marks' = IF mark = 0 THEN marks ELSE mark
  /\ hand' = <<[mark |-> mark, old |-> FALSE]>>
  /\ UNCHANGED <<link, sessionState, preroll, queue, chunk, heard, duck, starts>>

MicHold ==
  /\ VoiceGoto(Mic, "lock", "idle")
  /\ pending
  /\ preroll' = Newest(preroll \o hand, PrerollFrames)
  /\ hand' = <<>>
  /\ UNCHANGED <<link, sessionState, queue, chunk, marks, heard, duck, starts>>

(* Faulty form of MicExpire: only an answer opens the gate. *)
MicExpireHolding ==
  /\ VoiceGoto(Mic, "lock", "idle")
  /\ pending
  /\ preroll' = Newest(preroll \o hand, PrerollFrames)
  /\ hand' = <<>>
  /\ UNCHANGED <<link, sessionState, queue, chunk, marks, heard, duck, starts>>

(* TATER_VOICE_START_ACK_GRACE_MS have passed. *)
MicExpire ==
  /\ VoiceGoto(Mic, "lock", "put")
  /\ pending
  /\ pending' = FALSE
  /\ queue' = Flushed
  /\ preroll' = <<>>
  /\ UNCHANGED <<link, active, reopen, mine, announced, oldSent, chunk, hand,
                 marks, heard, duck, starts>>

MicPass ==
  /\ VoiceGoto(Mic, "lock", "put")
  /\ ~pending
  /\ UNCHANGED <<link, sessionState, audio, duck, starts>>

(* audio_tx_enqueue, unless the queue is congested. *)
MicPut ==
  /\ VoiceGoto(Mic, "put", "idle")
  /\ queue' = IF Len(queue) >= Congested THEN queue ELSE Newest(queue \o hand, QueueFrames)
  /\ hand' = <<>>
  /\ UNCHANGED <<link, sessionState, preroll, chunk, marks, heard, duck, starts>>

-----------------------------------------------------------------------------
(* audio_tx_task.  A batch is one frame.                                   *)

TxPop ==
  /\ VoiceGoto(Tx, "idle", "check")
  /\ queue # <<>>
  /\ chunk' = <<Head(queue)>>
  /\ queue' = Tail(queue)
  /\ UNCHANGED <<link, sessionState, preroll, hand, marks, heard, duck, starts>>

Flowing == Ready /\ active /\ ~pending

TxCheck ==
  /\ \/ /\ Flowing /\ Len(queue) < Congested
        /\ VoiceGoto(Tx, "check", "send")
        /\ UNCHANGED <<queue, chunk>>
     \/ /\ Flowing /\ Len(queue) >= Congested
        /\ VoiceGoto(Tx, "check", "idle")
        /\ queue' = Newest(queue, Recovery)
        /\ chunk' = <<>>
     \/ /\ ~Flowing
        /\ VoiceGoto(Tx, "check", "idle")
        /\ queue' = <<>>
        /\ chunk' = <<>>
  /\ UNCHANGED <<link, sessionState, preroll, hand, marks, heard, duck, starts>>

Hear(frame) ==
  /\ heard' = IF frame.mark = 0 \/ heard = 3 THEN heard
              ELSE IF frame.mark > heard THEN frame.mark ELSE 3
  /\ oldSent' = IF frame.old /\ oldSent < 3 THEN oldSent + 1 ELSE oldSent

(* send_audio_locked succeeds; a slow send may cut the backlog. *)
TxSend ==
  /\ VoiceGoto(Tx, "send", "idle")
  /\ Flowing
  /\ Hear(chunk[1])
  /\ chunk' = <<>>
  /\ queue' \in {queue, Newest(queue, Recovery)}
  /\ UNCHANGED <<link, active, pending, reopen, mine, announced, preroll, hand,
                 marks, duck, starts>>

(* It fails, or the session no longer takes audio.  After several failures *)
(* with the transport gone Tx gives up on the link too.                    *)
TxFail ==
  /\ \/ VoiceGoto(Tx, "send", "idle")
     \/ VoiceGoto(Tx, "send", "lost") /\ link \notin {"up", "ready"}
  /\ chunk' = <<>>
  /\ UNCHANGED <<link, sessionState, preroll, queue, hand, marks, heard, duck, starts>>

TxTask ==
  \/ TxPop \/ TxCheck \/ TxSend \/ TxFail
  \/ LinkLost(Tx, "lost", "queue") \/ ClearQueue(Tx, "queue", "idle")

-----------------------------------------------------------------------------
(* The event task: the connection, and the server's messages.              *)

(* One loss may be told of several times (error, close frame, closed).     *)
Disconnected == LinkLost(Rx, "idle", "queue")

(* WEBSOCKET_EVENT_CONNECTED, before its clear and its unduck. *)
Connected ==
  /\ VoiceGoto(Rx, "idle", "clear")
  /\ link = "down"
  /\ link' = "up"
  /\ UNCHANGED <<sessionState, audio, duck, starts>>

HelloAck ==
  /\ where[Rx] = "idle" /\ link = "up"
  /\ link' = "ready"
  /\ UNCHANGED <<sessionState, audio, duck, starts, where>>

(* voice.start.ack, for whichever session is on. *)
StartAck ==
  /\ where[Rx] = "idle" /\ starts > 0
  /\ starts' = starts - 1
  /\ IF active /\ pending
       THEN pending' = FALSE /\ queue' = Flushed /\ preroll' = <<>>
       ELSE UNCHANGED <<pending, queue, preroll>>
  /\ UNCHANGED <<link, active, reopen, mine, announced, oldSent, chunk, hand,
                 marks, heard, duck, where>>

StartNack ==
  /\ VoiceGoto(Rx, "idle", "clear")
  /\ starts > 0
  /\ starts' = starts - 1
  /\ UNCHANGED <<link, sessionState, audio, duck>>

(* STT_VAD_END, RUN_END or ERROR, whenever the server sends them. *)
VoiceEvent ==
  /\ link # "down"
  /\ VoiceGoto(Rx, "idle", "clear") \/ VoiceGoto(Rx, "idle", "clear_only")
  /\ UNCHANGED <<link, sessionState, audio, duck, starts>>

RxClear ==
  /\ VoiceGoto(Rx, "clear", "unduck") \/ VoiceGoto(Rx, "clear_only", "idle")
  /\ Clear
  /\ UNCHANGED <<link, duck, starts>>

RxTask == RxClear \/ Unduck(Rx, "unduck") \/ ClearQueue(Rx, "queue", "idle")

-----------------------------------------------------------------------------

VoiceNext ==
  \/ \E u \in Users : StartReady(u) \/ StartTask(u) \/ Stop(u)
  \/ \E u \in Users \ {Reopener} : StopVoice(u)
  \/ \E w \in Watchdogs : Watchdog(w)
  \/ \E mark \in 0..2 : MicCall(mark)
  \/ MicHold \/ MicExpire \/ MicPass \/ MicPut
  \/ TxTask
  \/ Disconnected \/ Connected \/ HelloAck \/ StartAck \/ StartNack \/ VoiceEvent
  \/ RxTask

(* Every task that has a step to make makes it.  The microphone runs all   *)
(* the time, and a start that stays unanswered outlives its grace period.  *)
(* Nothing is asked of the users, the connection or the server.            *)
VoiceFair ==
  /\ \A u \in Users : WF_voicing(StartTask(u) \/ Stop(u))
  /\ \A w \in Watchdogs : WF_voicing(Watchdog(w))
  /\ WF_voicing(MicCall(0)) /\ SF_voicing(MicExpire) /\ WF_voicing(MicPass \/ MicPut)
  /\ WF_voicing(TxTask) /\ WF_voicing(RxTask)

VoiceSpec == VoiceInit /\ [][VoiceNext]_voicing /\ VoiceFair

-----------------------------------------------------------------------------
(* Properties.                                                             *)

(* Whatever is held back, flushed, dropped or cut, the server hears the    *)
(* frames in the order the microphone gave them and none of them twice.    *)
AudioInOrder == heard # 3

(* The upload is a channel that loses and nothing worse: what the server   *)
(* hears next is the oldest frame that is not lost, wherever the frames    *)
(* are held back, flushed, dropped or cut, and none that was lost comes    *)
(* back out of a buffer that a stop or a start was to empty.               *)
MarksOf(fs) == {fs[i].mark : i \in DOMAIN fs} \ {0}

Upload == INSTANCE LossyChannel WITH
  way   <- MarksOf(chunk) \cup MarksOf(queue) \cup MarksOf(preroll) \cup MarksOf(hand),
  given <- marks

UploadIsChannel == Upload!LossySpec

(* A session that starts right after another may send what the two audio   *)
(* tasks have in hand, one frame each, and never the backlog: audio is     *)
(* held back only for a session that waits for its answer, and none is     *)
(* left over for a later one, however the session ends.                    *)
OldAudioBounded ==
  /\ oldSent <= 2
  /\ preroll # <<>> => pending
  /\ pending => active

(* tater_protocol.c:3515, "Do not let a slow or lost acknowledgement leave *)
(* the microphone permanently gated": a session its user does not replace  *)
(* gets its gate opened or is closed.                                      *)
MicNotGated ==
  \A u \in Users : []<>(~mine[u] \/ ~pending \/ where[u] = "s_lock")

(* A continued session with a watchdog ends, also when nobody answers and  *)
(* when sending the stop fails.                                            *)
ReopenTimesOut == \A w \in Watchdogs : []<>~mine[w]

(* Both: no session hangs on an answer that does not come. *)
SessionsSettle == MicNotGated /\ ReopenTimesOut

(* A link that is lost at any point of a start does not leave the music    *)
(* ducked.                                                                 *)
DuckReleased == []<>(Ready \/ ~duck)

(* tater_protocol.c:3513, "A voice.start text frame and the following      *)
(* binary frames share one ordered websocket connection, so audio cannot   *)
(* overtake voice.start".                                                  *)
AudioAfterStart == [][TxSend => announced]_voicing

=============================================================================
