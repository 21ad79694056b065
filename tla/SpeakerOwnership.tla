-------------------------- MODULE SpeakerOwnership --------------------------
(***************************************************************************)
(* Who may use the speaker: the playback lifecycle of main/playback.c, the *)
(* native-audio claims and the stream callbacks of                         *)
(* main/sendspin_player.cpp, and the update handler of main/app_main.c.    *)
(*                                                                         *)
(*   Callers   the tasks that start a playback (event task, wake engine,   *)
(*             button, alarm); Server is the one that runs on_tater_ota_url*)
(*   Players   the playback tasks that may exist at once                   *)
(*   Sendspin  sendspin_task, with the callbacks its client.loop() makes   *)
(*                                                                         *)
(* A start runs under s_lifecycle_lock.  The end of a playback, the stop   *)
(* and the claims do not, so each of their accesses to the shared state is *)
(* a step.                                                                 *)
(***************************************************************************)
EXTENDS Naturals, FiniteSets

CONSTANTS
  Callers, Server, Players, Sendspin, None,
  Updates,    \* whether ota.url commands arrive
  MaxClaims   \* bound: nothing is started while this many claims are counted

ASSUME OwnershipAssumption ==
  /\ IsFiniteSet(Callers) /\ Server \in Callers
  /\ None \notin Callers \cup Players \cup {Sendspin}
  /\ Sendspin \notin Callers \cup Players
  /\ Callers \cap Players = {}
  /\ Updates \in BOOLEAN
  /\ MaxClaims \in Nat \ {0}

VARIABLES
  lock,       \* s_lifecycle_lock: the caller that holds it
  task,       \* s_task
  playing,    \* s_playing
  abort,      \* s_abort
  mode,       \* s_output_mode
  claims,     \* s_native_audio_claim_count
  stream,     \* s_stream_active: "closing" once the client is to disconnect
  owned,      \* s_speaker_owned
  overlay,    \* s_overlay_active
  disconnect, \* s_disconnect_requested
  available,  \* what set_available told the Sendspin source last
  session,    \* the board's s_speaker_mutex: who holds the speaker session
  ota,        \* the OTA task: "run" with s_running set, "failed" before its
              \* failure callback, "idle"
  pc,         \* where each task stands between two steps
  inStep      \* history: no start has overtaken the end of a playback, no
              \* update began without its claim or while another ran

playback == <<lock, task, playing, abort, mode>>
sendspin == <<stream, owned, overlay, disconnect, available>>
vars == <<playback, claims, sendspin, session, ota, pc, inStep>>

(* The lock holder and the update handler may each add one more. *)
TopClaims == MaxClaims + 1

Modes == {"none", "native", "overlay"}
CallerSteps == {"idle", "lock", "wait", "choose", "overlay", "claim", "claimed",
                "arm", "create", "failed", "ota_claim", "ota_claimed", "ota_start"}
PlayerSteps == {"none", "run", "open", "play", "finish", "unassigned", "stopped"}
StreamSteps == {"loop", "begin", "begun"}

TypeOK ==
  /\ lock \in Callers \cup {None}
  /\ task \in Players \cup {None}
  /\ {playing, abort, owned, overlay, disconnect, available,
      inStep} \subseteq BOOLEAN
  /\ stream \in {"off", "on", "closing"}
  /\ mode \in Modes
  /\ claims \in 0..TopClaims
  /\ session \in Players \cup {Sendspin, None}
  /\ ota \in {"idle", "run", "failed"}
  /\ pc \in [Callers \cup Players \cup {Sendspin}
               -> CallerSteps \cup PlayerSteps \cup StreamSteps]

Init ==
  /\ lock = None /\ task = None /\ playing = FALSE /\ abort = FALSE
  /\ mode = "none" /\ claims = 0
  /\ stream = "off" /\ owned = FALSE /\ overlay = FALSE /\ disconnect = FALSE
  /\ available = TRUE
  /\ session = None /\ ota = "idle"
  /\ pc = [t \in Callers \cup Players \cup {Sendspin} |->
             IF t \in Callers THEN "idle"
             ELSE IF t \in Players THEN "none" ELSE "loop"]
  /\ inStep = TRUE

Goto(t, from, to) == pc[t] = from /\ pc' = [pc EXCEPT ![t] = to]

-----------------------------------------------------------------------------
(* The claim counter.                                                      *)

(* fetch_add and, of a claim that timed out, the unguarded fetch_sub of    *)
(* tater_sendspin_claim_native_audio, on a word whose top is TopClaims.    *)
ClaimAdd == claims' = IF claims = TopClaims THEN 0 ELSE claims + 1
ClaimBack == claims' = IF claims = 0 THEN TopClaims ELSE claims - 1

(* tater_sendspin_release_native_audio, which stops at 0. *)
Released == IF claims = 0 THEN 0 ELSE claims - 1

(* playback_release_output *)
ReleaseOutput ==
  /\ mode' = "none"
  /\ overlay' = (overlay /\ mode # "overlay")
  /\ claims' = IF mode = "native" THEN Released ELSE claims

-----------------------------------------------------------------------------
(* A start: playback_begin_start, the creation of the task and             *)
(* playback_end_start, as play_url and its siblings make them.             *)

StartPlayback(c) ==
  /\ Goto(c, "idle", "lock")
  /\ UNCHANGED <<playback, claims, sendspin, session, ota, inStep>>

TakeLock(c) ==
  /\ Goto(c, "lock", "wait")
  /\ lock = None /\ claims < MaxClaims
  /\ lock' = c
  /\ UNCHANGED <<task, playing, abort, mode, claims, sendspin, session, ota, inStep>>

Finishing(p) == pc[p] \in {"unassigned", "stopped"}

(* playback_wait_stopped_locked.  A start that gets past it while an older *)
(* playback is still in playback_mark_finished has overtaken that one.     *)
Stopped(c) ==
  /\ Goto(c, "wait", "choose")
  /\ ~playing \/ task = None
  /\ task' = None
  /\ inStep' = (inStep /\ \A p \in Players : ~Finishing(p))
  /\ UNCHANGED <<lock, playing, abort, mode, claims, sendspin, session, ota>>

NotStopped(c) ==
  /\ pc[c] = "wait"
  /\ playing /\ task # None
  /\ abort' = TRUE
  /\ \/ UNCHANGED <<lock, pc>>
     \/ lock' = None /\ pc' = [pc EXCEPT ![c] = "idle"]   \* PLAYBACK_STOP_WAIT_MS
  /\ UNCHANGED <<task, playing, mode, claims, sendspin, session, ota, inStep>>

(* The conditions of tater_sendspin_begin_native_overlay, and the overlay  *)
(* they allow.                                                             *)
ChooseOutput(c) ==
  /\ Goto(c, "choose",
          IF stream # "off" /\ owned /\ claims = 0 /\ ~overlay THEN "overlay" ELSE "claim")
  /\ mode' = "none"
  /\ UNCHANGED <<lock, task, playing, abort, claims, sendspin, session, ota, inStep>>

BeginOverlay(c) ==
  /\ Goto(c, "overlay", "arm")
  /\ overlay' = TRUE
  /\ mode' = "overlay"
  /\ UNCHANGED <<lock, task, playing, abort, claims, stream, owned, disconnect,
                 available, session, ota, inStep>>

Claim(c) ==
  /\ Goto(c, "claim", "claimed")
  /\ ClaimAdd
  /\ UNCHANGED <<playback, sendspin, session, ota, inStep>>

ClaimGranted(c) ==
  /\ Goto(c, "claimed", "arm")
  /\ ~owned
  /\ mode' = "native"
  /\ UNCHANGED <<lock, task, playing, abort, claims, sendspin, session, ota, inStep>>

ClaimTimeout(c) ==
  /\ Goto(c, "claimed", "idle")
  /\ owned
  /\ ClaimBack
  /\ lock' = None
  /\ UNCHANGED <<task, playing, abort, mode, sendspin, session, ota, inStep>>

Arm(c) ==
  /\ Goto(c, "arm", "create")
  /\ abort' = FALSE
  /\ playing' = TRUE
  /\ UNCHANGED <<lock, task, mode, claims, sendspin, session, ota, inStep>>

(* The creation fails for lack of memory, at any time. *)
CreateTask(c) ==
  /\ pc[c] = "create"
  /\ \/ \E p \in Players :
          /\ pc[p] = "none"
          /\ task' = p
          /\ lock' = None
          /\ pc' = [pc EXCEPT ![c] = "idle", ![p] = "run"]
     \/ pc' = [pc EXCEPT ![c] = "failed"] /\ UNCHANGED <<lock, task>>
  /\ UNCHANGED <<playing, abort, mode, claims, sendspin, session, ota, inStep>>

(* Faulty form of StartFailed: the output that was chosen is not released. *)
StartFailedHolding(c) ==
  /\ Goto(c, "failed", "idle")
  /\ lock' = None /\ task' = None /\ playing' = FALSE /\ abort' = FALSE
  /\ UNCHANGED <<mode, claims, sendspin, session, ota, inStep>>

(* playback_start_failed *)
StartFailed(c) ==
  /\ Goto(c, "failed", "idle")
  /\ lock' = None /\ task' = None /\ playing' = FALSE /\ abort' = FALSE
  /\ ReleaseOutput
  /\ UNCHANGED <<stream, owned, disconnect, available, session, ota, inStep>>

Start(c) ==
  \/ TakeLock(c) \/ Stopped(c) \/ NotStopped(c) \/ ChooseOutput(c)
  \/ BeginOverlay(c) \/ Claim(c) \/ ClaimGranted(c) \/ ClaimTimeout(c)
  \/ Arm(c) \/ CreateTask(c) \/ StartFailed(c)

-----------------------------------------------------------------------------
(* A playback task, from its creation to the end of playback_mark_finished.*)

Run(p) ==
  /\ Goto(p, "run", "open")
  /\ playing' = TRUE
  /\ UNCHANGED <<lock, task, abort, mode, claims, sendspin, session, ota, inStep>>

(* Faulty form of Open: a playback that did not get the speaker goes on. *)
OpenUnchecked(p) ==
  /\ Goto(p, "open", "play")
  /\ session' = IF mode # "overlay" /\ session = None THEN p ELSE session
  /\ UNCHANGED <<playback, claims, sendspin, ota, inStep>>

(* playback_speaker_begin.  The media may fail to open before it, and the  *)
(* board gives up on the session after 5 s.                                *)
Open(p) ==
  /\ \/ Goto(p, "open", "play") /\ mode = "overlay" /\ UNCHANGED session
     \/ Goto(p, "open", "play") /\ mode # "overlay" /\ session = None /\ session' = p
     \/ Goto(p, "open", "finish") /\ UNCHANGED session
  /\ UNCHANGED <<playback, claims, sendspin, ota, inStep>>

(* playback_speaker_end, which asks s_output_mode again.  The board's      *)
(* session is given back whoever holds it.                                 *)
EndSession(p) ==
  /\ Goto(p, "play", "finish")
  /\ IF mode = "overlay"
       THEN mode' = "none" /\ overlay' = FALSE /\ UNCHANGED session
       ELSE session' = None /\ UNCHANGED <<mode, overlay>>
  /\ UNCHANGED <<lock, task, playing, abort, claims, stream, owned, disconnect,
                 available, ota, inStep>>

(* Faulty form of MustEnd: the playback does not look at s_abort. *)
MustEndDetached == mode = "overlay" /\ ~(overlay /\ stream # "off" /\ owned)

(* A playback has to end when it is stopped, or when the stream it is      *)
(* mixed into is gone (tater_sendspin_write_native_overlay).               *)
MustEnd == abort \/ (mode = "overlay" /\ ~(overlay /\ stream # "off" /\ owned))

(* playback_mark_finished: first its test of s_task.  A task that finds    *)
(* another one's handle leaves everything as it is.                        *)
MarkFinished(p) ==
  /\ Goto(p, "finish", IF task \in {p, None} THEN "unassigned" ELSE "none")
  /\ task' = IF task = p THEN None ELSE task
  /\ UNCHANGED <<lock, playing, abort, mode, claims, sendspin, session, ota, inStep>>

ClearPlaying(p) ==
  /\ Goto(p, "unassigned", "stopped")
  /\ playing' = FALSE
  /\ UNCHANGED <<lock, task, abort, mode, claims, sendspin, session, ota, inStep>>

ReleaseSpeaker(p) ==
  /\ Goto(p, "stopped", "none")
  /\ abort' = FALSE
  /\ ReleaseOutput
  /\ UNCHANGED <<lock, task, playing, stream, owned, disconnect, available, session, ota, inStep>>

Player(p) ==
  \/ Run(p) \/ Open(p) \/ (MustEnd /\ EndSession(p))
  \/ MarkFinished(p) \/ ClearPlaying(p) \/ ReleaseSpeaker(p)

(* tater_playback_stop, and the playback watchdog's verdict on a session   *)
(* that has ended since it looked.                                         *)
StopPlayback ==
  /\ abort' = TRUE
  /\ UNCHANGED <<lock, task, playing, mode, claims, sendspin, session, ota, pc, inStep>>

-----------------------------------------------------------------------------
(* An update: on_tater_ota_url, the OTA task and its failure callback.     *)
(* An update that succeeds restarts the chip.                              *)

OtaUrl(s) ==
  /\ Goto(s, "idle", "ota_claim")
  /\ claims < MaxClaims
  /\ abort' = (abort \/ task # None \/ playing)
  /\ UNCHANGED <<lock, task, playing, mode, claims, sendspin, session, ota, inStep>>

OtaClaim(s) ==
  /\ Goto(s, "ota_claim", "ota_claimed")
  /\ ClaimAdd
  /\ UNCHANGED <<playback, sendspin, session, ota, inStep>>

(* A claim that fails is logged, and the update goes on without it. *)
OtaClaimed(s) ==
  /\ Goto(s, "ota_claimed", "ota_start")
  /\ \/ ~owned /\ UNCHANGED <<claims, inStep>>
     \/ owned /\ ClaimBack /\ inStep' = FALSE
  /\ UNCHANGED <<playback, sendspin, session, ota>>

(* tater_ota_start_url.  When an update is running already, the claim that *)
(* this one took is not given back.                                        *)
OtaStart(s) ==
  /\ Goto(s, "ota_start", "idle")
  /\ \/ /\ ota = "run"
        /\ inStep' = FALSE
        /\ UNCHANGED <<claims, ota>>
     \/ /\ ota = "idle"
        /\ ota' = "run"
        /\ UNCHANGED <<claims, inStep>>
     \/ /\ ota # "run"   \* no memory for the request
        /\ claims' = Released
        /\ UNCHANGED <<ota, inStep>>
  /\ UNCHANGED <<playback, sendspin, session>>

OtaHandler(s) == OtaClaim(s) \/ OtaClaimed(s) \/ OtaStart(s)

OtaFail ==
  /\ ota = "run"
  /\ ota' = "failed"
  /\ UNCHANGED <<playback, claims, sendspin, session, pc, inStep>>

(* restore_leds_after_ota_failure *)
OtaFailed ==
  /\ ota = "failed"
  /\ ota' = "idle"
  /\ claims' = Released
  /\ UNCHANGED <<playback, sendspin, session, pc, inStep>>

-----------------------------------------------------------------------------
(* Sendspin.                                                               *)

(* on_stream_start *)
StreamStart ==
  /\ stream = "off"
  /\ Goto(Sendspin, "loop", IF claims > 0 THEN "loop" ELSE "begin")
  /\ stream' = "on"
  /\ disconnect' = (disconnect \/ claims > 0)
  /\ UNCHANGED <<playback, claims, owned, overlay, available, session, ota, inStep>>

StreamBegin ==
  /\ \/ /\ Goto(Sendspin, "begin", "begun")
        /\ session = None /\ session' = Sendspin
        /\ UNCHANGED disconnect
     \/ /\ Goto(Sendspin, "begin", "loop")   \* format, session lock, codec
        /\ disconnect' = TRUE
        /\ UNCHANGED session
  /\ UNCHANGED <<playback, claims, stream, owned, overlay, available,
                 ota, inStep>>

StreamBegun ==
  /\ Goto(Sendspin, "begun", "loop")
  /\ \/ owned' = TRUE /\ UNCHANGED <<session, disconnect>>
     \/ session' = None /\ disconnect' = TRUE /\ UNCHANGED owned   \* no render clock
  /\ UNCHANGED <<playback, claims, stream, overlay, available, ota, inStep>>

(* on_stream_end: the source stops, or the client has been disconnected. *)
StreamEnd ==
  /\ pc[Sendspin] = "loop" /\ stream # "off"
  /\ stream' = "off" /\ overlay' = FALSE /\ owned' = FALSE
  /\ session' = IF owned THEN None ELSE session
  /\ UNCHANGED <<playback, claims, disconnect, available, ota, pc, inStep>>

Closed(wanted) == IF wanted /\ stream = "on" THEN "closing" ELSE stream

(* Faulty form of Poll: the claim does not end the stream. *)
PollNoDisconnect ==
  /\ pc[Sendspin] = "loop"
  /\ available' = (claims = 0)
  /\ stream' = Closed(disconnect)
  /\ disconnect' = FALSE
  /\ UNCHANGED <<playback, claims, owned, overlay, session, ota, pc, inStep>>

(* Faulty form of Poll: the source is told of a claim, never of its end. *)
PollUnavailable ==
  /\ pc[Sendspin] = "loop"
  /\ available' = (available /\ claims = 0)
  /\ stream' = Closed(disconnect \/ claims > 0)
  /\ disconnect' = FALSE
  /\ UNCHANGED <<playback, claims, owned, overlay, session, ota, pc, inStep>>

(* The body of the loop of sendspin_task, after client.loop().  A          *)
(* disconnection nobody is connected for is forgotten.                     *)
Poll ==
  /\ pc[Sendspin] = "loop"
  /\ available' = (claims = 0)
  /\ stream' = Closed(disconnect \/ claims > 0)
  /\ disconnect' = FALSE
  /\ UNCHANGED <<playback, claims, owned, overlay, session, ota, pc, inStep>>

ClosedStreamEnds == stream = "closing" /\ StreamEnd
SendspinTask == StreamBegin \/ StreamBegun \/ Poll \/ ClosedStreamEnds

-----------------------------------------------------------------------------

Next ==
  \/ \E c \in Callers : StartPlayback(c) \/ Start(c)
  \/ \E p \in Players : Player(p) \/ EndSession(p)
  \/ StopPlayback
  \/ (Updates /\ OtaUrl(Server)) \/ OtaHandler(Server) \/ OtaFail \/ OtaFailed
  \/ StreamStart \/ StreamEnd \/ SendspinTask

(* FreeRTOS runs every ready task.  Nobody has to start or stop anything,  *)
(* media need not end by itself, and a source need not start a stream.     *)
Fairness ==
  /\ \A c \in Callers : WF_vars(Start(c))
  /\ \A p \in Players : WF_vars(Player(p))
  /\ WF_vars(OtaHandler(Server)) /\ WF_vars(OtaFailed)
  /\ WF_vars(StreamBegin \/ StreamBegun) /\ SF_vars(Poll)
  /\ WF_vars(ClosedStreamEnds)

Spec == Init /\ [][Next]_vars /\ Fairness

-----------------------------------------------------------------------------
(* Properties.                                                             *)

Live(p) == pc[p] \in {"run", "open", "play", "finish"}
Claiming == {c \in Callers : pc[c] \in {"claimed", "ota_claimed", "ota_start"}}
One(b) == IF b THEN 1 ELSE 0

(* Every claim on the speaker is somebody's, and every output that is      *)
(* chosen has a start or a playback that will release it: on no path of a  *)
(* start, a playback, its failures or an update is a claim lost or given   *)
(* back twice, unless one of the three things inStep records happened.     *)
ClaimsBalance ==
  inStep =>
    /\ claims = Cardinality(Claiming) + One(mode = "native") + One(ota # "idle")
    /\ mode # "none" => \/ \E c \in Callers : pc[c] \in {"arm", "create", "failed"}
                        \/ \E p \in Players : Live(p) \/ Finishing(p)

(* A playback that has not finished is the one s_task and s_playing tell   *)
(* of, so a stop reaches it and a second one does not start beside it.     *)
CurrentPlayback ==
  inStep => \A p \in Players : Live(p) => task = p /\ playing

(* A playback gives back the board's speaker session only when it holds it *)
(* (a FreeRTOS mutex is given by its holder): the output it ends on is the *)
(* one it began on.                                                        *)
GivesOwnSession ==
  [][\A p \in Players :
       (inStep /\ EndSession(p) /\ mode # "overlay") => session = p]_vars

(* The playbacks that are not through, and the tasks that use the board's  *)
(* speaker as their own.                                                   *)
Started == {p \in Players : pc[p] # "none"}
Sounding == {p \in Players : pc[p] = "play" /\ mode # "overlay"}
              \cup {t \in {Sendspin} : owned \/ pc[t] = "begun"}

Turns == INSTANCE SpeakerTurns WITH turn <- Started, sounding <- Sounding

(* Playbacks take turns, and nobody sounds beside another: a playback and  *)
(* Sendspin hand the speaker over through its release only, and a playback *)
(* is silent before it is through, whatever is started, stopped, claimed   *)
(* and updated meanwhile.                                                  *)
TakesTurns == Turns!TurnsSpec

(* While native audio is claimed, Sendspin does not keep the speaker, also *)
(* when its stream started just as the claim was made.                     *)
SpeakerYielded == []<>(claims = 0 \/ ~owned)

(* Once no claim is left, the source is told that the satellite is         *)
(* available again, however many claims came and went between two looks.   *)
AvailableAgain == <>[](claims = 0) => <>[]available

Stopping(p) == abort /\ task = p /\ pc[p] = "play" /\ inStep

(* A stop that reaches a running playback is not lost to whatever else is  *)
(* started or ends, unless a start has overtaken the end of a playback.    *)
StopKept ==
  [][\A p \in Players :
       Stopping(p) => Stopping(p)' \/ pc'[p] # "play" \/ ~inStep']_vars

(* It is kept, and the playback ends. *)
StopHeard == StopKept /\ \A p \in Players : []<>~Stopping(p)

(* README.md:204, "Starting one of those clips asks the active Sendspin    *)
(* source to release the speaker, plays the native audio, and makes the    *)
(* satellite available to Sendspin again afterward": when nothing plays,   *)
(* starts or updates, no claim is counted.                                 *)
AtRest ==
  /\ \A c \in Callers : pc[c] = "idle"
  /\ \A p \in Players : pc[p] = "none"
  /\ ota = "idle"
AvailableAfterward == AtRest => claims = 0

=============================================================================
