------------------------------ MODULE SceneMix ------------------------------
(***************************************************************************)
(* An audio scene of main/playback.c: scene_task plays a foreground clip   *)
(* into a mixer; scene_background_task plays another, perhaps again and    *)
(* again, into a ring from which the mixer takes what is there.  The scene *)
(* ends with its foreground: the ring is stopped, the background joined    *)
(* and both freed.                                                         *)
(*                                                                         *)
(* Of the two downloads only what stream_audio_url does to its sink is     *)
(* here: it begins it, writes pieces, and returns (PlaybackStream has the  *)
(* rest, and that it returns).                                             *)
(***************************************************************************)
EXTENDS Naturals, Sequences

CONSTANTS
  RingFrames,    \* PLAYBACK_SCENE_BACKGROUND_RING_FRAMES
  ReadyFrames,   \* frames to have before the foreground begins
  PieceFrames,   \* frames that a download writes at once, at most
  Foreground,    \* frames of the foreground
  FadeFrames,    \* frames of the fade-out
  MaxBackground  \* bound: frames that the background gives

ASSUME SceneAssumption ==
  /\ {RingFrames, ReadyFrames, PieceFrames, Foreground, FadeFrames,
      MaxBackground} \subseteq Nat \ {0}
  /\ ReadyFrames <= RingFrames

VARIABLES
  cut,    \* s_abort
  loops,  \* background_loop
  pcm,    \* scene_pcm_ring_t, and its memory
  scene,  \* scene_task: where it stands, whether it mixes, what is left of
          \* the clip and of the fade, whether it has waited, err
  back,   \* scene_background_task: where it stands, frames given, frames of
          \* the piece that are left, err, done
  mixed   \* the last background frame that was mixed

mixing == <<cut, loops, pcm, scene, back, mixed>>

SceneAt == {"setup", "prebuffer", "prewait", "begin", "play", "fade", "stop",
            "join", "gone"}
BackAt == {"none", "begin", "stream", "write", "wait", "again", "finish", "done",
           "notify", "gone"}

SceneTypeOK ==
  /\ cut \in BOOLEAN /\ loops \in BOOLEAN
  /\ pcm \in [cells : [0..RingFrames - 1 -> 0..MaxBackground], write : 0..RingFrames - 1,
              read : 0..RingFrames - 1, fill : 0..RingFrames, closed : BOOLEAN,
              failed : BOOLEAN, stop : BOOLEAN, memory : {"none", "live", "freed"}]
  /\ scene \in [at : SceneAt, mixes : BOOLEAN, left : 0..Foreground, fade : 0..FadeFrames,
                waited : BOOLEAN, err : BOOLEAN]
  /\ back \in [at : BackAt, given : 0..MaxBackground, owed : 0..PieceFrames, err : BOOLEAN,
               done : BOOLEAN]
  /\ mixed \in 0..MaxBackground

SceneInit ==
  /\ cut = FALSE /\ loops \in BOOLEAN /\ mixed = 0
  /\ pcm = [cells |-> [i \in 0..RingFrames - 1 |-> 0], write |-> 0, read |-> 0, fill |-> 0,
            closed |-> FALSE, failed |-> FALSE, stop |-> FALSE, memory |-> "none"]
  /\ scene = [at |-> "setup", mixes |-> FALSE, left |-> Foreground, fade |-> FadeFrames,
              waited |-> FALSE, err |-> FALSE]
  /\ back = [at |-> "none", given |-> 0, owed |-> 0, err |-> FALSE, done |-> FALSE]

AtMost(a, b) == IF a < b THEN a ELSE b

SceneGoes(to) == scene' = [scene EXCEPT !.at = to]
BackGoes(to) == back' = [back EXCEPT !.at = to]
BackFails == back' = [back EXCEPT !.at = "finish", !.err = TRUE]

-----------------------------------------------------------------------------
(* The ring.                                                               *)

(* Faulty form of WriteFrames: what does not fit before the end of the     *)
(* memory overwrites its start all the same.                               *)
WriteFramesBeyond == AtMost(back.owed, RingFrames - pcm.write)

(* How many frames one turn of scene_pcm_ring_write copies: what there is  *)
(* room for, and no further than the end of the memory.                    *)
WriteFrames ==
  AtMost(AtMost(back.owed, RingFrames - pcm.fill), RingFrames - pcm.write)

(* The n-th frame in the ring, counted from the oldest. *)
NthFrame(n) == pcm.cells[(pcm.read + n - 1) % RingFrames]

(* scene_pcm_ring_read of at most n frames, if there are any. *)
TakeFrames(n) ==
  LET k == AtMost(n, pcm.fill)
  IN /\ mixed' = IF k = 0 THEN mixed ELSE NthFrame(k)
     /\ pcm' = [pcm EXCEPT !.read = (@ + k) % RingFrames, !.fill = @ - k]

PcmEnded == pcm.closed \/ pcm.failed

-----------------------------------------------------------------------------
(* The scene.                                                              *)

(* The ring and the background task are made; without either the scene is  *)
(* its foreground.                                                         *)
SetUp ==
  /\ scene.at = "setup"
  /\ \/ /\ pcm' = [pcm EXCEPT !.memory = "live"]
        /\ \/ SceneGoes("prebuffer") /\ BackGoes("begin")
           \/ SceneGoes("begin") /\ UNCHANGED back
     \/ SceneGoes("begin") /\ UNCHANGED <<pcm, back>>
  /\ UNCHANGED <<cut, loops, mixed>>

(* scene_pcm_ring_wait_prebuffer: one look; the second one is the last     *)
(* before the timeout.                                                     *)
AwaitBackground ==
  /\ scene.at = "prebuffer"
  /\ LET ready == ~cut /\ (pcm.fill >= ReadyFrames \/ (PcmEnded /\ pcm.fill > 0))
     IN scene' = IF ready \/ cut \/ PcmEnded \/ scene.waited
                 THEN [scene EXCEPT !.at = "begin", !.mixes = ready]
                 ELSE [scene EXCEPT !.at = "prewait"]
  /\ UNCHANGED <<cut, loops, pcm, back, mixed>>

WaitsForBackground ==
  /\ scene.at = "prewait"
  /\ scene' = [scene EXCEPT !.at = "prebuffer", !.waited = TRUE]
  /\ UNCHANGED <<cut, loops, pcm, back, mixed>>

(* The foreground's stream begins, unless there has been a stop. *)
BeginForeground ==
  /\ scene.at = "begin"
  /\ \/ ~cut /\ SceneGoes("play")
     \/ scene' = [scene EXCEPT !.at = "stop", !.err = TRUE]
  /\ UNCHANGED <<cut, loops, pcm, back, mixed>>

(* scene_mixer_sink_write: a piece of the foreground with as much of the   *)
(* background as there is, or the write fails.                             *)
MixPiece ==
  /\ scene.at = "play" /\ scene.left > 0
  /\ \/ \E n \in 1..AtMost(PieceFrames, scene.left) :
          /\ scene' = [scene EXCEPT !.left = @ - n]
          /\ IF scene.mixes /\ ~cut THEN TakeFrames(n) ELSE UNCHANGED <<pcm, mixed>>
     \/ scene' = [scene EXCEPT !.at = "fade", !.err = TRUE] /\ UNCHANGED <<pcm, mixed>>
  /\ UNCHANGED <<cut, loops, back>>

ForegroundOver ==
  /\ scene.at = "play" /\ (scene.left = 0 \/ cut) /\ SceneGoes("fade")
  /\ UNCHANGED <<cut, loops, pcm, back, mixed>>

(* scene_mixer_sink_end: the background fades out while it lasts. *)
FadeOut ==
  /\ scene.at = "fade"
  /\ \/ /\ scene.mixes /\ ~cut /\ scene.fade > 0 /\ pcm.fill > 0
        /\ LET n == AtMost(PieceFrames, scene.fade)
           IN /\ TakeFrames(n)
              /\ scene' = [scene EXCEPT !.fade = @ - AtMost(n, pcm.fill)]
     \/ SceneGoes("stop") /\ UNCHANGED <<pcm, mixed>>
  /\ UNCHANGED <<cut, loops, back>>

(* scene_pcm_ring_stop, and its signal. *)
StopRing ==
  /\ scene.at = "stop" /\ SceneGoes("join")
  /\ pcm' = [pcm EXCEPT !.stop = (pcm.memory = "live")]
  /\ UNCHANGED <<cut, loops, back, mixed>>

(* Faulty form of BackgroundJoined: the wait is given up. *)
BackgroundLeft == TRUE

(* The polls of background_request->done. *)
BackgroundJoined == back.at = "none" \/ back.done

(* scene_pcm_ring_destroy; the request is freed, and the scene finished. *)
FinishScene ==
  /\ scene.at = "join" /\ BackgroundJoined /\ SceneGoes("gone")
  /\ pcm' = [pcm EXCEPT !.memory = "freed"]
  /\ UNCHANGED <<cut, loops, back, mixed>>

SceneTask ==
  \/ SetUp \/ AwaitBackground \/ WaitsForBackground \/ BeginForeground \/ MixPiece
  \/ ForegroundOver \/ FadeOut \/ StopRing \/ FinishScene

-----------------------------------------------------------------------------
(* The background.                                                         *)

(* scene_background_sink_begin *)
BeginBackground ==
  /\ back.at = "begin"
  /\ IF pcm.stop THEN BackFails ELSE BackGoes("stream")
  /\ UNCHANGED <<cut, loops, pcm, scene, mixed>>

(* The download gives a piece, ends or fails; a stopped one has failed. *)
StreamBackground ==
  /\ back.at = "stream"
  /\ \/ /\ ~cut
        /\ \E k \in 1..AtMost(PieceFrames, MaxBackground - back.given) :
             back' = [back EXCEPT !.at = "write", !.given = @ + k, !.owed = k]
     \/ ~cut /\ BackGoes("again")
     \/ BackFails
  /\ UNCHANGED <<cut, loops, pcm, scene, mixed>>

RingRefuses == cut \/ pcm.stop

(* scene_pcm_ring_write: one turn of its loop.  What is left at the end of *)
(* the memory waits as if there were no room.                              *)
WriteRing ==
  /\ back.at = "write"
  /\ \/ RingRefuses /\ BackFails /\ UNCHANGED pcm
     \/ /\ ~RingRefuses
        /\ LET k    == WriteFrames
               next == back.given - back.owed + 1
           IN /\ pcm' = [pcm EXCEPT
                           !.cells = [i \in DOMAIN @ |->
                                        IF i \in pcm.write..pcm.write + k - 1
                                        THEN next + i - pcm.write ELSE @[i]],
                           !.write = (@ + k) % RingFrames,
                           !.fill = @ + k]
              /\ back' = [back EXCEPT !.at = IF k = back.owed THEN "stream" ELSE "wait",
                                      !.owed = @ - k]
  /\ UNCHANGED <<cut, loops, scene, mixed>>

(* xSemaphoreTake(can_write, 20 ms), in time or not. *)
RingWriterWaits ==
  /\ back.at = "wait" /\ BackGoes("write")
  /\ UNCHANGED <<cut, loops, pcm, scene, mixed>>

PlayAgain ==
  /\ back.at = "again"
  /\ BackGoes(IF loops /\ ~pcm.stop /\ ~cut THEN "begin" ELSE "finish")
  /\ UNCHANGED <<cut, loops, pcm, scene, mixed>>

(* scene_pcm_ring_finish, and its signal. *)
FinishRing ==
  /\ back.at = "finish" /\ BackGoes("done")
  /\ pcm' = [pcm EXCEPT !.closed = TRUE,
                        !.failed = (@ \/ (back.err /\ ~pcm.stop /\ ~cut))]
  /\ UNCHANGED <<cut, loops, scene, mixed>>

BackgroundDone ==
  /\ back.at = "done" /\ back' = [back EXCEPT !.at = "notify", !.done = TRUE]
  /\ UNCHANGED <<cut, loops, pcm, scene, mixed>>

(* The handle of the scene's task is read from the request after done has  *)
(* been set: FinishScene may have freed it.                                *)
NotifyScene ==
  /\ back.at = "notify" /\ BackGoes("gone")
  /\ UNCHANGED <<cut, loops, pcm, scene, mixed>>

BackgroundTask ==
  \/ BeginBackground \/ StreamBackground \/ WriteRing \/ RingWriterWaits \/ PlayAgain
  \/ FinishRing \/ BackgroundDone \/ NotifyScene

-----------------------------------------------------------------------------

CutScene ==
  /\ ~cut /\ cut' = TRUE
  /\ UNCHANGED <<loops, pcm, scene, back, mixed>>

SceneNext == SceneTask \/ BackgroundTask \/ CutScene

(* Both tasks run, and their waits time out. *)
SceneFair == WF_mixing(SceneTask) /\ WF_mixing(BackgroundTask)

SceneSpec == SceneInit /\ [][SceneNext]_mixing /\ SceneFair

(* The ring is there for as long as the background may use it. *)
RingInUse ==
  back.at \notin {"none", "notify", "gone"} => pcm.memory = "live"

(* The background is mixed as it was written: in order, each frame once,   *)
(* and none after the ring was closed.                                     *)
Background ==
  INSTANCE AudioChannel WITH
    Depth  <- RingFrames,
    queue  <- [n \in 1..pcm.fill |-> NthFrame(n)],
    put    <- back.given - back.owed,
    heard  <- mixed,
    closed <- pcm.closed,
    result <- "none"

RingIsChannel == Background!ChannelSpec

(* A scene ends, with a background that repeats for ever, is slow or has   *)
(* failed.                                                                 *)
SceneEnds ==
  []<>(scene.at = "setup" \/ (scene.at = "gone" /\ back.at \in {"none", "gone"}))

=============================================================================
