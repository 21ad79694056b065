----------------------------- MODULE OverlayMix -----------------------------
(***************************************************************************)
(* Native audio over Sendspin music, in main/sendspin_player.cpp: a ring   *)
(* without a lock between the playback task and on_audio_write, and the    *)
(* ducking of the music while either an overlay or a voice session wants   *)
(* it.  Every access to an atomic is a step.                               *)
(*                                                                         *)
(*   Music   on_audio_write, in the task that Sendspin plays from          *)
(*   Native  the playback task: begin, write, end, abort                   *)
(*   Loop    on_stream_start and on_stream_end                             *)
(*   Voice   tater_sendspin_set_voice_duck                                 *)
(***************************************************************************)
EXTENDS Naturals

CONSTANTS
  OverlayCapacity, \* SENDSPIN_OVERLAY_CAPACITY_FRAMES
  ClipFrames,      \* frames of one overlay
  MixFrames,       \* SENDSPIN_OVERLAY_MIX_FRAMES
  MaxOverlays,     \* bound: overlays
  MaxTurns         \* bound: changes of the voice's wish and ends of a stream

ASSUME OverlayAssumption ==
  /\ {OverlayCapacity, ClipFrames, MixFrames} \subseteq Nat \ {0}
  /\ {MaxOverlays, MaxTurns} \subseteq Nat
  /\ MixFrames <= OverlayCapacity

VARIABLES
  over,     \* s_overlay_active, _read_frame, _write_frame, _samples
  ducking,     \* s_voice_duck_active, s_duck_revision, the target of the mix
            \* and the revision it was set for
  songs,    \* s_stream_active and s_speaker_owned
  mixer, native, loop, ducker, \* where each of the four stands, and its locals
  sounded,    \* history: the last overlay frame mixed, and whether each was
            \* the next of its overlay
  torn,     \* history: the ring was reset while it was being read, or under
            \* an overlay that had just begun
  bounds    \* overlays and turns so far

overlaying == <<over, ducking, songs, mixer, native, loop, ducker, sounded, torn, bounds>>

Frames == 0..MaxOverlays * ClipFrames
Positions == 0..2 * (ClipFrames + MixFrames) + 1   \* a word of the counters
Word == 2 * (ClipFrames + MixFrames) + 2
Changes == 0..2 * MaxOverlays + MaxTurns + 1

OverlayTypeOK ==
  /\ over \in [active : BOOLEAN, read : Positions, write : Positions,
               cells : [0..OverlayCapacity - 1 -> Frames]]
  /\ ducking \in [voice : BOOLEAN, revision : Changes, active : BOOLEAN, seen : Changes]
  /\ songs \in BOOLEAN
  /\ mixer \in [at : {"idle", "voice", "overlay", "check", "read", "write", "copy", "store"},
                revision : Changes, voice : BOOLEAN, read : Positions, got : 0..MixFrames]
  /\ native \in [at : {"idle", "active", "publish", "write", "store", "drain", "drained", "reset"},
                 sent : 0..ClipFrames, start : Positions,
                 piece : 0..ClipFrames, was : BOOLEAN]
  /\ loop \in [at : {"idle", "reset", "publish", "off"}, was : BOOLEAN]
  /\ ducker \in {"idle", "publish"}
  /\ sounded \in [last : Frames, right : BOOLEAN]
  /\ torn \in BOOLEAN
  /\ bounds \in [overlays : 0..MaxOverlays, turns : 0..MaxTurns]

IdleMusic == [at |-> "idle", revision |-> 0, voice |-> FALSE, read |-> 0, got |-> 0]
IdleNative == [at |-> "idle", sent |-> 0, start |-> 0, piece |-> 0, was |-> FALSE]

OverlayInit ==
  /\ over = [active |-> FALSE, read |-> 0, write |-> 0,
             cells |-> [i \in 0..OverlayCapacity - 1 |-> 0]]
  /\ ducking = [voice |-> FALSE, revision |-> 1, active |-> FALSE, seen |-> 0]
  /\ songs = TRUE
  /\ mixer = IdleMusic /\ native = IdleNative /\ ducker = "idle"
  /\ loop = [at |-> "idle", was |-> FALSE]
  /\ sounded = [last |-> 0, right |-> TRUE] /\ torn = FALSE
  /\ bounds = [overlays |-> 0, turns |-> 0]

(* publish_duck_change *)
PublishDuck == ducking' = [ducking EXCEPT !.revision = @ + 1]

(* reset_overlay_ring; a read that has begun goes on with what it knew. *)
ResetOverlay ==
  /\ over' = [over EXCEPT !.read = 0, !.write = 0]
  /\ torn' = \/ torn \/ over.active
              \/ mixer.at \in {"read", "write", "copy", "store"}

-----------------------------------------------------------------------------
(* Music: refresh_duck_target, then read_overlay_frames.                   *)

(* Faulty form of TakenFor: the revision is read when the target is set. *)
TakenForLatest == ducking.revision

(* The revision that a refresh is for: the one it read before it looked. *)
TakenFor == mixer.revision

RefreshBegins ==
  /\ mixer.at = "idle" /\ songs
  /\ mixer' = [mixer EXCEPT !.at = IF ducking.revision = ducking.seen THEN "check" ELSE "voice",
                            !.revision = ducking.revision]
  /\ UNCHANGED <<over, ducking, songs, native, loop, ducker, sounded, torn, bounds>>

ReadVoiceDuck ==
  /\ mixer.at = "voice"
  /\ mixer' = [mixer EXCEPT !.at = "overlay", !.voice = ducking.voice]
  /\ UNCHANGED <<over, ducking, songs, native, loop, ducker, sounded, torn, bounds>>

SetTarget ==
  /\ mixer.at = "overlay"
  /\ ducking' = [ducking EXCEPT !.active = (mixer.voice \/ over.active), !.seen = TakenFor]
  /\ mixer' = [mixer EXCEPT !.at = "check", !.voice = FALSE]
  /\ UNCHANGED <<over, songs, native, loop, ducker, sounded, torn, bounds>>

CheckOverlay ==
  /\ mixer.at = "check"
  /\ mixer' = IF over.active THEN [IdleMusic EXCEPT !.at = "read"] ELSE IdleMusic
  /\ UNCHANGED <<over, ducking, songs, native, loop, ducker, sounded, torn, bounds>>

LoadRead ==
  /\ mixer.at = "read" /\ mixer' = [mixer EXCEPT !.at = "write", !.read = over.read]
  /\ UNCHANGED <<over, ducking, songs, native, loop, ducker, sounded, torn, bounds>>

LoadWrite ==
  LET available == (over.write + Word - mixer.read) % Word
  IN /\ mixer.at = "write"
     /\ mixer' = [mixer EXCEPT !.at = "copy",
                               !.got = IF available < MixFrames THEN available ELSE MixFrames]
     /\ UNCHANGED <<over, ducking, songs, native, loop, ducker, sounded, torn, bounds>>

MixOverlay ==
  LET cell(i) == over.cells[(mixer.read + i - 1) % OverlayCapacity]
  IN /\ mixer.at = "copy" /\ mixer' = [mixer EXCEPT !.at = "store"]
     /\ sounded' = IF mixer.got = 0 THEN sounded
                 ELSE [last  |-> cell(mixer.got),
                       right |-> /\ sounded.right
                                 /\ \A i \in 1..mixer.got : cell(i) = sounded.last + i]
     /\ UNCHANGED <<over, ducking, songs, native, loop, ducker, torn, bounds>>

StoreRead ==
  /\ mixer.at = "store" /\ mixer' = IdleMusic
  /\ over' = [over EXCEPT !.read = (mixer.read + mixer.got) % Word]
  /\ UNCHANGED <<ducking, songs, native, loop, ducker, sounded, torn, bounds>>

MusicTask ==
  \/ RefreshBegins \/ ReadVoiceDuck \/ SetTarget \/ CheckOverlay \/ LoadRead \/ LoadWrite
  \/ MixOverlay \/ StoreRead

-----------------------------------------------------------------------------
(* Native.                                                                 *)

(* tater_sendspin_begin_native_overlay: the ring is reset, the overlay     *)
(* active, and that is published.  Nothing of an earlier overlay is to be  *)
(* heard any more.                                                         *)
BeginClip ==
  /\ native.at = "idle" /\ songs /\ ~over.active /\ bounds.overlays < MaxOverlays
  /\ over' = [over EXCEPT !.read = 0, !.write = 0]
  /\ torn' = (mixer.at \in {"read", "write", "copy", "store"})
  /\ native' = [IdleNative EXCEPT !.at = "active"]
  /\ sounded' = [last |-> bounds.overlays * ClipFrames, right |-> TRUE]
  /\ bounds' = [bounds EXCEPT !.overlays = @ + 1]
  /\ UNCHANGED <<ducking, songs, mixer, loop, ducker>>

ActivateClip ==
  /\ native.at = "active" /\ native' = [native EXCEPT !.at = "publish"]
  /\ over' = [over EXCEPT !.active = TRUE]
  /\ UNCHANGED <<ducking, songs, mixer, loop, ducker, sounded, torn, bounds>>

(* The last step of a begin, and of an end or an abort. *)
PublishClip ==
  /\ native.at = "publish" /\ PublishDuck
  /\ native' = IF native.was THEN IdleNative ELSE [native EXCEPT !.at = "write"]
  /\ UNCHANGED <<over, songs, mixer, loop, ducker, sounded, torn, bounds>>

(* Faulty form of Announced: room counts as filled before it is. *)
AnnouncedEarly(k) == k

(* How far the write position moves before k frames are copied. *)
Announced(k) == 0

(* tater_sendspin_write_native_overlay: a piece goes where there is room,  *)
(* no further than the end of the memory, and counts once it is there.     *)
WritePiece ==
  LET used  == (over.write + Word - over.read) % Word
      space == IF used < OverlayCapacity THEN OverlayCapacity - used ELSE 0
  IN /\ native.at = "write" /\ over.active /\ songs
     /\ \E k \in 1..ClipFrames - native.sent :
          /\ k <= space /\ k <= OverlayCapacity - (over.write % OverlayCapacity)
          /\ native' = [native EXCEPT !.at = "store", !.start = over.write, !.piece = k]
          /\ over' = [over EXCEPT !.write = (@ + Announced(k)) % Word]
     /\ UNCHANGED <<ducking, songs, mixer, loop, ducker, sounded, torn, bounds>>

StoreWrite ==
  LET first == (bounds.overlays - 1) * ClipFrames + native.sent
      copied(i) == i - (native.start % OverlayCapacity)
  IN /\ native.at = "store"
     /\ over' = [over EXCEPT
                   !.cells = [i \in DOMAIN @ |-> IF copied(i) \in 0..native.piece - 1
                                                 THEN first + copied(i) + 1 ELSE @[i]],
                   !.write = (native.start + native.piece) % Word]
     /\ native' = [native EXCEPT !.at = "write", !.sent = @ + native.piece,
                                 !.start = 0, !.piece = 0]
     /\ UNCHANGED <<ducking, songs, mixer, loop, ducker, sounded, torn, bounds>>

(* tater_sendspin_end_native_overlay waits until what was written is mixed. *)
EndClip ==
  /\ native.at = "write" /\ over.active
  /\ native' = [native EXCEPT !.at = "drain"]
  /\ UNCHANGED <<over, ducking, songs, mixer, loop, ducker, sounded, torn, bounds>>

ClipDrained ==
  /\ native.at = "drain" /\ over.active /\ songs /\ over.read = over.write
  /\ native' = [native EXCEPT !.at = "drained"]
  /\ UNCHANGED <<over, ducking, songs, mixer, loop, ducker, sounded, torn, bounds>>

ClipFinished ==
  /\ native.at = "drained" /\ native' = [native EXCEPT !.at = "reset", !.was = TRUE]
  /\ over' = [over EXCEPT !.active = FALSE]
  /\ UNCHANGED <<ducking, songs, mixer, loop, ducker, sounded, torn, bounds>>

(* stop_overlay_immediately, when the write or the wait timed out, the     *)
(* stream is gone, or tater_sendspin_abort_native_overlay is called.       *)
StopClip ==
  /\ native.at \in {"write", "drain"}
  /\ native' = [native EXCEPT !.at = "reset", !.was = over.active]
  /\ over' = [over EXCEPT !.active = FALSE]
  /\ UNCHANGED <<ducking, songs, mixer, loop, ducker, sounded, torn, bounds>>

ResetClip ==
  /\ native.at = "reset" /\ ResetOverlay
  /\ native' = IF native.was THEN [IdleNative EXCEPT !.at = "publish", !.was = TRUE]
               ELSE IdleNative
  /\ UNCHANGED <<ducking, songs, mixer, loop, ducker, sounded, bounds>>

NativeTask ==
  \/ BeginClip \/ ActivateClip \/ PublishClip \/ WritePiece \/ StoreWrite \/ EndClip
  \/ ClipDrained \/ ClipFinished \/ StopClip \/ ResetClip

-----------------------------------------------------------------------------
(* Loop.                                                                   *)

SongsBegin ==
  /\ loop.at = "idle" /\ ~songs /\ songs' = TRUE
  /\ UNCHANGED <<over, ducking, mixer, native, loop, ducker, sounded, torn, bounds>>

(* on_stream_end stops the overlay first, then clears s_stream_active. *)
SongsEnd ==
  /\ loop.at = "idle" /\ songs /\ bounds.turns < MaxTurns
  /\ bounds' = [bounds EXCEPT !.turns = @ + 1]
  /\ loop' = [at |-> "reset", was |-> over.active]
  /\ over' = [over EXCEPT !.active = FALSE]
  /\ UNCHANGED <<ducking, songs, mixer, native, ducker, sounded, torn>>

ResetSongs ==
  /\ loop.at = "reset" /\ ResetOverlay
  /\ loop' = [loop EXCEPT !.at = IF loop.was THEN "publish" ELSE "off"]
  /\ UNCHANGED <<ducking, songs, mixer, native, ducker, sounded, bounds>>

PublishSongs ==
  /\ loop.at = "publish" /\ PublishDuck
  /\ loop' = [loop EXCEPT !.at = "off"]
  /\ UNCHANGED <<over, songs, mixer, native, ducker, sounded, torn, bounds>>

SongsOff ==
  /\ loop.at = "off" /\ songs' = FALSE
  /\ loop' = [at |-> "idle", was |-> FALSE]
  /\ UNCHANGED <<over, ducking, mixer, native, ducker, sounded, torn, bounds>>

SongsTask == SongsBegin \/ SongsEnd \/ ResetSongs \/ PublishSongs \/ SongsOff

(* Voice: tater_sendspin_set_voice_duck with another wish than before. *)
SetVoiceDuck ==
  /\ ducker = "idle" /\ bounds.turns < MaxTurns
  /\ bounds' = [bounds EXCEPT !.turns = @ + 1]
  /\ ducker' = "publish" /\ ducking' = [ducking EXCEPT !.voice = ~@]
  /\ UNCHANGED <<over, songs, mixer, native, loop, sounded, torn>>

PublishVoiceDuck ==
  /\ ducker = "publish" /\ ducker' = "idle" /\ PublishDuck
  /\ UNCHANGED <<over, songs, mixer, native, loop, sounded, torn, bounds>>

OverlayNext == MusicTask \/ NativeTask \/ SongsTask \/ SetVoiceDuck \/ PublishVoiceDuck

OverlaySpec == OverlayInit /\ [][OverlayNext]_overlaying

-----------------------------------------------------------------------------
(* An overlay is heard frame by frame in its order, none repeated, lost    *)
(* between two, or taken from an earlier overlay, unless the ring was      *)
(* reset under a reader that had already looked at it (read_overlay_frames *)
(* and tater_sendspin_write_native_overlay).                               *)
OverlayInOrder == torn \/ sounded.right

(* A change that is still to be published. *)
DuckOwed ==
  \/ native.at = "publish" \/ (native.at = "reset" /\ native.was)
  \/ loop.at = "publish" \/ (loop.at = "reset" /\ loop.was)
  \/ ducker = "publish"

(* Once every change is published and the music's task has seen the last   *)
(* of them, the music is ducked exactly when a voice session or an overlay *)
(* wants it: no change is lost between the read of the revision and that   *)
(* of the wishes (refresh_duck_target).                                    *)
DuckCurrent ==
  ~DuckOwed /\ ducking.seen = ducking.revision
    => ducking.active = (ducking.voice \/ over.active)

=============================================================================
