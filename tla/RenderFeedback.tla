--------------------------- MODULE RenderFeedback ---------------------------
(***************************************************************************)
(* How Sendspin learns which of its frames have been played.               *)
(*                                                                         *)
(*   the stream   the listener's callbacks of main/sendspin_player.cpp,    *)
(*                one after the other, with the board's speaker calls      *)
(*   the ISR      on_sent of main/audio_render_clock.h: one DMA buffer has *)
(*                been sent, filled or not                                 *)
(*   the poll     render_feedback_task, on the other core, which takes its *)
(*                snapshot without a lock                                  *)
(*                                                                         *)
(* A frame stands for the content of one DMA buffer.  The stamp of a       *)
(* completion is the number of frames it completes: whoever reads a count  *)
(* and a stamp that differ has mixed two completions.  Modelled for the    *)
(* boards that stop the channel before they reset the clock (Voice PE,     *)
(* Sat1 and ReSpeaker; the S3 Box does not).                               *)
(***************************************************************************)
EXTENDS Naturals

CONSTANTS
  DmaFrames,   \* frames in the DMA queue
  BlockFrames, \* frames of one on_audio_write at most
  MaxFrames,   \* bound: frames that one stream writes
  MaxStreams   \* bound: streams

ASSUME RenderAssumption ==
  {DmaFrames, BlockFrames, MaxFrames, MaxStreams} \subseteq Nat \ {0}

VARIABLES
  clock,     \* tater_audio_render_clock_state_t
  channel,   \* the I2S channel: enabled, and the frames in its queue
  isr,       \* the interrupt handler, and the frames it completes
  music,     \* s_speaker_owned, s_written_frames, notified_frames_,
             \* pending_prefix_frames_, last_completed_frames_, and whether
             \* a write failed (s_disconnect_requested)
  writer,    \* the stream: where it stands, the frames of the block and of
             \* the board's write that are left; streams begun and frames
             \* accepted (bounds)
  notified,  \* the notification of render_feedback_task
  poll,      \* render_feedback_task: where it stands and its locals
  straddled  \* history: a stream has begun while a poll of the one before
             \* was under way

render == <<clock, channel, isr, music, writer, notified, poll, straddled>>

Top == DmaFrames + MaxFrames   \* frames on the clock at most

RenderTypeOK ==
  /\ clock \in [submitted : 0..Top, completed : 0..Top, at : 0..Top, sequence : Nat]
  /\ channel \in [on : BOOLEAN, queued : 0..DmaFrames]
  /\ isr \in [at : {"idle", "mark", "stamp", "count", "unmark"}, frames : {0, 1}]
  /\ music \in [owned : BOOLEAN, written : 0..MaxFrames, reported : 0..2 * MaxFrames,
                prefix : 0..Top, last : 0..Top, failed : BOOLEAN]
  /\ writer \in [at : {"ended", "reset", "zeroed", "prime", "begun", "ready", "block", "write"},
                 block : 0..BlockFrames, part : 0..BlockFrames, left : 0..BlockFrames,
                 streams : 0..MaxStreams]
  /\ notified \in BOOLEAN /\ straddled \in BOOLEAN
  /\ poll \in [at : {"sleep", "check", "before", "count", "stamp", "after", "account", "report"},
               before : Nat, completed : 0..Top, stamp : 0..Top, played : 0..Top]

Asleep == [at |-> "sleep", before |-> 0, completed |-> 0, stamp |-> 0, played |-> 0]

RenderInit ==
  /\ clock = [submitted |-> 0, completed |-> 0, at |-> 0, sequence |-> 0]
  /\ channel = [on |-> FALSE, queued |-> 0]
  /\ isr = [at |-> "idle", frames |-> 0]
  /\ music = [owned |-> FALSE, written |-> 0, reported |-> 0, prefix |-> 0, last |-> 0,
              failed |-> FALSE]
  /\ writer = [at |-> "ended", block |-> 0, part |-> 0, left |-> 0, streams |-> 0]
  /\ notified = FALSE /\ straddled = FALSE
  /\ poll = Asleep

Least(a, b) == IF a < b THEN a ELSE b

-----------------------------------------------------------------------------
(* The stream: its start and the board's.                                  *)

(* tater_audio_speaker_begin stops the channel, and the reset of the clock *)
(* makes its sequence odd.                                                 *)
StreamOpens ==
  /\ writer.at = "ended" /\ writer.streams < MaxStreams
  /\ channel' = [on |-> FALSE, queued |-> 0]
  /\ clock' = [clock EXCEPT !.sequence = @ + 1]
  /\ writer' = [writer EXCEPT !.at = "reset", !.streams = @ + 1]
  /\ isr.at = "idle"
  /\ UNCHANGED <<isr, music, notified, poll, straddled>>

ResetCounts ==
  /\ writer.at = "reset" /\ writer' = [writer EXCEPT !.at = "zeroed"]
  /\ clock' = [clock EXCEPT !.submitted = 0, !.completed = 0, !.at = 0]
  /\ UNCHANGED <<channel, isr, music, notified, poll, straddled>>

ResetEnds ==
  /\ writer.at = "zeroed" /\ writer' = [writer EXCEPT !.at = "prime"]
  /\ clock' = [clock EXCEPT !.sequence = @ + 1]
  /\ UNCHANGED <<channel, isr, music, notified, poll, straddled>>

(* speaker_prime_silence fills the queue on some boards.  (Voice PE        *)
(* enables the channel with its first frames, the others here.)            *)
Prime ==
  /\ writer.at = "prime" /\ writer' = [writer EXCEPT !.at = "begun"]
  /\ \E k \in {0, DmaFrames} :
       /\ channel' = [on |-> TRUE, queued |-> k]
       /\ clock' = [clock EXCEPT !.submitted = @ + k]
  /\ UNCHANGED <<isr, music, notified, poll, straddled>>

(* The rest of on_stream_start; no completion is half way through, for the *)
(* snapshot it takes waits until the sequence is even.                     *)
StreamReady ==
  /\ writer.at = "begun" /\ clock.sequence % 2 = 0
  /\ music' = [owned |-> TRUE, written |-> 0, reported |-> 0, last |-> clock.completed,
               prefix |-> clock.submitted - clock.completed, failed |-> FALSE]
  /\ straddled' = (straddled \/ poll.at \notin {"sleep", "check"})
  /\ writer' = [writer EXCEPT !.at = "ready"]
  /\ UNCHANGED <<clock, channel, isr, notified, poll>>

(* on_stream_end, with tater_audio_speaker_end. *)
StreamOver ==
  /\ writer.at = "ready" /\ isr.at = "idle"
  /\ music' = [music EXCEPT !.owned = FALSE, !.written = 0, !.reported = 0]
  /\ channel' = [on |-> FALSE, queued |-> 0]
  /\ writer' = [writer EXCEPT !.at = "ended"]
  /\ UNCHANGED <<clock, isr, notified, poll, straddled>>

-----------------------------------------------------------------------------
(* The stream: on_audio_write.                                             *)

(* Faulty form of Reserved: the frames are counted when they have been     *)
(* written.                                                                *)
ReservedLate(k) == 0

(* The frames of a block that are counted before the board gets them. *)
Reserved(k) == k

WriteBlock ==
  /\ writer.at = "ready" /\ ~music.failed
  /\ \E k \in 1..Least(BlockFrames, MaxFrames - music.written) :
       /\ music' = [music EXCEPT !.written = @ + Reserved(k)]
       /\ writer' = [writer EXCEPT !.at = "block", !.block = k, !.left = k]
  /\ UNCHANGED <<clock, channel, isr, notified, poll, straddled>>

(* The board writes the block in one or more parts, each of them through   *)
(* tater_audio_render_clock_write, which reserves it on the clock.         *)
WritePart ==
  /\ writer.at = "block" /\ writer.left > 0
  /\ \E k \in 1..writer.left :
       /\ clock' = [clock EXCEPT !.submitted = @ + k]
       /\ writer' = [writer EXCEPT !.at = "write", !.part = k]
  /\ UNCHANGED <<channel, isr, music, notified, poll, straddled>>

(* i2s_channel_write takes a frame as soon as there is room. *)
FrameAccepted ==
  /\ writer.at = "write" /\ writer.part > 0 /\ channel.queued < DmaFrames
  /\ channel' = [channel EXCEPT !.queued = @ + 1]
  /\ writer' = [writer EXCEPT !.part = @ - 1, !.left = @ - 1,
                              !.at = IF writer.part = 1 THEN "block" ELSE @]
  /\ UNCHANGED <<clock, isr, music, notified, poll, straddled>>

(* There is no room for as long as the write may take: the part gives back *)
(* what it has reserved for nothing, and so does the block.  (The queue    *)
(* stays full only when the clock line has stopped, and then no more has   *)
(* been completed than was accepted.)                                      *)
WriteTimesOut ==
  /\ writer.at = "write" /\ channel.queued = DmaFrames
  /\ clock.submitted - writer.part >= clock.completed
  /\ clock' = [clock EXCEPT !.submitted = @ - writer.part]
  /\ music' = [music EXCEPT !.written = @ - Reserved(writer.block), !.failed = TRUE]
  /\ writer' = [writer EXCEPT !.at = "ready", !.block = 0, !.part = 0, !.left = 0]
  /\ UNCHANGED <<channel, isr, notified, poll, straddled>>

BlockWritten ==
  /\ writer.at = "block" /\ writer.left = 0
  /\ music' = [music EXCEPT !.written = @ + writer.block - Reserved(writer.block)]
  /\ writer' = [writer EXCEPT !.at = "ready", !.block = 0]
  /\ UNCHANGED <<clock, channel, isr, notified, poll, straddled>>

StreamTask ==
  \/ StreamOpens \/ ResetCounts \/ ResetEnds \/ Prime \/ StreamReady \/ StreamOver
  \/ WriteBlock \/ WritePart \/ FrameAccepted \/ WriteTimesOut \/ BlockWritten

-----------------------------------------------------------------------------
(* The interrupt.  A buffer that was not refilled in time is sent too, and *)
(* its event counts for whatever is submitted.                             *)

BufferSent ==
  /\ channel.on /\ isr.at = "idle"
  /\ channel' = [channel EXCEPT !.queued = IF @ > 0 THEN @ - 1 ELSE 0]
  /\ isr' = IF clock.submitted > clock.completed THEN [at |-> "mark", frames |-> 1]
                                                 ELSE isr
  /\ UNCHANGED <<clock, music, writer, notified, poll, straddled>>

OnSent ==
  /\ isr.at # "idle"
  /\ CASE isr.at = "mark"   -> clock' = [clock EXCEPT !.sequence = @ + 1]
       [] isr.at = "stamp"  -> clock' = [clock EXCEPT !.at = clock.completed + isr.frames]
       [] isr.at = "count"  -> clock' = [clock EXCEPT !.completed = @ + isr.frames]
       [] isr.at = "unmark" -> clock' = [clock EXCEPT !.sequence = @ + 1]
  /\ isr' = [isr EXCEPT !.at = CASE @ = "mark"  -> "stamp" [] @ = "stamp"  -> "count"
                                 [] @ = "count" -> "unmark" [] @ = "unmark" -> "idle"]
  /\ notified' = (notified \/ isr.at = "unmark")
  /\ UNCHANGED <<channel, music, writer, poll, straddled>>

-----------------------------------------------------------------------------
(* The poll.                                                               *)

PollWakes ==
  /\ poll.at = "sleep" /\ poll' = [poll EXCEPT !.at = "check"]
  /\ notified /\ notified' = FALSE
  /\ UNCHANGED <<clock, channel, isr, music, writer, straddled>>

PollChecks ==
  /\ poll.at = "check"
  /\ poll' = IF music.owned THEN [poll EXCEPT !.at = "before"] ELSE Asleep
  /\ UNCHANGED <<clock, channel, isr, music, writer, notified, straddled>>

(* tater_audio_render_clock_snapshot.  While the sequence is odd it goes   *)
(* round, whatever it has read in its last turn.                           *)
SnapBefore ==
  /\ poll.at = "before" /\ clock.sequence % 2 = 0
  /\ poll' = [poll EXCEPT !.at = "count", !.before = clock.sequence]
  /\ UNCHANGED <<clock, channel, isr, music, writer, notified, straddled>>

SnapCount ==
  /\ poll.at = "count"
  /\ poll' = [poll EXCEPT !.at = "stamp", !.completed = clock.completed]
  /\ UNCHANGED <<clock, channel, isr, music, writer, notified, straddled>>

SnapStamp ==
  /\ poll.at = "stamp"
  /\ poll' = [poll EXCEPT !.at = "after", !.stamp = clock.at]
  /\ UNCHANGED <<clock, channel, isr, music, writer, notified, straddled>>

(* Faulty form of SnapshotValid: an even sequence is taken for a quiet one. *)
SnapshotEven == clock.sequence % 2 = 0

SnapshotValid == clock.sequence = poll.before /\ clock.sequence % 2 = 0

SnapAfter ==
  /\ poll.at = "after"
  /\ poll' = IF SnapshotValid THEN [poll EXCEPT !.at = "account"]
                              ELSE [Asleep EXCEPT !.at = "before"]
  /\ UNCHANGED <<clock, channel, isr, music, writer, notified, straddled>>

(* The frames completed since the last poll, without the silence that was  *)
(* queued before the stream, and no more than Sendspin has written.        *)
Account ==
  LET delta == (poll.completed + Top + 1 - music.last) % (Top + 1)
      own   == IF delta > music.prefix THEN delta - music.prefix ELSE 0
      open  == IF music.written > music.reported THEN music.written - music.reported ELSE 0
      n     == Least(own, open)
  IN /\ poll.at = "account"
     /\ music' = [music EXCEPT !.last = poll.completed,
                               !.prefix = IF delta > @ THEN 0 ELSE @ - delta]
     /\ poll' = IF n = 0 THEN Asleep ELSE [Asleep EXCEPT !.at = "report", !.played = n]
     /\ UNCHANGED <<clock, channel, isr, writer, notified, straddled>>

(* notified_frames_ is added to, and notify_audio_played called. *)
Report ==
  /\ poll.at = "report" /\ poll' = Asleep
  /\ music' = [music EXCEPT !.reported = @ + poll.played]
  /\ UNCHANGED <<clock, channel, isr, writer, notified, straddled>>

PollTaskStep ==
  \/ PollWakes \/ PollChecks \/ SnapBefore \/ SnapCount \/ SnapStamp \/ SnapAfter
  \/ Account \/ Report

-----------------------------------------------------------------------------

RenderNext == StreamTask \/ BufferSent \/ OnSent \/ PollTaskStep

RenderSpec == RenderInit /\ [][RenderNext]_render

(* The count and the instant of a snapshot belong to one completion,       *)
(* whatever interrupts it on the other core.                               *)
ClockIsAtomic == poll.at = "account" => poll.stamp = poll.completed

(* Once the queue has run out and the poll has gone back to sleep, every   *)
(* frame that Sendspin wrote has been reported to it, unless a write       *)
(* failed or the stream began amid the poll of another.                    *)
AllReported ==
  music.owned /\ ~music.failed /\ ~straddled /\ writer.at = "ready"
    /\ channel.queued = 0 /\ isr.at = "idle" /\ ~notified /\ poll.at = "sleep"
  => music.reported = music.written

=============================================================================
