--------------------------- MODULE SendspinProofs ---------------------------
(***************************************************************************)
(* What main/sendspin_player.cpp does without a lock, for every size of    *)
(* its buffers and any interleaving.                                       *)
(*                                                                         *)
(* The snapshot of the render clock (RenderFeedback): a count and an       *)
(* instant that pass its test belong together.  The sequence is odd        *)
(* exactly while somebody writes the clock (Parity), and never goes back.  *)
(* So as long as it is what the poll saw first, nobody has written what    *)
(* the poll has read since (Snapshot).                                     *)
(*                                                                         *)
(* What the poll reports: Sent ties the clock to the queue of the channel, *)
(* Books the clock to what Sendspin wrote and was told (the silence queued *)
(* before the stream set aside), and News says that a completion the poll  *)
(* has not seen yet will wake it.  Together they close the accounts when   *)
(* everything is at rest.                                                  *)
(*                                                                         *)
(* The overlay's ring and the ducking of the music (OverlayMix).  DuckSeen *)
(* says that the music's task knows the wishes of the last revision it     *)
(* has seen; InRing that, as long as nobody reset the ring under a reader, *)
(* it holds the frames of this overlay from the one to mix next to the     *)
(* last one sent (Filled), that a read has a copy of where it began        *)
(* (Reader), that a piece on its way in has room (Writer) - or else that   *)
(* there is no overlay and nobody reads.                                   *)
(*                                                                         *)
(* For the types, Limits bounds the clock by what the stream has counted   *)
(* as written, and Published the revision by what was begun and wished,    *)
(* less what is still owed.                                                *)
(***************************************************************************)
EXTENDS RenderFeedback, OverlayMix, Integers, TLAPS

-----------------------------------------------------------------------------
(* The render clock.                                                       *)

(* The fields the argument looks at, and no more of the types. *)
ClockTypes ==
  /\ {"submitted", "completed", "at", "sequence"} \subseteq DOMAIN clock
  /\ clock.completed \in Int /\ clock.at \in Int /\ clock.sequence \in Nat
  /\ "on" \in DOMAIN channel /\ "at" \in DOMAIN writer
  /\ {"at", "frames"} \subseteq DOMAIN isr /\ isr.frames \in Int
  /\ isr.at \in {"idle", "mark", "stamp", "count", "unmark"}
  /\ {"at", "before", "completed", "stamp", "played"} \subseteq DOMAIN poll
  /\ poll.before \in Nat

Resetting == writer.at \in {"reset", "zeroed"}

Writing == Resetting \/ isr.at \in {"stamp", "count", "unmark"}

Even(n) == n % 2 = 0

Parity ==
  /\ Resetting => isr.at = "idle" /\ ~channel.on
  /\ Even(clock.sequence) <=> ~Writing

(* Between the two stores of an interrupt they differ by what it completes. *)
Whole == clock.at = clock.completed + (IF isr.at = "count" THEN isr.frames ELSE 0)

Snapshot ==
  /\ poll.at \in {"count", "stamp", "after"} =>
       Even(poll.before) /\ poll.before <= clock.sequence
  /\ poll.at \in {"stamp", "after"} /\ poll.before = clock.sequence =>
       poll.completed = clock.completed
  /\ poll.at = "after" /\ poll.before = clock.sequence => poll.stamp = clock.at

ClockInv == ClockTypes /\ Parity /\ Whole /\ Snapshot /\ ClockIsAtomic

-----------------------------------------------------------------------------

LEMMA EvenNext ==
  /\ Even(0)
  /\ \A n \in Nat : Even(n + 1) <=> ~Even(n)
  BY DEF Even

LEMMA ClockInit == RenderInit => ClockInv
  BY RenderAssumption, EvenNext
  DEF RenderInit, ClockInv, ClockTypes, Parity, Whole, Snapshot, ClockIsAtomic, Resetting,
      Writing, Asleep

(* The types, one action at a time. *)
LEMMA TypesKept ==
  ASSUME ClockTypes, RenderNext
  PROVE  ClockTypes'
<1> USE DEF ClockTypes
<1>1. CASE StreamOpens
  BY <1>1 DEF StreamOpens
<1>2. CASE ResetCounts
  BY <1>2 DEF ResetCounts
<1>3. CASE ResetEnds
  BY <1>3 DEF ResetEnds
<1>4. CASE Prime
  BY <1>4 DEF Prime
<1>5. CASE StreamReady
  BY <1>5 DEF StreamReady
<1>6. CASE StreamOver
  BY <1>6 DEF StreamOver
<1>7. CASE WriteBlock
  BY <1>7 DEF WriteBlock
<1>8. CASE WritePart
  BY <1>8 DEF WritePart
<1>9. CASE FrameAccepted
  BY <1>9 DEF FrameAccepted
<1>10. CASE WriteTimesOut
  BY <1>10 DEF WriteTimesOut
<1>11. CASE BlockWritten
  BY <1>11 DEF BlockWritten
<1>12. CASE BufferSent
  BY <1>12 DEF BufferSent
<1>13. CASE OnSent
  <2>1. channel' = channel /\ writer' = writer /\ poll' = poll
    BY <1>13 DEF OnSent
  <2>2. CASE isr.at = "mark"
    BY <1>13, <2>1, <2>2 DEF OnSent
  <2>3. CASE isr.at = "stamp"
    BY <1>13, <2>1, <2>3 DEF OnSent
  <2>4. CASE isr.at = "count"
    BY <1>13, <2>1, <2>4 DEF OnSent
  <2>5. CASE isr.at = "unmark"
    BY <1>13, <2>1, <2>5 DEF OnSent
  <2> QED
    BY <1>13, <2>2, <2>3, <2>4, <2>5 DEF OnSent
<1>14. CASE PollWakes
  BY <1>14 DEF PollWakes
<1>15. CASE PollChecks
  BY <1>15 DEF PollChecks, Asleep
<1>16. CASE SnapBefore
  BY <1>16 DEF SnapBefore
<1>17. CASE SnapCount \/ SnapStamp
  BY <1>17 DEF SnapCount, SnapStamp
<1>18. CASE SnapAfter
  BY <1>18 DEF SnapAfter, Asleep
<1>19. CASE Account
  BY <1>19 DEF Account, Asleep
<1>20. CASE Report
  BY <1>20 DEF Report, Asleep
<1> QED
  BY <1>1, <1>2, <1>3, <1>4, <1>5, <1>6, <1>7, <1>8, <1>9, <1>10, <1>11, <1>12, <1>13, <1>14,
     <1>15, <1>16, <1>17, <1>18, <1>19, <1>20
  DEF RenderNext, StreamTask, PollTaskStep

(* What the proof needs of a step that is none of the clock's. *)
LEMMA ClockUntouched ==
  ASSUME ClockInv, ClockTypes',
         clock'.sequence = clock.sequence, clock'.completed = clock.completed,
         clock'.at = clock.at, isr' = isr, poll' = poll, Resetting' = Resetting,
         Resetting => channel'.on = channel.on
  PROVE  ClockInv'
  BY DEF ClockInv, Parity, Whole, Snapshot, ClockIsAtomic, Writing

(* The stream writes the clock only while the channel is off.              *)
LEMMA StreamKeepsClock ==
  ASSUME ClockInv, ClockTypes', StreamTask
  PROVE  ClockInv'
<1> USE DEF ClockTypes
<1>0. ClockTypes
  BY DEF ClockInv
<1>1. CASE StreamOpens
  <2>1. Resetting' /\ isr.at = "idle" /\ isr' = isr /\ ~channel'.on
        /\ clock'.sequence = clock.sequence + 1
        /\ clock'.completed = clock.completed /\ clock'.at = clock.at /\ poll' = poll
    BY <1>0, <1>1 DEF StreamOpens, Resetting
  <2>2. ~Resetting
    BY <1>1 DEF StreamOpens, Resetting
  <2>3. Parity' /\ Whole'
    BY <1>0, <2>1, <2>2, EvenNext DEF ClockInv, Parity, Whole, Writing
  <2>4. Snapshot' /\ ClockIsAtomic'
    BY <1>0, <2>1 DEF ClockInv, Snapshot, ClockIsAtomic
  <2> QED
    BY <2>3, <2>4 DEF ClockInv
<1>2. CASE ResetCounts
  <2>1. Resetting /\ Resetting' /\ isr' = isr /\ channel' = channel /\ poll' = poll
        /\ clock'.sequence = clock.sequence /\ clock'.completed = 0 /\ clock'.at = 0
    BY <1>0, <1>2 DEF ResetCounts, Resetting
  <2>2. Parity' /\ Whole'
    BY <1>0, <2>1 DEF ClockInv, Parity, Whole, Writing
  <2>3. Snapshot' /\ ClockIsAtomic'
    BY <1>0, <2>1 DEF ClockInv, Snapshot, ClockIsAtomic, Parity, Writing
  <2> QED
    BY <2>2, <2>3 DEF ClockInv
<1>3. CASE ResetEnds
  <2>1. Resetting /\ ~Resetting' /\ isr' = isr /\ channel' = channel /\ poll' = poll
        /\ clock'.sequence = clock.sequence + 1
        /\ clock'.completed = clock.completed /\ clock'.at = clock.at
    BY <1>0, <1>3 DEF ResetEnds, Resetting
  <2>2. Parity' /\ Whole'
    BY <1>0, <2>1, EvenNext DEF ClockInv, Parity, Whole, Writing
  <2>3. Snapshot' /\ ClockIsAtomic'
    BY <1>0, <2>1 DEF ClockInv, Snapshot, ClockIsAtomic
  <2> QED
    BY <2>2, <2>3 DEF ClockInv
<1>4. CASE Prime
  BY <1>0, <1>4, ClockUntouched DEF Prime, Resetting
<1>5. CASE StreamReady
  BY <1>0, <1>5, ClockUntouched DEF StreamReady, Resetting
<1>6. CASE StreamOver
  BY <1>0, <1>6, ClockUntouched DEF StreamOver, Resetting
<1>7. CASE WriteBlock
  BY <1>0, <1>7, ClockUntouched DEF WriteBlock, Resetting
<1>8. CASE WritePart
  BY <1>0, <1>8, ClockUntouched DEF WritePart, Resetting
<1>9. CASE FrameAccepted
  BY <1>0, <1>9, ClockUntouched DEF FrameAccepted, Resetting
<1>10. CASE WriteTimesOut
  BY <1>0, <1>10, ClockUntouched DEF WriteTimesOut, Resetting
<1>11. CASE BlockWritten
  BY <1>0, <1>11, ClockUntouched DEF BlockWritten, Resetting
<1> QED
  BY <1>1, <1>2, <1>3, <1>4, <1>5, <1>6, <1>7, <1>8, <1>9, <1>10, <1>11 DEF StreamTask

(* The handler marks its two stores by the sequence. *)
LEMMA InterruptKeepsClock ==
  ASSUME ClockInv, ClockTypes', BufferSent \/ OnSent
  PROVE  ClockInv'
<1> USE DEF ClockTypes
<1>0. ClockTypes
  BY DEF ClockInv
<1>1. CASE BufferSent
  <2>1. clock' = clock /\ poll' = poll /\ writer' = writer /\ channel.on /\ isr.at = "idle"
        /\ isr'.at \in {"idle", "mark"}
    BY <1>0, <1>1 DEF BufferSent
  <2> QED
    BY <1>0, <2>1 DEF ClockInv, Parity, Whole, Snapshot, ClockIsAtomic, Writing, Resetting
<1>2. CASE OnSent
  <2>0. poll' = poll /\ writer' = writer /\ channel' = channel /\ isr.at # "idle" /\ ~Resetting
    BY <1>2 DEF OnSent, ClockInv, Parity
  <2>1. CASE isr.at = "mark"
    <3>1. clock'.sequence = clock.sequence + 1 /\ clock'.completed = clock.completed
          /\ clock'.at = clock.at /\ isr'.at = "stamp"
      BY <1>0, <1>2, <2>1 DEF OnSent
    <3> QED
      BY <1>0, <2>0, <2>1, <3>1, EvenNext
      DEF ClockInv, Parity, Whole, Snapshot, ClockIsAtomic, Writing, Resetting
  <2>2. CASE isr.at = "stamp"
    <3>1. clock'.sequence = clock.sequence /\ clock'.completed = clock.completed
          /\ clock'.at = clock.completed + isr.frames /\ isr'.at = "count"
          /\ isr'.frames = isr.frames
      BY <1>0, <1>2, <2>2 DEF OnSent
    <3> QED
      BY <1>0, <2>0, <2>2, <3>1
      DEF ClockInv, Parity, Whole, Snapshot, ClockIsAtomic, Writing, Resetting
  <2>3. CASE isr.at = "count"
    <3>1. clock'.sequence = clock.sequence /\ clock'.completed = clock.completed + isr.frames
          /\ clock'.at = clock.at /\ isr'.at = "unmark"
      BY <1>0, <1>2, <2>3 DEF OnSent
    <3> QED
      BY <1>0, <2>0, <2>3, <3>1
      DEF ClockInv, Parity, Whole, Snapshot, ClockIsAtomic, Writing, Resetting
  <2>4. CASE isr.at = "unmark"
    <3>1. clock'.sequence = clock.sequence + 1 /\ clock'.completed = clock.completed
          /\ clock'.at = clock.at /\ isr'.at = "idle"
      BY <1>0, <1>2, <2>4 DEF OnSent
    <3> QED
      BY <1>0, <2>0, <2>4, <3>1, EvenNext
      DEF ClockInv, Parity, Whole, Snapshot, ClockIsAtomic, Writing, Resetting
  <2> QED
    BY <1>0, <2>0, <2>1, <2>2, <2>3, <2>4
<1> QED
  BY <1>1, <1>2

(* The poll writes nothing of the clock. *)
LEMMA PollKeepsClock ==
  ASSUME ClockInv, ClockTypes', PollTaskStep
  PROVE  ClockInv'
<1> USE DEF ClockTypes
<1>0. ClockTypes /\ clock' = clock /\ isr' = isr /\ writer' = writer /\ channel' = channel
  BY DEF ClockInv, PollTaskStep, PollWakes, PollChecks, SnapBefore, SnapCount, SnapStamp,
         SnapAfter, Account, Report
<1>1. Parity' /\ Whole'
  BY <1>0 DEF ClockInv, Parity, Whole, Writing, Resetting
<1>2. Snapshot' /\ ClockIsAtomic'
  <2> USE DEF ClockInv, Snapshot, ClockIsAtomic
  <2>1. CASE PollWakes \/ PollChecks \/ Account \/ Report
    <3>1. poll'.at \in {"sleep", "check", "before", "report"}
      <4>1. CASE PollWakes
        BY <1>0, <4>1 DEF PollWakes
      <4>2. CASE PollChecks
        BY <1>0, <4>2 DEF PollChecks, Asleep
      <4>3. CASE Account
        BY <4>3 DEF Account, Asleep
      <4>4. CASE Report
        BY <4>4 DEF Report, Asleep
      <4> QED
        BY <2>1, <4>1, <4>2, <4>3, <4>4
    <3> QED
      BY <3>1
  <2>2. CASE SnapBefore
    BY <1>0, <2>2 DEF SnapBefore, Even
  <2>3. CASE SnapCount
    BY <1>0, <2>3 DEF SnapCount
  <2>4. CASE SnapStamp
    BY <1>0, <2>4 DEF SnapStamp
  <2>5. CASE SnapAfter
    <3>1. CASE SnapshotValid
      <4>1. poll.completed = clock.completed /\ poll.stamp = clock.at
        BY <1>0, <2>5, <3>1 DEF SnapAfter, SnapshotValid
      <4>2. clock.at = clock.completed
        BY <1>0, <3>1 DEF SnapshotValid, Parity, Whole, Writing, Even
      <4>3. poll'.at = "account" /\ poll'.stamp = poll.stamp /\ poll'.completed = poll.completed
        BY <1>0, <2>5, <3>1 DEF SnapAfter
      <4> QED
        BY <4>1, <4>2, <4>3
    <3>2. CASE ~SnapshotValid
      <4>1. poll'.at = "before"
        BY <2>5, <3>2 DEF SnapAfter, Asleep
      <4> QED
        BY <4>1
    <3> QED
      BY <3>1, <3>2
  <2> QED
    BY <2>1, <2>2, <2>3, <2>4, <2>5 DEF PollTaskStep
<1> QED
  BY <1>1, <1>2 DEF ClockInv

LEMMA ClockInvAlways == RenderSpec => []ClockInv
<1>1. ClockInv /\ [RenderNext]_render => ClockInv'
  <2> SUFFICES ASSUME ClockInv, [RenderNext]_render PROVE ClockInv'
    OBVIOUS
  <2>1. CASE RenderNext
    <3>1. ClockTypes'
      BY <2>1, TypesKept DEF ClockInv
    <3> QED
      BY <2>1, <3>1, StreamKeepsClock, InterruptKeepsClock, PollKeepsClock DEF RenderNext
  <2>2. CASE UNCHANGED render
    BY <2>2
    DEF render, ClockInv, ClockTypes, Parity, Whole, Snapshot, ClockIsAtomic, Resetting, Writing
  <2> QED
    BY <2>1, <2>2
<1> QED
  BY ClockInit, <1>1, PTL DEF RenderSpec

(* audio_render_clock.h: whatever interrupts a snapshot, the frames and    *)
(* the instant it returns are those of one completion.                     *)
THEOREM SnapshotIsAtomic == RenderSpec => []ClockIsAtomic
<1>1. ClockInv => ClockIsAtomic
  BY DEF ClockInv
<1> QED
  BY <1>1, ClockInvAlways, PTL

-----------------------------------------------------------------------------
(* The accounts of the frames.                                             *)

(* The fields that the accounts of the frames look at. *)
PlayTypes ==
  /\ {"submitted", "completed", "sequence"} \subseteq DOMAIN clock
  /\ clock.submitted \in Int /\ clock.completed \in Nat
  /\ {"on", "queued"} \subseteq DOMAIN channel /\ channel.queued \in Nat
  /\ {"at", "frames"} \subseteq DOMAIN isr /\ isr.frames \in Nat
  /\ {"owned", "written", "reported", "prefix", "last", "failed"} \subseteq DOMAIN music
  /\ music.owned \in BOOLEAN
  /\ music.written \in Int /\ music.written <= MaxFrames /\ music.reported \in Int
  /\ music.prefix \in Int /\ music.last \in Nat
  /\ {"at", "block", "part", "left", "streams"} \subseteq DOMAIN writer
  /\ writer.block \in Nat /\ writer.part \in Nat /\ writer.left \in Nat
  /\ {"at", "before", "completed", "stamp", "played"} \subseteq DOMAIN poll
  /\ poll.completed \in Nat /\ poll.played \in Int

(* The stream is being opened, or is open. *)
Fresh == writer.at \in {"zeroed", "prime", "begun"}
Running == writer.at \in {"ready", "block", "write"}

(* The frame that the interrupt is about to count. *)
Pending == IF isr.at \in {"mark", "stamp", "count"} THEN isr.frames ELSE 0

Places ==
  /\ music.owned <=> Running
  /\ writer.at # "write" => writer.part = 0
  /\ writer.at \notin {"block", "write"} => writer.left = 0
  /\ writer.part <= writer.left
  /\ poll.at # "report" => poll.played = 0
  /\ writer.at \in {"zeroed", "prime"} => clock.submitted = 0 /\ clock.completed = 0
  /\ writer.at = "begun" => clock.submitted <= DmaFrames

(* No frame that was sent is missing from the clock, and, as long as no    *)
(* write failed, none is counted that was not submitted.                   *)
Sent ==
  /\ Fresh \/ Running =>
       clock.submitted - (clock.completed + Pending) <= channel.queued + writer.part
  /\ Fresh \/ (Running /\ ~music.failed) => clock.completed + Pending <= clock.submitted

(* The accounts of Sendspin are the ones that are meant to close. *)
Told == music.owned /\ ~music.failed /\ ~straddled

(* The frames that were queued before the stream. *)
Silence == music.last + music.prefix - music.reported - poll.played

(* Every frame submitted is of the silence or of the stream, and what the  *)
(* poll has taken from the clock is of the silence, reported, or about to  *)
(* be.                                                                     *)
Books ==
  Told =>
    /\ 0 <= Silence /\ Silence <= DmaFrames
    /\ music.written + Silence = clock.submitted + writer.left - writer.part
    /\ 0 <= music.written /\ 0 <= music.prefix
    /\ music.prefix > 0 => music.reported + poll.played = 0
    /\ music.last <= clock.completed
    /\ poll.at \in {"stamp", "after", "account"} =>
         music.last <= poll.completed /\ poll.completed <= clock.completed

(* A completion that the poll does not know of will wake it, or will be    *)
(* read by it.                                                             *)
News ==
  Told =>
    \/ notified \/ isr.at = "unmark" \/ poll.at \in {"check", "before", "count"}
    \/ poll.at \in {"stamp", "after", "account"} /\ poll.completed = clock.completed
    \/ poll.at \in {"sleep", "report"} /\ music.last = clock.completed

PlayInv == PlayTypes /\ Places /\ Sent /\ Books /\ News

LEMMA PlaySizes ==
  /\ DmaFrames \in Nat \ {0} /\ MaxFrames \in Nat \ {0} /\ BlockFrames \in Nat \ {0}
  BY RenderAssumption

LEMMA NoWrap ==
  ASSUME NEW t \in Nat, NEW x \in 0..t
  PROVE  (x + (t + 1)) % (t + 1) = x
  BY Z3

LEMMA PlayStarts == RenderInit => PlayInv
<1> SUFFICES ASSUME RenderInit PROVE PlayInv
  OBVIOUS
<1>1. PlayTypes
  BY PlaySizes DEF RenderInit, PlayTypes, Asleep
<1>2. Places /\ ~Told /\ ~Fresh /\ ~Running
  BY DEF RenderInit, Places, Told, Fresh, Running, Asleep
<1> QED
  BY <1>1, <1>2 DEF PlayInv, Sent, Books, News

(* What the stream does to the accounts. *)
LEMMA StreamKeepsBooks ==
  ASSUME ClockInv, PlayInv, StreamTask
  PROVE  PlayInv'
<1>0. PlayTypes /\ Places /\ Sent /\ Books /\ News
  BY DEF PlayInv
<1>1. CASE StreamOpens
  <2>1. /\ writer.at = "ended" /\ writer' = [writer EXCEPT !.at = "reset", !.streams = @ + 1]
        /\ channel' = [on |-> FALSE, queued |-> 0] /\ clock' = [clock EXCEPT !.sequence = @ + 1]
        /\ UNCHANGED <<isr, music, notified, poll, straddled>>
    BY <1>1 DEF StreamOpens
  <2>2. PlayTypes'
    BY <1>0, <2>1 DEF PlayTypes
  <2>3. writer'.at = "reset" /\ writer'.part = writer.part /\ writer'.left = writer.left
    BY <1>0, <2>1 DEF PlayTypes
  <2>4. ~music.owned
    BY <1>0, <2>1 DEF Places, Running
  <2> QED
    BY <1>0, <2>1, <2>2, <2>3, <2>4
    DEF PlayInv, Places, Sent, Books, News, Told, Fresh, Running
<1>2. CASE ResetCounts
  <2>1. /\ writer.at = "reset" /\ writer' = [writer EXCEPT !.at = "zeroed"]
        /\ clock' = [clock EXCEPT !.submitted = 0, !.completed = 0, !.at = 0]
        /\ UNCHANGED <<channel, isr, music, notified, poll, straddled>>
    BY <1>2 DEF ResetCounts
  <2>2. PlayTypes'
    BY <1>0, <2>1 DEF PlayTypes
  <2>3. /\ writer'.at = "zeroed" /\ writer'.part = writer.part /\ writer'.left = writer.left
        /\ clock'.submitted = 0 /\ clock'.completed = 0
    BY <1>0, <2>1 DEF PlayTypes
  <2>4. ~music.owned /\ isr.at = "idle"
    BY <1>0, <2>1 DEF Places, Running, ClockInv, Parity, Resetting
  <2>5. Places' /\ Sent'
    BY <1>0, <2>1, <2>3, <2>4 DEF PlayTypes, Places, Sent, Pending, Fresh, Running
  <2> QED
    BY <2>1, <2>2, <2>4, <2>5 DEF PlayInv, Books, News, Told
<1>3. CASE ResetEnds
  <2>1. /\ writer.at = "zeroed" /\ writer' = [writer EXCEPT !.at = "prime"]
        /\ clock' = [clock EXCEPT !.sequence = @ + 1]
        /\ UNCHANGED <<channel, isr, music, notified, poll, straddled>>
    BY <1>3 DEF ResetEnds
  <2>2. PlayTypes'
    BY <1>0, <2>1 DEF PlayTypes
  <2>3. /\ writer'.at = "prime" /\ writer'.part = writer.part /\ writer'.left = writer.left
        /\ clock'.submitted = clock.submitted /\ clock'.completed = clock.completed
    BY <1>0, <2>1 DEF PlayTypes
  <2>4. ~music.owned
    BY <1>0, <2>1 DEF Places, Running
  <2>5. Places' /\ Sent'
    BY <1>0, <2>1, <2>3, <2>4 DEF PlayTypes, Places, Sent, Pending, Fresh, Running
  <2> QED
    BY <2>1, <2>2, <2>4, <2>5 DEF PlayInv, Books, News, Told
<1>4. CASE Prime
  <2>1. PICK k \in {0, DmaFrames} :
          /\ channel' = [on |-> TRUE, queued |-> k]
          /\ clock' = [clock EXCEPT !.submitted = @ + k]
    BY <1>4 DEF Prime
  <2>2. /\ writer.at = "prime" /\ writer' = [writer EXCEPT !.at = "begun"]
        /\ UNCHANGED <<isr, music, notified, poll, straddled>> /\ k \in Nat /\ k <= DmaFrames
    BY <1>4, PlaySizes DEF Prime
  <2>3. PlayTypes'
    BY <1>0, <2>1, <2>2 DEF PlayTypes
  <2>4. /\ writer'.at = "begun" /\ writer'.part = writer.part /\ writer'.left = writer.left
        /\ clock'.submitted = clock.submitted + k /\ clock'.completed = clock.completed
        /\ channel'.queued = k
    BY <1>0, <2>1, <2>2 DEF PlayTypes
  <2>5. ~music.owned /\ clock.submitted = 0 /\ clock.completed = 0
    BY <1>0, <2>2 DEF Places, Running
  <2>6. Places'
    BY <1>0, <2>2, <2>4, <2>5 DEF PlayTypes, Places, Fresh, Running
  <2>7. Sent'
    <3>1. Pending' = Pending /\ Pending \in Nat
      BY <1>0, <2>2 DEF Pending, PlayTypes
    <3>2. Pending <= 0
      BY <1>0, <2>2, <2>5, <3>1 DEF Sent, Fresh
    <3>3. writer.part = 0
      BY <1>0, <2>2 DEF Places
    <3> QED
      BY <2>2, <2>4, <2>5, <3>1, <3>2, <3>3 DEF Sent
  <2> QED
    BY <2>2, <2>3, <2>5, <2>6, <2>7 DEF PlayInv, Books, News, Told
<1>5. CASE StreamReady
  <2>1. /\ writer.at = "begun" /\ writer' = [writer EXCEPT !.at = "ready"]
        /\ music' = [owned |-> TRUE, written |-> 0, reported |-> 0, last |-> clock.completed,
                     prefix |-> clock.submitted - clock.completed, failed |-> FALSE]
        /\ (straddled' <=> straddled \/ poll.at \notin {"sleep", "check"})
        /\ UNCHANGED <<clock, channel, isr, notified, poll>>
    BY <1>5 DEF StreamReady
  <2>2. PlayTypes'
    BY <1>0, <2>1, PlaySizes DEF PlayTypes
  <2>3. /\ writer'.at = "ready" /\ writer'.part = writer.part /\ writer'.left = writer.left
        /\ music'.owned = TRUE /\ music'.written = 0 /\ music'.reported = 0
        /\ music'.last = clock.completed /\ music'.prefix = clock.submitted - clock.completed
        /\ music'.failed = FALSE
    BY <1>0, <2>1 DEF PlayTypes
  <2>4. /\ writer.part = 0 /\ writer.left = 0 /\ clock.submitted <= DmaFrames
        /\ clock.completed + Pending <= clock.submitted
        /\ clock.submitted - (clock.completed + Pending) <= channel.queued + writer.part
    BY <1>0, <2>1 DEF Places, Sent, Fresh
  <2>n. /\ clock.submitted \in Int /\ clock.completed \in Nat /\ Pending \in Nat
        /\ poll.played \in Int /\ DmaFrames \in Nat
    BY <1>0, PlaySizes DEF PlayTypes, Pending
  <2>5. Places'
    BY <1>0, <2>1, <2>3, <2>4 DEF Places, Fresh, Running
  <2>6. Sent'
    BY <2>1, <2>3, <2>4 DEF Sent, Fresh, Running, Pending
  <2>7. Told' => poll'.at \in {"sleep", "check"} /\ poll'.played = 0
    BY <1>0, <2>1 DEF Told, Places
  <2>8. Books'
    <3> SUFFICES ASSUME Told' PROVE Books'
      BY DEF Books
    <3>1. 0 <= music'.prefix /\ clock'.submitted = clock.submitted
          /\ clock'.completed = clock.completed
      <4>1. clock.completed <= clock.submitted
        <5> HIDE DEF Pending
        <5> QED
          BY <2>4, <2>n
      <4> QED
        BY <2>1, <2>3, <2>n, <4>1
    <3>2. Silence' = clock.submitted
      BY <2>3, <2>7, <2>n DEF Silence
    <3> QED
      BY <2>1, <2>3, <2>4, <2>7, <2>n, <3>1, <3>2 DEF Books
  <2>9. News'
    BY <2>1, <2>3, <2>7 DEF News
  <2> QED
    BY <2>2, <2>5, <2>6, <2>8, <2>9 DEF PlayInv
<1>6. CASE StreamOver
  <2>1. /\ writer.at = "ready" /\ writer' = [writer EXCEPT !.at = "ended"]
        /\ music' = [music EXCEPT !.owned = FALSE, !.written = 0, !.reported = 0]
        /\ channel' = [on |-> FALSE, queued |-> 0]
        /\ UNCHANGED <<clock, isr, notified, poll, straddled>>
    BY <1>6 DEF StreamOver
  <2>2. PlayTypes'
    BY <1>0, <2>1, PlaySizes DEF PlayTypes
  <2>3. /\ writer'.at = "ended" /\ writer'.part = writer.part /\ writer'.left = writer.left
        /\ music'.owned = FALSE
    BY <1>0, <2>1 DEF PlayTypes
  <2>4. Places'
    BY <1>0, <2>1, <2>3 DEF Places, Fresh, Running
  <2> QED
    BY <2>2, <2>3, <2>4 DEF PlayInv, Sent, Books, News, Told, Fresh, Running
<1>7. CASE WriteBlock
  <2>1. PICK k \in 1..Least(BlockFrames, MaxFrames - music.written) :
          /\ music' = [music EXCEPT !.written = @ + k]
          /\ writer' = [writer EXCEPT !.at = "block", !.block = k, !.left = k]
    BY <1>7 DEF WriteBlock, Reserved
  <2>2. writer.at = "ready" /\ UNCHANGED <<clock, channel, isr, notified, poll, straddled>>
    BY <1>7 DEF WriteBlock
  <2>3. k \in Nat /\ music.written + k <= MaxFrames
    BY <1>0, <2>1, PlaySizes DEF Least, PlayTypes
  <2>4. PlayTypes'
    BY <1>0, <2>1, <2>2, <2>3 DEF PlayTypes
  <2>5. /\ writer'.at = "block" /\ writer'.part = writer.part /\ writer'.left = k
        /\ music'.owned = music.owned /\ music'.failed = music.failed
        /\ music'.written = music.written + k /\ music'.reported = music.reported
        /\ music'.prefix = music.prefix /\ music'.last = music.last
    BY <1>0, <2>1 DEF PlayTypes
  <2>6. writer.part = 0 /\ writer.left = 0
    BY <1>0, <2>2 DEF Places
  <2>7. Places'
    BY <1>0, <2>2, <2>3, <2>5, <2>6 DEF Places, Fresh, Running
  <2>8. Sent'
    BY <1>0, <2>2, <2>5 DEF Sent, Fresh, Running, Pending
  <2>9. Books'
    BY <1>0, <2>2, <2>3, <2>5, <2>6 DEF Books, Silence, Told, PlayTypes
  <2>10. News'
    BY <1>0, <2>2, <2>5 DEF News, Told
  <2> QED
    BY <2>4, <2>7, <2>8, <2>9, <2>10 DEF PlayInv
<1>8. CASE WritePart
  <2>1. PICK k \in 1..writer.left :
          /\ clock' = [clock EXCEPT !.submitted = @ + k]
          /\ writer' = [writer EXCEPT !.at = "write", !.part = k]
    BY <1>8 DEF WritePart
  <2>2. writer.at = "block" /\ UNCHANGED <<channel, isr, music, notified, poll, straddled>>
    BY <1>8 DEF WritePart
  <2>3. k \in Nat /\ k <= writer.left
    BY <1>0, <2>1 DEF PlayTypes
  <2>4. PlayTypes'
    BY <1>0, <2>1, <2>2, <2>3 DEF PlayTypes
  <2>5. /\ writer'.at = "write" /\ writer'.part = k /\ writer'.left = writer.left
        /\ clock'.submitted = clock.submitted + k /\ clock'.completed = clock.completed
    BY <1>0, <2>1 DEF PlayTypes
  <2>6. writer.part = 0
    BY <1>0, <2>2 DEF Places
  <2>n. /\ clock.submitted \in Int /\ clock.completed \in Nat /\ Pending \in Nat
        /\ channel.queued \in Nat
    BY <1>0 DEF PlayTypes, Pending
  <2>7. Places'
    BY <1>0, <2>2, <2>3, <2>5, <2>6 DEF Places, Fresh, Running
  <2>8. Sent'
    <3>1. Pending' = Pending
      BY <2>2 DEF Pending
    <3>2. /\ clock.submitted - (clock.completed + Pending) <= channel.queued + writer.part
          /\ ~music.failed => clock.completed + Pending <= clock.submitted
      BY <1>0, <2>2 DEF Sent, Running
    <3> HIDE DEF Pending
    <3> QED
      BY <2>2, <2>3, <2>5, <2>6, <2>n, <3>1, <3>2 DEF Sent, Fresh, Running
  <2>9. Books'
    BY <1>0, <2>2, <2>3, <2>5, <2>6 DEF Books, Silence, Told, PlayTypes
  <2>10. News'
    BY <1>0, <2>2, <2>5 DEF News, Told
  <2> QED
    BY <2>4, <2>7, <2>8, <2>9, <2>10 DEF PlayInv
<1>9. CASE FrameAccepted
  <2>1. /\ writer.at = "write" /\ writer.part > 0
        /\ channel' = [channel EXCEPT !.queued = @ + 1]
        /\ writer' = [writer EXCEPT !.part = @ - 1, !.left = @ - 1,
                                    !.at = IF writer.part = 1 THEN "block" ELSE @]
        /\ UNCHANGED <<clock, isr, music, notified, poll, straddled>>
    BY <1>9 DEF FrameAccepted
  <2>2. writer.part \in Nat /\ writer.left \in Nat /\ writer.part <= writer.left
    BY <1>0 DEF PlayTypes, Places
  <2>3. writer.part - 1 \in Nat /\ writer.left - 1 \in Nat /\ channel.queued + 1 \in Nat
    BY <1>0, <2>1, <2>2 DEF PlayTypes
  <2>4. PlayTypes'
    BY <1>0, <2>1, <2>3 DEF PlayTypes
  <2>5. /\ writer'.at = (IF writer.part = 1 THEN "block" ELSE "write")
        /\ writer'.part = writer.part - 1 /\ writer'.left = writer.left - 1
        /\ channel'.queued = channel.queued + 1
    BY <1>0, <2>1 DEF PlayTypes
  <2>n. /\ clock.submitted \in Int /\ clock.completed \in Nat /\ Pending \in Nat
        /\ channel.queued \in Nat
    BY <1>0 DEF PlayTypes, Pending
  <2>7. Places'
    BY <1>0, <2>1, <2>2, <2>5 DEF Places, Fresh, Running
  <2>8. Sent'
    <3>1. Pending' = Pending
      BY <2>1 DEF Pending
    <3>2. /\ clock.submitted - (clock.completed + Pending) <= channel.queued + writer.part
          /\ ~music.failed => clock.completed + Pending <= clock.submitted
      BY <1>0, <2>1 DEF Sent, Running
    <3> HIDE DEF Pending
    <3> QED
      BY <2>1, <2>2, <2>5, <2>n, <3>1, <3>2 DEF Sent, Fresh, Running
  <2>9. Books'
    BY <1>0, <2>1, <2>2, <2>5 DEF Books, Silence, Told, PlayTypes
  <2>10. News'
    BY <1>0, <2>1, <2>5 DEF News, Told
  <2> QED
    BY <2>4, <2>7, <2>8, <2>9, <2>10 DEF PlayInv
<1>10. CASE WriteTimesOut
  <2>1. /\ writer.at = "write"
        /\ clock' = [clock EXCEPT !.submitted = @ - writer.part]
        /\ music' = [music EXCEPT !.written = @ - writer.block, !.failed = TRUE]
        /\ writer' = [writer EXCEPT !.at = "ready", !.block = 0, !.part = 0, !.left = 0]
        /\ UNCHANGED <<channel, isr, notified, poll, straddled>>
    BY <1>10 DEF WriteTimesOut, Reserved
  <2>2. music.written - writer.block \in Int /\ music.written - writer.block <= MaxFrames
        /\ clock.submitted - writer.part \in Int
    BY <1>0, PlaySizes DEF PlayTypes
  <2>3. PlayTypes'
    BY <1>0, <2>1, <2>2 DEF PlayTypes
  <2>4. /\ writer'.at = "ready" /\ writer'.part = 0 /\ writer'.left = 0
        /\ clock'.submitted = clock.submitted - writer.part
        /\ clock'.completed = clock.completed
        /\ music'.owned = music.owned /\ music'.failed = TRUE
    BY <1>0, <2>1 DEF PlayTypes
  <2>n. /\ clock.submitted \in Int /\ clock.completed \in Nat /\ Pending \in Nat
        /\ channel.queued \in Nat /\ writer.part \in Nat
    BY <1>0 DEF PlayTypes, Pending
  <2>5. Places'
    BY <1>0, <2>1, <2>4 DEF Places, Fresh, Running
  <2>6. Sent'
    <3>1. Pending' = Pending
      BY <2>1 DEF Pending
    <3>2. clock.submitted - (clock.completed + Pending) <= channel.queued + writer.part
      BY <1>0, <2>1 DEF Sent, Running
    <3> HIDE DEF Pending
    <3> QED
      BY <2>1, <2>4, <2>n, <3>1, <3>2 DEF Sent, Fresh, Running
  <2> QED
    BY <2>3, <2>4, <2>5, <2>6 DEF PlayInv, Books, News, Told
<1>11. CASE BlockWritten
  <2>1. /\ writer.at = "block" /\ writer.left = 0
        /\ music' = [music EXCEPT !.written = @ + writer.block - writer.block]
        /\ writer' = [writer EXCEPT !.at = "ready", !.block = 0]
        /\ UNCHANGED <<clock, channel, isr, notified, poll, straddled>>
    BY <1>11 DEF BlockWritten, Reserved
  <2>2. music.written + writer.block - writer.block = music.written
    BY <1>0 DEF PlayTypes
  <2>3. PlayTypes'
    BY <1>0, <2>1, <2>2 DEF PlayTypes
  <2>4. /\ writer'.at = "ready" /\ writer'.part = writer.part /\ writer'.left = writer.left
        /\ music'.owned = music.owned /\ music'.failed = music.failed
        /\ music'.written = music.written /\ music'.reported = music.reported
        /\ music'.prefix = music.prefix /\ music'.last = music.last
    BY <1>0, <2>1, <2>2 DEF PlayTypes
  <2>5. Places'
    BY <1>0, <2>1, <2>4 DEF Places, Fresh, Running
  <2>6. Sent'
    BY <1>0, <2>1, <2>4 DEF Sent, Fresh, Running, Pending
  <2>7. Books' /\ News'
    BY <1>0, <2>1, <2>4 DEF Books, News, Silence, Told
  <2> QED
    BY <2>3, <2>5, <2>6, <2>7 DEF PlayInv
<1> QED
  BY <1>1, <1>2, <1>3, <1>4, <1>5, <1>6, <1>7, <1>8, <1>9, <1>10, <1>11 DEF StreamTask

(* What the interrupt does to them. *)
LEMMA InterruptKeepsBooks ==
  ASSUME ClockInv, PlayInv, BufferSent \/ OnSent
  PROVE  PlayInv'
<1>0. PlayTypes /\ Places /\ Sent /\ Books /\ News
  BY DEF PlayInv
<1>n. /\ clock.submitted \in Int /\ clock.completed \in Nat /\ isr.frames \in Nat
      /\ channel.queued \in Nat /\ writer.part \in Nat
  BY <1>0 DEF PlayTypes
<1>1. CASE BufferSent
  <2>1. /\ channel.on /\ isr.at = "idle"
        /\ channel' = [channel EXCEPT !.queued = IF @ > 0 THEN @ - 1 ELSE 0]
        /\ isr' = IF clock.submitted > clock.completed THEN [at |-> "mark", frames |-> 1]
                                                       ELSE isr
        /\ UNCHANGED <<clock, music, writer, notified, poll, straddled>>
    BY <1>1 DEF BufferSent
  <2>2. (IF channel.queued > 0 THEN channel.queued - 1 ELSE 0) \in Nat
    BY <1>n
  <2>3. PlayTypes'
    BY <1>0, <2>1, <2>2 DEF PlayTypes
  <2>4. channel'.queued = IF channel.queued > 0 THEN channel.queued - 1 ELSE 0
    BY <1>0, <2>1 DEF PlayTypes
  <2>5. Pending = 0 /\ Pending' = IF clock.submitted > clock.completed THEN 1 ELSE 0
    BY <2>1 DEF Pending
  <2>6. isr'.at # "unmark" /\ isr.at # "unmark"
    BY <2>1
  <2>7. Places' /\ Books' /\ News'
    BY <1>0, <2>1, <2>6 DEF Places, Books, News, Silence, Told, Fresh, Running
  <2>8. Sent'
    BY <1>0, <1>n, <2>1, <2>4, <2>5 DEF Sent, Fresh, Running
  <2> QED
    BY <2>3, <2>7, <2>8 DEF PlayInv
<1>2. CASE OnSent
  <2>1. /\ UNCHANGED <<channel, music, writer, poll, straddled>> /\ isr.at # "idle"
        /\ isr.at \in {"mark", "stamp", "count", "unmark"}
    BY <1>2 DEF OnSent, ClockInv, ClockTypes
  <2>2. CASE isr.at # "count"
    <3>1. /\ clock'.submitted = clock.submitted /\ clock'.completed = clock.completed
          /\ DOMAIN clock' = DOMAIN clock
      BY <1>0, <1>2, <2>1, <2>2 DEF OnSent, PlayTypes
    <3>2. /\ DOMAIN isr' = DOMAIN isr /\ isr'.frames = isr.frames
          /\ isr'.at = (CASE isr.at = "mark" -> "stamp" [] isr.at = "stamp" -> "count"
                          [] isr.at = "unmark" -> "idle")
          /\ (notified' <=> notified \/ isr.at = "unmark")
      BY <1>0, <1>2, <2>1, <2>2 DEF OnSent, PlayTypes
    <3>3. Pending' = Pending
      BY <2>1, <2>2, <3>2 DEF Pending
    <3>4. PlayTypes'
      BY <1>0, <2>1, <3>1, <3>2 DEF PlayTypes
    <3>5. Places' /\ Books'
      BY <1>0, <2>1, <3>1 DEF Places, Books, Silence, Told, Fresh, Running
    <3>6. Sent'
      BY <1>0, <2>1, <3>1, <3>3 DEF Sent, Fresh, Running
    <3>7. News'
      BY <1>0, <2>1, <3>1, <3>2 DEF News, Told
    <3> QED
      BY <3>4, <3>5, <3>6, <3>7 DEF PlayInv
  <2>3. CASE isr.at = "count"
    <3>1. /\ clock'.submitted = clock.submitted
          /\ clock'.completed = clock.completed + isr.frames
          /\ DOMAIN clock' = DOMAIN clock /\ DOMAIN isr' = DOMAIN isr
          /\ isr'.frames = isr.frames /\ isr'.at = "unmark"
      BY <1>0, <1>2, <2>3 DEF OnSent, PlayTypes
    <3>2. Pending = isr.frames /\ Pending' = 0
      BY <2>3, <3>1 DEF Pending
    <3>3. PlayTypes'
      BY <1>0, <2>1, <3>1 DEF PlayTypes
    <3>4. Places'
      <4>1. writer.at \notin {"zeroed", "prime"} \/ isr.frames = 0
        <5>1. writer.at \in {"zeroed", "prime"} =>
                clock.submitted = 0 /\ clock.completed = 0
                /\ clock.completed + Pending <= clock.submitted
          BY <1>0 DEF Places, Sent, Fresh
        <5> QED
          BY <1>n, <3>2, <5>1
      <4> QED
        BY <1>0, <1>n, <2>1, <3>1, <4>1 DEF Places, Fresh, Running
    <3>5. Sent'
      BY <1>0, <1>n, <2>1, <3>1, <3>2 DEF Sent, Fresh, Running
    <3>6. Books'
      BY <1>0, <2>1, <3>1 DEF Books, Silence, Told, PlayTypes
    <3>7. News'
      BY <3>1 DEF News
    <3> QED
      BY <3>3, <3>4, <3>5, <3>6, <3>7 DEF PlayInv
  <2> QED
    BY <2>2, <2>3
<1> QED
  BY <1>1, <1>2

(* The poll, which takes from the clock what it adds to the reports. *)
LEMMA PollKeepsBooks ==
  ASSUME ClockInv, PlayInv, PollTaskStep
  PROVE  PlayInv'
<1>0. PlayTypes /\ Places /\ Sent /\ Books /\ News
  BY DEF PlayInv
<1>1. UNCHANGED <<clock, channel, isr, writer, straddled>>
  BY DEF PollTaskStep, PollWakes, PollChecks, SnapBefore, SnapCount, SnapStamp, SnapAfter,
         Account, Report
<1>2. Pending' = Pending
  BY <1>1 DEF Pending
<1>n. /\ clock.submitted \in Int /\ clock.completed \in Nat /\ writer.left \in Nat
      /\ writer.part \in Nat /\ writer.part <= writer.left
      /\ music.written \in Int /\ music.written <= MaxFrames /\ music.reported \in Int
      /\ music.prefix \in Int /\ music.last \in Nat
      /\ poll.completed \in Nat /\ poll.played \in Int
  BY <1>0 DEF PlayTypes, Places
<1>3. ASSUME UNCHANGED music, PlayTypes', poll.at # "report", poll'.at # "report",
             poll'.played = 0,
             poll'.at \in {"stamp", "after", "account"} =>
               \/ poll'.completed = clock.completed
               \/ poll.at \in {"stamp", "after", "account"}
                  /\ poll'.completed = poll.completed,
             News'
      PROVE  PlayInv'
  <2>1. poll.played = 0
    BY <1>0, <1>3 DEF Places
  <2>2. Places' /\ Sent'
    BY <1>0, <1>1, <1>2, <1>3 DEF Places, Sent, Fresh, Running
  <2>3. Books'
    BY <1>0, <1>1, <1>n, <1>3, <2>1 DEF Books, Silence, Told
  <2> QED
    BY <1>3, <2>2, <2>3 DEF PlayInv
<1>4. CASE PollWakes
  <2>1. poll.at = "sleep" /\ poll' = [poll EXCEPT !.at = "check"] /\ UNCHANGED music
    BY <1>4 DEF PollWakes
  <2>2. PlayTypes' /\ poll'.at = "check" /\ poll'.played = poll.played
    BY <1>0, <1>1, <2>1 DEF PlayTypes
  <2>3. News' /\ poll.played = 0
    BY <1>0, <2>1, <2>2 DEF News, Places
  <2> QED
    BY <1>3, <2>1, <2>2, <2>3
<1>5. CASE PollChecks
  <2>1. poll.at = "check" /\ UNCHANGED <<music, notified>>
        /\ poll' = IF music.owned THEN [poll EXCEPT !.at = "before"] ELSE Asleep
    BY <1>5 DEF PollChecks
  <2>2. poll.played = 0
    BY <1>0, <2>1 DEF Places
  <2>3. PlayTypes' /\ poll'.played = 0
        /\ poll'.at = IF music.owned THEN "before" ELSE "sleep"
    BY <1>0, <1>1, <2>1, <2>2 DEF PlayTypes, Asleep
  <2>4. News'
    BY <2>1, <2>3 DEF News, Told
  <2> QED
    BY <1>3, <2>1, <2>3, <2>4
<1>6. CASE SnapBefore
  <2>1. poll.at = "before" /\ UNCHANGED <<music, notified>>
        /\ poll' = [poll EXCEPT !.at = "count", !.before = clock.sequence]
    BY <1>6 DEF SnapBefore
  <2>2. poll.played = 0
    BY <1>0, <2>1 DEF Places
  <2>3. PlayTypes' /\ poll'.played = 0 /\ poll'.at = "count"
    BY <1>0, <1>1, <2>1, <2>2 DEF PlayTypes
  <2>4. News'
    BY <2>3 DEF News
  <2> QED
    BY <1>3, <2>1, <2>3, <2>4
<1>7. CASE SnapCount
  <2>1. poll.at = "count" /\ UNCHANGED <<music, notified>>
        /\ poll' = [poll EXCEPT !.at = "stamp", !.completed = clock.completed]
    BY <1>7 DEF SnapCount
  <2>2. poll.played = 0
    BY <1>0, <2>1 DEF Places
  <2>3. PlayTypes' /\ poll'.played = 0 /\ poll'.at = "stamp"
        /\ poll'.completed = clock.completed
    BY <1>0, <1>1, <2>1, <2>2 DEF PlayTypes
  <2>4. News'
    BY <1>1, <2>3 DEF News
  <2> QED
    BY <1>3, <2>1, <2>3, <2>4
<1>8. CASE SnapStamp
  <2>1. poll.at = "stamp" /\ UNCHANGED <<music, notified>>
        /\ poll' = [poll EXCEPT !.at = "after", !.stamp = clock.at]
    BY <1>8 DEF SnapStamp
  <2>2. poll.played = 0
    BY <1>0, <2>1 DEF Places
  <2>3. PlayTypes' /\ poll'.played = 0 /\ poll'.at = "after"
        /\ poll'.completed = poll.completed
    BY <1>0, <1>1, <2>1, <2>2 DEF PlayTypes
  <2>4. News'
    BY <1>0, <1>1, <2>1, <2>3 DEF News, Told
  <2> QED
    BY <1>3, <2>1, <2>3, <2>4
<1>9. CASE SnapAfter
  <2>1. poll.at = "after" /\ UNCHANGED <<music, notified>>
        /\ poll' = IF SnapshotValid THEN [poll EXCEPT !.at = "account"]
                                    ELSE [Asleep EXCEPT !.at = "before"]
    BY <1>9 DEF SnapAfter
  <2>2. poll.played = 0
    BY <1>0, <2>1 DEF Places
  <2>3. CASE SnapshotValid
    <3>1. PlayTypes' /\ poll'.played = 0 /\ poll'.at = "account"
          /\ poll'.completed = poll.completed
      BY <1>0, <1>1, <2>1, <2>2, <2>3 DEF PlayTypes
    <3>2. News'
      BY <1>0, <1>1, <2>1, <3>1 DEF News, Told
    <3> QED
      BY <1>3, <2>1, <3>1, <3>2
  <2>4. CASE ~SnapshotValid
    <3>1. PlayTypes' /\ poll'.played = 0 /\ poll'.at = "before"
      BY <1>0, <1>1, <2>1, <2>4 DEF PlayTypes, Asleep
    <3>2. News'
      BY <3>1 DEF News
    <3> QED
      BY <1>3, <2>1, <3>1, <3>2
  <2> QED
    BY <2>3, <2>4
<1>10. CASE Account
  <2> DEFINE delta == (poll.completed + Top + 1 - music.last) % (Top + 1)
             own   == IF delta > music.prefix THEN delta - music.prefix ELSE 0
             open  == IF music.written > music.reported THEN music.written - music.reported ELSE 0
             n     == Least(own, open)
  <2>1. /\ poll.at = "account" /\ UNCHANGED notified
        /\ music' = [music EXCEPT !.last = poll.completed,
                                  !.prefix = IF delta > @ THEN 0 ELSE @ - delta]
        /\ poll' = IF n = 0 THEN Asleep ELSE [Asleep EXCEPT !.at = "report", !.played = n]
    BY <1>10 DEF Account
  <2>2. poll.played = 0
    BY <1>0, <2>1 DEF Places
  <2>t. Top \in Nat /\ Top = DmaFrames + MaxFrames
    BY PlaySizes DEF Top
  <2>3. delta \in Int
    <3>1. poll.completed + Top + 1 - music.last \in Int /\ Top + 1 \in Nat \ {0}
      BY <1>n, <2>t
    <3> QED
      BY <3>1
  <2>4. Told => delta = poll.completed - music.last /\ delta \in Nat
    <3> SUFFICES ASSUME Told PROVE delta = poll.completed - music.last /\ delta \in Nat
      OBVIOUS
    <3>1. /\ music.last <= poll.completed /\ poll.completed <= clock.completed
          /\ Silence <= DmaFrames
          /\ music.written + Silence = clock.submitted + writer.left - writer.part
      BY <1>0, <2>1 DEF Books
    <3>2. clock.completed <= clock.submitted
      <4>1. Running /\ ~music.failed
        BY <1>0 DEF Told, Places
      <4>2. clock.completed + Pending <= clock.submitted /\ Pending \in Nat
        BY <1>0, <4>1 DEF Sent, Pending, PlayTypes
      <4> HIDE DEF Pending
      <4> QED
        BY <1>n, <4>2
    <3>3. Silence \in Int
      BY <1>n DEF Silence
    <3>4. poll.completed <= Top
      BY <1>n, <2>t, <3>1, <3>2, <3>3, PlaySizes
    <3>5. poll.completed - music.last \in 0..Top
      BY <1>n, <2>t, <3>1, <3>4
    <3>6. ((poll.completed - music.last) + (Top + 1)) % (Top + 1) = poll.completed - music.last
      BY <2>t, <3>5, NoWrap
    <3>7. poll.completed + Top + 1 - music.last = (poll.completed - music.last) + (Top + 1)
      BY <1>n, <2>t
    <3> QED
      BY <3>5, <3>6, <3>7
  <2> HIDE DEF delta
  <2>5. own \in Int /\ open \in Int /\ n \in Int
    BY <1>n, <2>3 DEF Least
  <2>6. Told => n = own /\ own \in Nat
    <3> SUFFICES ASSUME Told PROVE own <= open /\ own \in Nat
      BY <2>5 DEF Least
    <3>1. /\ poll.completed <= clock.completed /\ 0 <= music.prefix
          /\ music.written + (music.last + music.prefix - music.reported)
               = clock.submitted + writer.left - writer.part
      BY <1>0, <1>n, <2>1, <2>2 DEF Books, Silence
    <3>2. clock.completed <= clock.submitted
      <4>1. Running /\ ~music.failed
        BY <1>0 DEF Told, Places
      <4>2. clock.completed + Pending <= clock.submitted /\ Pending \in Nat
        BY <1>0, <4>1 DEF Sent, Pending, PlayTypes
      <4> HIDE DEF Pending
      <4> QED
        BY <1>n, <4>2
    <3> QED
      BY <1>n, <2>4, <3>1, <3>2
  <2> HIDE DEF own, open, n
  <2>7. /\ DOMAIN music' = DOMAIN music /\ music'.owned = music.owned
        /\ music'.failed = music.failed /\ music'.written = music.written
        /\ music'.reported = music.reported /\ music'.last = poll.completed
        /\ music'.prefix = IF delta > music.prefix THEN 0 ELSE music.prefix - delta
    BY <1>0, <2>1 DEF PlayTypes
  <2>8. /\ {"at", "before", "completed", "stamp", "played"} \subseteq DOMAIN poll'
        /\ poll'.completed = 0 /\ poll'.played = n
        /\ poll'.at = IF n = 0 THEN "sleep" ELSE "report"
    BY <2>1 DEF Asleep
  <2>9. PlayTypes'
    <3>1. music'.prefix \in Int
      BY <1>n, <2>3, <2>7
    <3> QED
      BY <1>0, <1>1, <1>n, <2>5, <2>7, <2>8, <3>1 DEF PlayTypes
  <2>10. Places' /\ Sent'
    BY <1>0, <1>1, <1>2, <2>5, <2>7, <2>8 DEF Places, Sent, Fresh, Running
  <2>11. Books'
    <3> SUFFICES ASSUME Told PROVE Books'
      BY <1>1, <2>7 DEF Books, Told
    <3>1. /\ 0 <= Silence /\ Silence <= DmaFrames
          /\ music.written + Silence = clock.submitted + writer.left - writer.part
          /\ 0 <= music.prefix /\ (music.prefix > 0 => music.reported = 0)
          /\ 0 <= music.written /\ poll.completed <= clock.completed /\ music.last <= poll.completed
          /\ Silence = music.last + music.prefix - music.reported
      BY <1>0, <1>n, <2>1, <2>2 DEF Books, Silence
    <3>2. n = (IF delta > music.prefix THEN delta - music.prefix ELSE 0)
          /\ delta = poll.completed - music.last /\ delta \in Nat
      BY <2>4, <2>6 DEF own
    <3>3. /\ Silence' = Silence /\ 0 <= music'.prefix
          /\ (music'.prefix > 0 => music'.reported + poll'.played = 0)
      BY <1>n, <2>7, <2>8, <3>1, <3>2 DEF Silence
    <3> QED
      BY <1>1, <2>7, <2>8, <3>1, <3>3 DEF Books
  <2>12. News'
    BY <1>0, <1>1, <2>1, <2>7, <2>8 DEF News, Told
  <2> QED
    BY <2>9, <2>10, <2>11, <2>12 DEF PlayInv
<1>11. CASE Report
  <2>1. /\ poll.at = "report" /\ poll' = Asleep /\ UNCHANGED notified
        /\ music' = [music EXCEPT !.reported = @ + poll.played]
    BY <1>11 DEF Report
  <2>2. /\ DOMAIN music' = DOMAIN music /\ music'.owned = music.owned
        /\ music'.failed = music.failed /\ music'.written = music.written
        /\ music'.reported = music.reported + poll.played /\ music'.last = music.last
        /\ music'.prefix = music.prefix
    BY <1>0, <2>1 DEF PlayTypes
  <2>3. /\ {"at", "before", "completed", "stamp", "played"} \subseteq DOMAIN poll'
        /\ poll'.completed = 0 /\ poll'.played = 0 /\ poll'.at = "sleep"
    BY <2>1 DEF Asleep
  <2>4. PlayTypes'
    BY <1>0, <1>1, <1>n, <2>2, <2>3 DEF PlayTypes
  <2>5. Places' /\ Sent'
    BY <1>0, <1>1, <1>2, <2>2, <2>3 DEF Places, Sent, Fresh, Running
  <2>6. Books'
    BY <1>0, <1>1, <1>n, <2>2, <2>3 DEF Books, Silence, Told
  <2>7. News'
    BY <1>0, <1>1, <2>1, <2>2, <2>3 DEF News, Told
  <2> QED
    BY <2>4, <2>5, <2>6, <2>7 DEF PlayInv
<1> QED
  BY <1>4, <1>5, <1>6, <1>7, <1>8, <1>9, <1>10, <1>11 DEF PollTaskStep

LEMMA BooksAlways == RenderSpec => []PlayInv
<1>1. RenderInit => PlayInv
  BY PlayStarts
<1>2. ClockInv /\ PlayInv /\ [RenderNext]_render => PlayInv'
  <2> SUFFICES ASSUME ClockInv, PlayInv, [RenderNext]_render PROVE PlayInv'
    OBVIOUS
  <2>1. CASE UNCHANGED render
    BY <2>1 DEF render, PlayInv, PlayTypes, Places, Sent, Books, News, Told, Silence, Fresh,
                Running, Pending
  <2> QED
    BY <2>1, StreamKeepsBooks, InterruptKeepsBooks, PollKeepsBooks DEF RenderNext
<1> QED
  BY <1>1, <1>2, ClockInvAlways, PTL DEF RenderSpec

(* main/sendspin_player.cpp: once the queue has run out and the poll is    *)
(* back to sleep, every frame that Sendspin wrote was reported to it, for  *)
(* any number of frames, polls and interrupts, and in any order.           *)
THEOREM ReportsAreComplete == RenderSpec => []AllReported
<1>1. PlayInv => AllReported
  <2> SUFFICES ASSUME PlayInv, Told, writer.at = "ready", channel.queued = 0, isr.at = "idle",
                      ~notified, poll.at = "sleep"
               PROVE  music.reported = music.written
    BY DEF AllReported, Told
  <2>1. PlayTypes /\ Places /\ Sent /\ Books /\ News
    BY DEF PlayInv
  <2>2. writer.part = 0 /\ writer.left = 0 /\ poll.played = 0 /\ Running /\ ~music.failed
    BY <2>1 DEF Places, Running, Told
  <2>3. clock.submitted <= clock.completed /\ clock.completed <= clock.submitted
    <3>1. Pending = 0
      BY DEF Pending
    <3> QED
      BY <2>1, <2>2, <3>1 DEF Sent, PlayTypes
  <2>4. music.last = clock.completed
    BY <2>1 DEF News
  <2>5. /\ music.written + (music.last + music.prefix - music.reported) = clock.submitted
        /\ 0 <= music.prefix /\ (music.prefix > 0 => music.reported = 0)
    BY <2>1, <2>2 DEF Books, Silence, PlayTypes
  <2>6. music.written + music.prefix = music.reported
    BY <2>1, <2>3, <2>4, <2>5 DEF PlayTypes
  <2>7. 0 <= music.written
    BY <2>1 DEF Books
  <2> QED
    BY <2>1, <2>5, <2>6, <2>7 DEF PlayTypes
<1> QED
  BY <1>1, BooksAlways, PTL

-----------------------------------------------------------------------------
(* The types of the render clock's users.                                  *)

Clocks == [submitted : 0..Top, completed : 0..Top, at : 0..Top, sequence : Nat]
Channels == [on : BOOLEAN, queued : 0..DmaFrames]
Interrupts == [at : {"idle", "mark", "stamp", "count", "unmark"}, frames : {0, 1}]
Accounts ==
  [owned : BOOLEAN, written : 0..MaxFrames, reported : 0..2 * MaxFrames,
   prefix : 0..Top, last : 0..Top, failed : BOOLEAN]
Streams ==
  [at : {"ended", "reset", "zeroed", "prime", "begun", "ready", "block", "write"},
   block : 0..BlockFrames, part : 0..BlockFrames, left : 0..BlockFrames, streams : 0..MaxStreams]
Polls ==
  [at : {"sleep", "check", "before", "count", "stamp", "after", "account", "report"},
   before : Nat, completed : 0..Top, stamp : 0..Top, played : 0..Top]

LEMMA RenderTypesAre ==
  RenderTypeOK <=>
    /\ clock \in Clocks /\ channel \in Channels /\ isr \in Interrupts
    /\ music \in Accounts /\ writer \in Streams /\ poll \in Polls
    /\ notified \in BOOLEAN /\ straddled \in BOOLEAN
  BY DEF RenderTypeOK, Clocks, Channels, Interrupts, Accounts, Streams, Polls

(* Nothing is on the clock but silence and what the stream has counted as  *)
(* written, and no more is reported than one stream may write.             *)
Limits ==
  /\ writer.at \notin {"block", "write"} => writer.block = 0
  /\ writer.at \in {"block", "write"} => writer.block <= music.written /\ ~music.failed
  /\ writer.left <= writer.block
  /\ Running /\ ~music.failed =>
       clock.submitted + writer.left - writer.part <= DmaFrames + music.written
  /\ clock.completed + Pending <= Top
  /\ music.reported + poll.played <= MaxFrames

LEMMA RenderSizes ==
  /\ DmaFrames \in Nat \ {0} /\ MaxFrames \in Nat \ {0} /\ BlockFrames \in Nat \ {0}
  /\ MaxStreams \in Nat \ {0} /\ Top \in Nat /\ Top = DmaFrames + MaxFrames
  BY RenderAssumption DEF Top

LEMMA RenderStartsTyped == RenderInit => RenderTypeOK /\ Limits
<1> SUFFICES ASSUME RenderInit PROVE RenderTypeOK /\ Limits
  OBVIOUS
<1>1. RenderTypeOK
  <2>1. /\ clock \in Clocks /\ channel \in Channels /\ isr \in Interrupts
        /\ notified \in BOOLEAN /\ straddled \in BOOLEAN
    <3>1. 0 \in 0..Top /\ 0 \in 0..DmaFrames /\ 0 \in {0, 1} /\ 0 \in Nat
      BY RenderSizes
    <3> QED
      BY <3>1 DEF RenderInit, Clocks, Channels, Interrupts
  <2>2. music \in Accounts /\ writer \in Streams /\ poll \in Polls
    <3>1. 0 \in 0..Top /\ 0 \in 0..MaxFrames /\ 0 \in 0..2 * MaxFrames /\ 0 \in 0..BlockFrames
          /\ 0 \in 0..MaxStreams /\ 0 \in Nat
      BY RenderSizes
    <3> QED
      BY <3>1 DEF RenderInit, Accounts, Streams, Polls, Asleep
  <2> QED
    BY <2>1, <2>2, RenderTypesAre
<1>2. Limits
  BY RenderSizes DEF RenderInit, Limits, Running, Pending, Asleep
<1> QED
  BY <1>1, <1>2

(* What the stream does to the types. *)
LEMMA StreamTyped ==
  ASSUME ClockInv, PlayInv, RenderTypeOK, Limits, StreamTask
  PROVE  RenderTypeOK' /\ Limits'
<1>0. /\ clock \in Clocks /\ channel \in Channels /\ isr \in Interrupts
      /\ music \in Accounts /\ writer \in Streams /\ poll \in Polls
      /\ notified \in BOOLEAN /\ straddled \in BOOLEAN
  BY RenderTypesAre
<1>l. RenderTypeOK' <=>
        /\ clock' \in Clocks /\ channel' \in Channels /\ isr' \in Interrupts
        /\ music' \in Accounts /\ writer' \in Streams /\ poll' \in Polls
        /\ notified' \in BOOLEAN /\ straddled' \in BOOLEAN
  BY DEF RenderTypeOK, Clocks, Channels, Interrupts, Accounts, Streams, Polls, Top
<1>s. Places /\ Sent /\ Parity
  BY DEF PlayInv, ClockInv
<1>p. Pending \in Nat /\ Pending <= 1
  BY <1>0 DEF Pending, Interrupts
<1>1. CASE StreamOpens
  <2>1. RenderTypeOK'
    <3>1. UNCHANGED <<isr, music, poll, notified, straddled>>
      BY <1>1 DEF StreamOpens
    <3>2. clock' \in Clocks
      BY <1>0, <1>1, RenderSizes
         DEF StreamOpens, Clocks
    <3>3. channel' \in Channels
      BY <1>0, <1>1, RenderSizes
         DEF StreamOpens, Channels
    <3>4. writer' \in Streams
      <4>1. writer' = [writer EXCEPT !.at = "reset", !.streams = @ + 1]
        BY <1>1 DEF StreamOpens
      <4>2. writer.streams + 1 \in 0..MaxStreams
        BY <1>0, <1>1, RenderSizes DEF StreamOpens, Streams
      <4> QED
        BY <1>0, <4>1, <4>2 DEF Streams
    <3> QED
      BY <1>0, <1>l, <3>1, <3>2, <3>3, <3>4
  <2>2. writer'.left <= writer'.block /\ writer'.block = 0 /\ ~Running' /\ writer'.at = "reset"
    BY <1>0, <1>s, <1>1 DEF StreamOpens, Limits, Places, Running, Streams
  <2>3. Limits'
    BY <1>0, <1>1, <2>2 DEF StreamOpens, Limits, Pending, Clocks, Interrupts
  <2> QED
    BY <2>1, <2>3
<1>2. CASE ResetCounts \/ ResetEnds
  <2>1. RenderTypeOK'
    <3>1. UNCHANGED <<channel, isr, music, poll, notified, straddled>>
      BY <1>2 DEF ResetCounts, ResetEnds
    <3>2. clock' \in Clocks
      <4>1. \/ clock' = [clock EXCEPT !.submitted = 0, !.completed = 0, !.at = 0]
            \/ clock' = [clock EXCEPT !.sequence = @ + 1]
        BY <1>2 DEF ResetCounts, ResetEnds
      <4>2. 0 \in 0..Top
        BY RenderSizes
      <4>3. CASE clock' = [clock EXCEPT !.submitted = 0, !.completed = 0, !.at = 0]
        BY <1>0, <4>2, <4>3 DEF Clocks
      <4>4. CASE clock' = [clock EXCEPT !.sequence = @ + 1]
        BY <1>0, <4>4 DEF Clocks
      <4> QED
        BY <4>1, <4>3, <4>4
    <3>3. writer' \in Streams
      BY <1>0, <1>2, RenderSizes
         DEF ResetCounts, ResetEnds, Streams
    <3> QED
      BY <1>0, <1>l, <3>1, <3>2, <3>3
  <2>2. writer'.left <= writer'.block /\ writer'.block = 0 /\ writer'.at \in {"zeroed", "prime"}
    BY <1>0, <1>2 DEF ResetCounts, ResetEnds, Limits, Streams
  <2>3. clock'.completed + Pending' <= Top
    <3>1. Pending' = Pending
      BY <1>2 DEF ResetCounts, ResetEnds, Pending
    <3>2. clock'.completed \in {0, clock.completed}
      BY <1>0, <1>2 DEF ResetCounts, ResetEnds, Clocks
    <3>3. clock.completed + Pending <= Top
      BY DEF Limits
    <3> QED
      BY <1>0, <1>p, <3>1, <3>2, <3>3, RenderSizes DEF Clocks
  <2>4. Limits'
    BY <1>2, <2>2, <2>3 DEF ResetCounts, ResetEnds, Limits, Running
  <2> QED
    BY <2>1, <2>4
<1>3. CASE Prime
  <2>1. RenderTypeOK'
    BY <1>0, <1>l, <1>s, <1>3, RenderSizes DEF Prime, Places, Clocks, Channels, Streams
  <2>2. Limits'
    BY <1>0, <1>3, RenderSizes DEF Prime, Limits, Running, Pending, Clocks, Streams
  <2> QED
    BY <2>1, <2>2
<1>4. CASE StreamReady
  <2>1. clock.submitted - clock.completed \in 0..Top /\ clock.submitted <= DmaFrames
    BY <1>0, <1>s, <1>p, <1>4, RenderSizes DEF StreamReady, Sent, Places, Fresh, Clocks
  <2>2. RenderTypeOK'
    BY <1>0, <1>l, <1>4, <2>1, RenderSizes DEF StreamReady, Accounts, Streams, Clocks
  <2>3. writer'.left = 0 /\ writer'.block = 0 /\ writer'.part = 0
    BY <1>0, <1>s, <1>4 DEF StreamReady, Limits, Places, Streams
  <2>4. poll.played <= MaxFrames /\ poll'.played = poll.played /\ music'.reported = 0
    BY <1>0, <1>4, RenderSizes DEF StreamReady, Limits, Accounts, Polls
  <2>5. clock' = clock /\ isr' = isr /\ music'.written = 0 /\ writer'.at = "ready"
    BY <1>0, <1>4 DEF StreamReady, Streams
  <2>6. clock'.completed + Pending' <= Top
    BY <2>5 DEF Limits, Pending
  <2>7. clock'.submitted + writer'.left - writer'.part <= DmaFrames + music'.written
    BY <1>0, <2>1, <2>3, <2>5, RenderSizes DEF Clocks
  <2>8. Limits'
    BY <1>0, <2>3, <2>4, <2>5, <2>6, <2>7, RenderSizes DEF Limits, Polls
  <2> QED
    BY <2>2, <2>8
<1>5. CASE StreamOver
  <2>1. RenderTypeOK'
    <3>1. UNCHANGED <<clock, isr, poll, notified, straddled>>
      BY <1>5 DEF StreamOver
    <3>2. channel' \in Channels
      BY <1>0, <1>5, RenderSizes
         DEF StreamOver, Channels
    <3>3. music' \in Accounts
      <4>1. music' = [music EXCEPT !.owned = FALSE, !.written = 0, !.reported = 0]
        BY <1>5 DEF StreamOver
      <4>2. 0 \in 0..MaxFrames /\ 0 \in 0..2 * MaxFrames
        BY RenderSizes
      <4> QED
        BY <1>0, <4>1, <4>2 DEF Accounts
    <3>4. writer' \in Streams
      BY <1>0, <1>5, RenderSizes
         DEF StreamOver, Streams
    <3> QED
      BY <1>0, <1>l, <3>1, <3>2, <3>3, <3>4
  <2>2. Limits'
    BY <1>0, <1>5, RenderSizes DEF StreamOver, Limits, Running, Pending, Accounts, Streams, Polls
  <2> QED
    BY <2>1, <2>2
<1>6. CASE WriteBlock
  <2>1. PICK k \in 1..Least(BlockFrames, MaxFrames - music.written) :
          /\ music' = [music EXCEPT !.written = @ + Reserved(k)]
          /\ writer' = [writer EXCEPT !.at = "block", !.block = k, !.left = k]
    BY <1>6 DEF WriteBlock
  <2>2. k \in 1..BlockFrames /\ music.written + k \in 0..MaxFrames /\ k <= music.written + k
    BY <1>0, <2>1, RenderSizes DEF Least, Accounts
  <2>3. /\ clock' = clock /\ isr' = isr /\ poll' = poll /\ channel' = channel
        /\ notified' = notified /\ straddled' = straddled
        /\ writer.at = "ready" /\ ~music.failed
    BY <1>6 DEF WriteBlock
  <2>4. RenderTypeOK'
    <3>1. music' \in Accounts
      BY <1>0, <2>1, <2>2 DEF Accounts, Reserved
    <3>2. writer' \in Streams
      <4>1. k \in 0..BlockFrames
        BY <2>2, RenderSizes
      <4> QED
        BY <1>0, <2>1, <4>1 DEF Streams
    <3> QED
      BY <1>0, <1>l, <2>3, <3>1, <3>2
  <2>5. clock.submitted <= DmaFrames + music.written
    BY <1>0, <1>s, <2>3, RenderSizes DEF Limits, Places, Running, Clocks, Accounts
  <2>6. Limits'
    BY <1>0, <1>s, <2>1, <2>2, <2>3, <2>5, RenderSizes
       DEF Limits, Places, Running, Pending, Reserved, Clocks, Accounts, Streams
  <2> QED
    BY <2>4, <2>6
<1>7. CASE WritePart
  <2>1. PICK k \in 1..writer.left :
          /\ clock' = [clock EXCEPT !.submitted = @ + k]
          /\ writer' = [writer EXCEPT !.at = "write", !.part = k]
    BY <1>7 DEF WritePart
  <2>2. /\ music' = music /\ isr' = isr /\ poll' = poll /\ channel' = channel
        /\ notified' = notified /\ straddled' = straddled /\ writer.at = "block"
    BY <1>7 DEF WritePart
  <2>3. clock.submitted + writer.left <= DmaFrames + music.written
    BY <1>0, <1>s, <2>2, RenderSizes DEF Limits, Places, Running, Clocks, Streams
  <2>4. clock.submitted + k \in 0..Top /\ k \in 0..BlockFrames
    BY <1>0, <2>1, <2>3, RenderSizes DEF Clocks, Streams, Accounts
  <2>5. RenderTypeOK'
    BY <1>0, <1>l, <2>1, <2>2, <2>4 DEF Clocks, Streams
  <2>6. Limits'
    BY <1>0, <2>1, <2>2, <2>3, RenderSizes
       DEF Limits, Running, Pending, Clocks, Accounts, Streams
  <2> QED
    BY <2>5, <2>6
<1>8. CASE FrameAccepted
  <2>1. RenderTypeOK'
    <3>1. UNCHANGED <<clock, isr, music, poll, notified, straddled>>
      BY <1>8 DEF FrameAccepted
    <3>2. channel' \in Channels
      BY <1>0, <1>8, <1>s, RenderSizes
         DEF FrameAccepted, Channels
    <3>3. writer' \in Streams
      <4>1. PICK a \in {"block", "write"} :
              writer' = [writer EXCEPT !.part = @ - 1, !.left = @ - 1, !.at = a]
        BY <1>8, Zenon DEF FrameAccepted
      <4>2. writer.part - 1 \in 0..BlockFrames /\ writer.left - 1 \in 0..BlockFrames
        BY <1>0, <1>s, <1>8, RenderSizes DEF FrameAccepted, Places, Streams
      <4> QED
        BY <1>0, <4>1, <4>2 DEF Streams
    <3> QED
      BY <1>0, <1>l, <3>1, <3>2, <3>3
  <2>2. Limits'
    BY <1>0, <1>s, <1>8, RenderSizes
       DEF FrameAccepted, Limits, Places, Running, Pending, Clocks, Accounts, Streams
  <2> QED
    BY <2>1, <2>2
<1>9. CASE WriteTimesOut
  <2>1. RenderTypeOK'
    <3>1. UNCHANGED <<channel, isr, poll, notified, straddled>>
      BY <1>9 DEF WriteTimesOut
    <3>2. clock' \in Clocks
      BY <1>0, <1>9, <1>s, RenderSizes
         DEF WriteTimesOut, Clocks, Limits, Reserved, Places, Streams
    <3>3. music' \in Accounts
      <4>1. music' = [music EXCEPT !.written = @ - writer.block, !.failed = TRUE]
        BY <1>9 DEF WriteTimesOut, Reserved
      <4>2. music.written - writer.block \in 0..MaxFrames
        BY <1>0, <1>9, RenderSizes DEF WriteTimesOut, Limits, Accounts, Streams
      <4> QED
        BY <1>0, <4>1, <4>2 DEF Accounts
    <3>4. writer' \in Streams
      <4>1. writer' = [writer EXCEPT !.at = "ready", !.block = 0, !.part = 0, !.left = 0]
        BY <1>9 DEF WriteTimesOut
      <4>2. 0 \in 0..BlockFrames
        BY RenderSizes
      <4> QED
        BY <1>0, <4>1, <4>2 DEF Streams
    <3> QED
      BY <1>0, <1>l, <3>1, <3>2, <3>3, <3>4
  <2>2. Limits'
    BY <1>0, <1>9, RenderSizes DEF WriteTimesOut, Limits, Pending, Clocks, Accounts, Streams
  <2> QED
    BY <2>1, <2>2
<1>10. CASE BlockWritten
  <2>1. RenderTypeOK'
    <3>1. UNCHANGED <<clock, channel, isr, poll, notified, straddled>>
      BY <1>10 DEF BlockWritten
    <3>2. music' \in Accounts
      BY <1>0, <1>10, <1>s, RenderSizes
         DEF BlockWritten, Accounts, Limits, Reserved, Places, Clocks, Streams
    <3>3. writer' \in Streams
      BY <1>0, <1>10, <1>s, RenderSizes
         DEF BlockWritten, Streams, Limits, Reserved, Places, Clocks
    <3> QED
      BY <1>0, <1>l, <3>1, <3>2, <3>3
  <2>2. Limits'
    BY <1>0, <1>s, <1>10, RenderSizes
       DEF BlockWritten, Limits, Places, Running, Pending, Reserved, Clocks, Accounts, Streams
  <2> QED
    BY <2>1, <2>2
<1> QED
  BY <1>1, <1>2, <1>3, <1>4, <1>5, <1>6, <1>7, <1>8, <1>9, <1>10 DEF StreamTask

(* What the interrupt does to the types. *)
LEMMA InterruptTyped ==
  ASSUME ClockInv, RenderTypeOK, Limits, BufferSent \/ OnSent
  PROVE  RenderTypeOK' /\ Limits'
<1>0. /\ clock \in Clocks /\ channel \in Channels /\ isr \in Interrupts
      /\ music \in Accounts /\ writer \in Streams /\ poll \in Polls
      /\ notified \in BOOLEAN /\ straddled \in BOOLEAN
  BY RenderTypesAre
<1>l. RenderTypeOK' <=>
        /\ clock' \in Clocks /\ channel' \in Channels /\ isr' \in Interrupts
        /\ music' \in Accounts /\ writer' \in Streams /\ poll' \in Polls
        /\ notified' \in BOOLEAN /\ straddled' \in BOOLEAN
  BY DEF RenderTypeOK, Clocks, Channels, Interrupts, Accounts, Streams, Polls, Top
<1>1. CASE BufferSent
  <2>1. RenderTypeOK'
    BY <1>0, <1>l, <1>1, RenderSizes DEF BufferSent, Channels, Interrupts
  <2>2. clock'.completed + Pending' <= Top
    BY <1>0, <1>1, RenderSizes DEF BufferSent, Limits, Pending, Clocks, Interrupts
  <2>3. Limits'
    BY <1>1, <2>2 DEF BufferSent, Limits, Running
  <2> QED
    BY <2>1, <2>3
<1>2. CASE OnSent
  <2>1. clock.completed + Pending \in 0..Top
    BY <1>0, RenderSizes DEF Limits, Pending, Clocks, Interrupts
  <2>2. clock' \in Clocks /\ isr' \in Interrupts
    <3>1. isr' \in Interrupts
      BY <1>0, <1>2 DEF OnSent, Interrupts
    <3>2. CASE isr.at \in {"mark", "unmark"}
      <4>1. clock' = [clock EXCEPT !.sequence = @ + 1]
        BY <1>2, <3>2 DEF OnSent
      <4> QED
        BY <1>0, <3>1, <4>1 DEF Clocks
    <3>3. CASE isr.at = "stamp"
      <4>1. clock' = [clock EXCEPT !.at = clock.completed + isr.frames]
        BY <1>2, <3>3 DEF OnSent
      <4>2. clock.completed + isr.frames \in 0..Top
        BY <2>1, <3>3 DEF Pending
      <4> QED
        BY <1>0, <3>1, <4>1, <4>2 DEF Clocks
    <3>4. CASE isr.at = "count"
      <4>1. clock' = [clock EXCEPT !.completed = @ + isr.frames]
        BY <1>2, <3>4 DEF OnSent
      <4>2. clock.completed + isr.frames \in 0..Top
        BY <2>1, <3>4 DEF Pending
      <4> QED
        BY <1>0, <3>1, <4>1, <4>2 DEF Clocks
    <3> QED
      BY <1>0, <1>2, <3>2, <3>3, <3>4 DEF OnSent, Interrupts
  <2>3. RenderTypeOK'
    BY <1>0, <1>l, <1>2, <2>2 DEF OnSent
  <2>4. clock'.completed + Pending' <= Top /\ clock'.submitted = clock.submitted
    <3>1. isr'.frames = isr.frames /\ isr.at # "idle"
      BY <1>0, <1>2 DEF OnSent, Interrupts
    <3>2. clock'.submitted = clock.submitted
      BY <1>0, <1>2 DEF OnSent, Clocks, Interrupts
    <3>3. CASE isr.at \in {"mark", "stamp"}
      <4>1. clock'.completed = clock.completed /\ isr'.at \in {"stamp", "count"}
        BY <1>0, <1>2, <3>3 DEF OnSent, Clocks, Interrupts
      <4> QED
        BY <2>1, <3>1, <3>2, <3>3, <4>1 DEF Pending
    <3>4. CASE isr.at = "count"
      <4>1. clock'.completed = clock.completed + isr.frames /\ isr'.at = "unmark"
        BY <1>0, <1>2, <3>4 DEF OnSent, Clocks, Interrupts
      <4> QED
        BY <1>0, <2>1, <3>2, <3>4, <4>1 DEF Pending, Clocks, Interrupts
    <3>5. CASE isr.at = "unmark"
      <4>1. clock'.completed = clock.completed /\ isr'.at = "idle"
        BY <1>0, <1>2, <3>5 DEF OnSent, Clocks, Interrupts
      <4> QED
        BY <2>1, <3>2, <3>5, <4>1 DEF Pending
    <3> QED
      BY <1>0, <3>1, <3>3, <3>4, <3>5 DEF Interrupts
  <2>5. Limits'
    BY <1>2, <2>4 DEF OnSent, Limits, Running
  <2> QED
    BY <2>3, <2>5
<1> QED
  BY <1>1, <1>2

(* What the poll does to the types. *)
LEMMA PollTyped ==
  ASSUME ClockInv, PlayInv, RenderTypeOK, Limits, PollTaskStep
  PROVE  RenderTypeOK' /\ Limits'
<1>0. /\ clock \in Clocks /\ channel \in Channels /\ isr \in Interrupts
      /\ music \in Accounts /\ writer \in Streams /\ poll \in Polls
      /\ notified \in BOOLEAN /\ straddled \in BOOLEAN
  BY RenderTypesAre
<1>l. RenderTypeOK' <=>
        /\ clock' \in Clocks /\ channel' \in Channels /\ isr' \in Interrupts
        /\ music' \in Accounts /\ writer' \in Streams /\ poll' \in Polls
        /\ notified' \in BOOLEAN /\ straddled' \in BOOLEAN
  BY DEF RenderTypeOK, Clocks, Channels, Interrupts, Accounts, Streams, Polls, Top
<1>s. poll.at # "report" => poll.played = 0
  BY DEF PlayInv, Places
<1>a. Asleep \in Polls /\ [Asleep EXCEPT !.at = "before"] \in Polls /\ Asleep.played = 0
  BY RenderSizes DEF Asleep, Polls
<1>1. CASE PollWakes \/ PollChecks \/ SnapBefore \/ SnapCount \/ SnapStamp \/ SnapAfter
  <2>1. clock' = clock /\ channel' = channel /\ isr' = isr /\ music' = music /\ writer' = writer
        /\ straddled' = straddled /\ notified' \in BOOLEAN
    BY <1>0, <1>1 DEF PollWakes, PollChecks, SnapBefore, SnapCount, SnapStamp, SnapAfter
  <2>2. poll' \in Polls /\ poll'.played = 0
    BY <1>0, <1>1, <1>a, <1>s
       DEF PollWakes, PollChecks, SnapBefore, SnapCount, SnapStamp, SnapAfter, Asleep, Polls, Clocks
  <2>3. RenderTypeOK'
    BY <1>0, <1>l, <2>1, <2>2
  <2>4. music.reported <= MaxFrames
    BY <1>0, RenderSizes DEF Limits, Accounts, Polls
  <2>5. Limits'
    BY <1>0, <2>1, <2>2, <2>4, RenderSizes DEF Limits, Running, Pending, Accounts
  <2> QED
    BY <2>3, <2>5
<1>2. CASE Account
  <2> DEFINE delta == (poll.completed + Top + 1 - music.last) % (Top + 1)
             own   == IF delta > music.prefix THEN delta - music.prefix ELSE 0
             open  == IF music.written > music.reported THEN music.written - music.reported
                                                        ELSE 0
             n     == Least(own, open)
  <2>1. /\ music' = [music EXCEPT !.last = poll.completed,
                                  !.prefix = IF delta > @ THEN 0 ELSE @ - delta]
        /\ poll' = IF n = 0 THEN Asleep ELSE [Asleep EXCEPT !.at = "report", !.played = n]
    BY <1>2 DEF Account
  <2>2. UNCHANGED <<clock, channel, isr, writer, notified, straddled>> /\ poll.at = "account"
    BY <1>2 DEF Account
  <2>3. delta \in 0..Top
    <3>1. poll.completed + Top + 1 - music.last \in Nat /\ Top + 1 \in Nat \ {0}
      BY <1>0, RenderSizes DEF Polls, Accounts
    <3> QED
      BY <3>1, RenderSizes
  <2>4. own \in Nat /\ open \in Nat /\ (open = 0 \/ open + music.reported <= MaxFrames)
    <3> HIDE DEF delta
    <3> QED
      BY <1>0, <2>3, RenderSizes DEF Accounts
  <2>5. n \in Nat /\ (n = 0 \/ n + music.reported <= MaxFrames)
    <3> HIDE DEF own, open
    <3> QED
      BY <1>0, <2>4, RenderSizes DEF Least, Accounts
  <2> HIDE DEF n, own, open, delta
  <2>6. music.reported <= MaxFrames /\ n <= Top
    BY <1>0, <2>5, RenderSizes DEF Limits, Accounts, Polls
  <2>7. poll' \in Polls /\ (poll'.played = 0 \/ poll'.played = n)
    <3>1. n \in 0..Top
      BY <2>5, <2>6, RenderSizes
    <3>2. CASE n = 0
      BY <1>a, <2>1, <3>2
    <3>3. CASE n # 0
      <4>1. poll' = [Asleep EXCEPT !.at = "report", !.played = n]
        BY <2>1, <3>3
      <4> QED
        BY <1>a, <3>1, <4>1 DEF Polls
    <3> QED
      BY <3>2, <3>3
  <2>8. (IF delta > music.prefix THEN 0 ELSE music.prefix - delta) \in 0..Top
    BY <1>0, <2>3, RenderSizes DEF Accounts
  <2>9. /\ music' \in Accounts /\ music'.reported = music.reported
        /\ music'.written = music.written /\ music'.failed = music.failed
    BY <1>0, <2>1, <2>8 DEF Accounts, Polls
  <2>10. RenderTypeOK'
    BY <1>0, <1>l, <2>2, <2>7, <2>9
  <2>11. music'.reported + poll'.played <= MaxFrames
    BY <1>0, <2>5, <2>6, <2>7, <2>9, RenderSizes DEF Accounts
  <2>12. Limits'
    BY <2>2, <2>9, <2>11 DEF Limits, Running, Pending
  <2> QED
    BY <2>10, <2>12
<1>3. CASE Report
  <2>1. /\ music' = [music EXCEPT !.reported = @ + poll.played] /\ poll' = Asleep
        /\ UNCHANGED <<clock, channel, isr, writer, notified, straddled>>
    BY <1>3 DEF Report
  <2>2. music.reported + poll.played \in 0..MaxFrames
    BY <1>0, RenderSizes DEF Limits, Accounts, Polls
  <2>3. RenderTypeOK'
    BY <1>0, <1>l, <1>a, <2>1, <2>2, RenderSizes DEF Accounts
  <2>4. music'.reported + poll'.played <= MaxFrames
    BY <1>0, <1>a, <2>1, <2>2 DEF Accounts
  <2>5. Limits'
    BY <1>0, <2>1, <2>4 DEF Limits, Running, Pending, Accounts
  <2> QED
    BY <2>3, <2>5
<1> QED
  BY <1>1, <1>2, <1>3 DEF PollTaskStep

(* main/sendspin_player.cpp, main/audio_render_clock.h: no counter of the  *)
(* clock or of the stream's accounts goes below zero or beyond the frames  *)
(* that a stream may write and a queue of silence before it, a failed      *)
(* write's give-back included.                                             *)
THEOREM RenderTypeCorrect == RenderSpec => []RenderTypeOK
<1>1. RenderInit => RenderTypeOK /\ Limits
  BY RenderStartsTyped
<1>2. ClockInv /\ PlayInv /\ RenderTypeOK /\ Limits /\ [RenderNext]_render
        => (RenderTypeOK /\ Limits)'
  <2> SUFFICES ASSUME ClockInv, PlayInv, RenderTypeOK, Limits, [RenderNext]_render
               PROVE  RenderTypeOK' /\ Limits'
    OBVIOUS
  <2>1. CASE UNCHANGED render
    BY <2>1 DEF render, RenderTypeOK, Limits, Running, Pending, Top
  <2> QED
    BY <2>1, StreamTyped, InterruptTyped, PollTyped DEF RenderNext
<1> QED
  BY <1>1, <1>2, ClockInvAlways, BooksAlways, PTL DEF RenderSpec

-----------------------------------------------------------------------------
(* The overlay.                                                            *)

(* The music is at the ring: it may have read where it begins. *)
Reading == {"read", "write", "copy", "store"}

(* The fields the argument looks at, and no more of the types. *)
OverlayTypes ==
  /\ {"active", "read", "write", "cells"} \subseteq DOMAIN over
  /\ over.read \in Nat /\ over.write \in Nat /\ DOMAIN over.cells = 0..OverlayCapacity - 1
  /\ {"voice", "revision", "active", "seen"} \subseteq DOMAIN ducking
  /\ ducking.revision \in Nat /\ ducking.seen \in Nat
  /\ {"at", "revision", "voice", "read", "got"} \subseteq DOMAIN mixer
  /\ mixer.revision \in Nat /\ mixer.read \in Nat /\ mixer.got \in Nat
  /\ {"at", "sent", "start", "piece", "was"} \subseteq DOMAIN native
  /\ native.sent \in Nat /\ native.start \in Nat /\ native.piece \in Nat
  /\ {"at", "was"} \subseteq DOMAIN loop
  /\ {"last", "right"} \subseteq DOMAIN sounded
  /\ "overlays" \in DOMAIN bounds /\ bounds.overlays \in Nat

(* Nobody has seen a revision that is not published yet, and the mix knows *)
(* the wish of the voice that goes with the last one.                      *)
DuckSeen ==
  /\ ducking.seen <= ducking.revision /\ mixer.revision <= ducking.revision
  /\ mixer.at = "overlay" /\ mixer.revision = ducking.revision /\ ~DuckOwed
       => mixer.voice = ducking.voice

DuckInv == OverlayTypes /\ DuckSeen /\ DuckCurrent

(* The counters of the ring do not wrap while an overlay lasts. *)
LEMMA WordIsLong == Word \in Nat \ {0} /\ Word > ClipFrames + MixFrames
<1>1. OverlayCapacity \in Nat /\ ClipFrames \in Nat /\ MixFrames \in Nat
  BY OverlayAssumption
<1> QED
  BY <1>1 DEF Word

LEMMA InWord ==
  ASSUME NEW x \in Int
  PROVE  x % Word \in Nat
<1>1. Word \in Nat \ {0}
  BY WordIsLong
<1> HIDE DEF Word
<1> QED
  BY <1>1

-----------------------------------------------------------------------------
(* The types, and the ducking.                                             *)

LEMMA OverlayStarts == OverlayInit => DuckInv
<1> SUFFICES ASSUME OverlayInit PROVE DuckInv
  OBVIOUS
<1>1. OverlayTypes
  BY OverlayAssumption DEF OverlayInit, OverlayTypes, IdleMusic, IdleNative
<1>2. DuckSeen /\ DuckCurrent
  BY DEF OverlayInit, DuckSeen, DuckCurrent, IdleMusic, IdleNative
<1> QED
  BY <1>1, <1>2 DEF DuckInv

LEMMA MusicTypes ==
  ASSUME OverlayTypes, MusicTask
  PROVE  OverlayTypes'
<1> USE DEF OverlayTypes
<1>1. CASE RefreshBegins
  BY <1>1 DEF RefreshBegins
<1>2. CASE ReadVoiceDuck
  BY <1>2 DEF ReadVoiceDuck
<1>3. CASE SetTarget
  BY <1>3 DEF SetTarget, TakenFor
<1>4. CASE CheckOverlay
  BY <1>4 DEF CheckOverlay, IdleMusic
<1>5. CASE LoadRead
  BY <1>5 DEF LoadRead
<1>6. CASE LoadWrite
  <2> DEFINE available == (over.write + Word - mixer.read) % Word
             got == IF available < MixFrames THEN available ELSE MixFrames
  <2>0. over.write + Word - mixer.read \in Int
    BY WordIsLong
  <2>1. available \in Nat
    BY <2>0, InWord
  <2>2. got \in Nat
    BY <2>1, OverlayAssumption
  <2>3. mixer' = [mixer EXCEPT !.at = "copy", !.got = got]
    BY <1>6 DEF LoadWrite
  <2> HIDE DEF got
  <2> QED
    BY <1>6, <2>2, <2>3 DEF LoadWrite
<1>7. CASE MixOverlay
  BY <1>7 DEF MixOverlay
<1>8. CASE StoreRead
  <2>0. mixer.read + mixer.got \in Int
    BY WordIsLong
  <2>1. (mixer.read + mixer.got) % Word \in Nat
    BY <2>0, InWord
  <2> QED
    BY <1>8, <2>1 DEF StoreRead, IdleMusic
<1> QED
  BY <1>1, <1>2, <1>3, <1>4, <1>5, <1>6, <1>7, <1>8 DEF MusicTask

LEMMA NativeTypes ==
  ASSUME OverlayTypes, NativeTask
  PROVE  OverlayTypes'
<1> USE DEF OverlayTypes
<1>1. CASE BeginClip
  BY <1>1 DEF BeginClip, IdleNative
<1>2. CASE ActivateClip
  BY <1>2 DEF ActivateClip
<1>3. CASE PublishClip
  BY <1>3 DEF PublishClip, PublishDuck, IdleNative
<1>4. CASE WritePiece
  <2>0. over.write \in Int
    BY WordIsLong
  <2>1. over.write % Word \in Nat
    BY <2>0, InWord
  <2>2. PICK k \in 1..ClipFrames - native.sent :
          /\ native' = [native EXCEPT !.at = "store", !.start = over.write, !.piece = k]
          /\ over' = [over EXCEPT !.write = (@ + Announced(k)) % Word]
    BY <1>4 DEF WritePiece
  <2>3. over' = [over EXCEPT !.write = over.write % Word]
    BY <2>2 DEF Announced
  <2>4. k \in Nat
    BY OverlayAssumption
  <2> QED
    BY <1>4, <2>1, <2>2, <2>3, <2>4 DEF WritePiece
<1>5. CASE StoreWrite
  <2> DEFINE write == (native.start + native.piece) % Word
  <2>0. native.start + native.piece \in Int
    BY WordIsLong
  <2>1. write \in Nat
    BY <2>0, InWord
  <2>2. over'.write = write /\ over'.read = over.read /\ DOMAIN over' = DOMAIN over
    BY <1>5 DEF StoreWrite
  <2>3. DOMAIN over'.cells = DOMAIN over.cells
    BY <1>5 DEF StoreWrite
  <2>4. native' = [native EXCEPT !.at = "write", !.sent = @ + native.piece,
                                 !.start = 0, !.piece = 0]
    BY <1>5 DEF StoreWrite
  <2> HIDE DEF write
  <2> QED
    BY <1>5, <2>1, <2>2, <2>3, <2>4 DEF StoreWrite
<1>6. CASE EndClip
  BY <1>6 DEF EndClip
<1>7. CASE ClipDrained
  BY <1>7 DEF ClipDrained
<1>8. CASE ClipFinished
  BY <1>8 DEF ClipFinished
<1>9. CASE StopClip
  BY <1>9 DEF StopClip
<1>10. CASE ResetClip
  BY <1>10 DEF ResetClip, ResetOverlay, IdleNative
<1> QED
  BY <1>1, <1>2, <1>3, <1>4, <1>5, <1>6, <1>7, <1>8, <1>9, <1>10 DEF NativeTask

LEMMA OverlayTypesKept ==
  ASSUME OverlayTypes, [OverlayNext]_overlaying
  PROVE  OverlayTypes'
<1>1. CASE MusicTask
  BY <1>1, MusicTypes
<1>2. CASE NativeTask
  BY <1>2, NativeTypes
<1> USE DEF OverlayTypes
<1>3. CASE SongsBegin
  BY <1>3 DEF SongsBegin
<1>4. CASE SongsEnd
  BY <1>4 DEF SongsEnd
<1>5. CASE ResetSongs
  BY <1>5 DEF ResetSongs, ResetOverlay
<1>6. CASE PublishSongs
  BY <1>6 DEF PublishSongs, PublishDuck
<1>7. CASE SongsOff
  BY <1>7 DEF SongsOff
<1>8. CASE SetVoiceDuck
  BY <1>8 DEF SetVoiceDuck
<1>9. CASE PublishVoiceDuck
  BY <1>9 DEF PublishVoiceDuck, PublishDuck
<1>10. CASE UNCHANGED overlaying
  BY <1>10 DEF overlaying
<1> QED
  BY <1>1, <1>2, <1>3, <1>4, <1>5, <1>6, <1>7, <1>8, <1>9, <1>10 DEF OverlayNext, SongsTask

(* What of the ducking's state an action touches: each publish raises the  *)
(* revision above what the music has seen; each change of a wish is owed.  *)
LEMMA DuckKept ==
  ASSUME DuckInv, [OverlayNext]_overlaying
  PROVE  DuckSeen' /\ DuckCurrent'
<1> USE DEF DuckInv, DuckSeen, DuckCurrent, DuckOwed, OverlayTypes
<1>1. CASE RefreshBegins
  BY <1>1 DEF RefreshBegins
<1>2. CASE ReadVoiceDuck
  BY <1>2 DEF ReadVoiceDuck
<1>3. CASE SetTarget
  BY <1>3 DEF SetTarget, TakenFor
<1>4. CASE CheckOverlay
  BY <1>4 DEF CheckOverlay, IdleMusic
<1>5. CASE LoadRead
  BY <1>5 DEF LoadRead
<1>6. CASE LoadWrite
  BY <1>6 DEF LoadWrite
<1>7. CASE MixOverlay
  BY <1>7 DEF MixOverlay
<1>8. CASE StoreRead
  BY <1>8 DEF StoreRead, IdleMusic
<1>9. CASE BeginClip
  BY <1>9 DEF BeginClip, IdleNative
<1>10. CASE ActivateClip
  BY <1>10 DEF ActivateClip
<1>11. CASE PublishClip
  BY <1>11 DEF PublishClip, PublishDuck, IdleNative
<1>12. CASE WritePiece
  BY <1>12 DEF WritePiece
<1>13. CASE StoreWrite
  BY <1>13 DEF StoreWrite
<1>14. CASE EndClip
  BY <1>14 DEF EndClip
<1>15. CASE ClipDrained
  BY <1>15 DEF ClipDrained
<1>16. CASE ClipFinished
  BY <1>16 DEF ClipFinished
<1>17. CASE StopClip
  BY <1>17 DEF StopClip
<1>18. CASE ResetClip
  BY <1>18 DEF ResetClip, ResetOverlay, IdleNative
<1>19. CASE SongsBegin
  BY <1>19 DEF SongsBegin
<1>20. CASE SongsEnd
  BY <1>20 DEF SongsEnd
<1>21. CASE ResetSongs
  BY <1>21 DEF ResetSongs, ResetOverlay
<1>22. CASE PublishSongs
  BY <1>22 DEF PublishSongs, PublishDuck
<1>23. CASE SongsOff
  BY <1>23 DEF SongsOff
<1>24. CASE SetVoiceDuck
  BY <1>24 DEF SetVoiceDuck
<1>25. CASE PublishVoiceDuck
  BY <1>25 DEF PublishVoiceDuck, PublishDuck
<1>26. CASE UNCHANGED overlaying
  BY <1>26 DEF overlaying
<1> QED
  BY <1>1, <1>2, <1>3, <1>4, <1>5, <1>6, <1>7, <1>8, <1>9, <1>10, <1>11, <1>12, <1>13,
     <1>14, <1>15, <1>16, <1>17, <1>18, <1>19, <1>20, <1>21, <1>22, <1>23, <1>24, <1>25, <1>26
  DEF OverlayNext, MusicTask, NativeTask, SongsTask

-----------------------------------------------------------------------------
(* Remainders: two positions that are less than a ring apart have cells of *)
(* their own.                                                              *)

LEMMA Division ==
  ASSUME NEW c \in Nat \ {0}, NEW a \in Nat
  PROVE  /\ a \div c \in Nat /\ a % c \in 0..c - 1
         /\ a = c * (a \div c) + (a % c)
  BY Z3

LEMMA Unique ==
  ASSUME NEW c \in Nat \ {0}, NEW q \in Nat, NEW r \in 0..c - 1
  PROVE  (c * q + r) % c = r
  BY Z3

LEMMA Multiples ==
  ASSUME NEW c \in Nat \ {0}, NEW p \in Int, NEW q \in Int, p < q
  PROVE  c * p + c <= c * q
  BY Z3

LEMMA Apart ==
  ASSUME NEW c \in Nat \ {0}, NEW a \in Nat, NEW b \in Nat, a < b, b - a < c
  PROVE  a % c # b % c
<1>1. /\ a = c * (a \div c) + (a % c) /\ b = c * (b \div c) + (b % c) 
      /\ a \div c \in Nat /\ b \div c \in Nat /\ a % c \in Nat /\ b % c \in Nat
  BY Division
<1> DEFINE p == a \div c  q == b \div c r == a % c t == b % c
<1>2. /\ p \in Nat /\ q \in Nat /\ r \in Nat /\ t \in Nat /\ a = c * p + r /\ b = c * q + t
  BY <1>1
<1> HIDE DEF p, q, r, t
<1>3. ASSUME r = t PROVE FALSE
  <2>1. CASE p < q
    BY <2>1, <1>2, <1>3, Multiples
  <2>2. CASE q < p
    BY <2>2, <1>2, <1>3, Multiples
  <2>3. CASE p = q
    BY <2>3, <1>2, <1>3
  <2> QED BY <2>1, <2>2, <2>3, <1>2
<1> QED BY <1>3 DEF r, t

LEMMA Further ==
  ASSUME NEW c \in Nat \ {0}, NEW a \in Nat, NEW d \in Nat, (a % c) + d < c
  PROVE  (a + d) % c = (a % c) + d
<1> DEFINE p == a \div c  r == a % c
<1>2. p \in Nat /\ r \in Nat /\ a = c * p + r /\ r + d < c
  BY Division
<1> HIDE DEF p, r
<1>3. r + d \in 0..c - 1 /\ a + d = c * p + (r + d)
  BY <1>2
<1>4. (c * p + (r + d)) % c = r + d
  BY <1>2, <1>3, Unique
<1> QED BY <1>3, <1>4 DEF r

LEMMA WithinRing ==
  ASSUME NEW c \in Nat, NEW w \in Nat, NEW p \in Nat, NEW r \in Nat, NEW j \in Nat, NEW d \in Nat,
         w + p <= r + c, r <= j, j < w, d < p
  PROVE  j < w + d /\ (w + d) - j < c /\ w + d \in Nat
  OBVIOUS

LEMMA Fits ==
  ASSUME NEW c \in Nat \ {0}, NEW a \in Nat, a < c
  PROVE  a % c = a /\ (a + c) % c = a
  BY Z3

-----------------------------------------------------------------------------
(* The ring.                                                               *)

(* The frames of the overlays before this one. *)
Base == (bounds.overlays - 1) * ClipFrames

(* Frame j of this overlay is in its cell. *)
Kept(j) == over.cells[j % OverlayCapacity] = Base + j + 1

(* The ring holds what was sent and not mixed yet. *)
Filled ==
  /\ over.read <= over.write /\ over.write <= over.read + OverlayCapacity
  /\ over.write = native.sent
  /\ \A j \in over.read..(over.write - 1) : Kept(j)

(* What was mixed is what was read, or will be when the position is stored. *)
Reader ==
  /\ sounded.last = Base + over.read + (IF mixer.at = "store" THEN mixer.got ELSE 0)
  /\ mixer.at \in {"write", "copy", "store"} => mixer.read = over.read
  /\ mixer.at \in {"copy", "store"} => over.read + mixer.got <= over.write

(* The piece on its way in is within the overlay, within the room that was  *)
(* seen for it, and does not go over the end of the memory.                *)
Writer ==
  /\ native.sent + native.piece <= ClipFrames
  /\ native.at \in {"active", "publish"} => native.sent = 0
  /\ native.at # "store" => native.piece = 0
  /\ native.at = "store" =>
       /\ native.start = over.write
       /\ (native.start % OverlayCapacity) + native.piece <= OverlayCapacity
       /\ native.start + native.piece <= over.read + OverlayCapacity

(* An overlay is under way, or none. *)
Live == Filled /\ Reader /\ Writer

Dead == ~over.active /\ native.at # "active" /\ mixer.at \notin Reading

InRing == ~torn => sounded.right /\ (Live \/ Dead)

LEMMA Sizes ==
  /\ OverlayCapacity \in Nat \ {0} /\ ClipFrames \in Nat /\ MixFrames \in Nat
  /\ Word \in Nat \ {0} /\ Word > ClipFrames + MixFrames
  BY OverlayAssumption, WordIsLong

LEMMA BaseIsWhole ==
  ASSUME OverlayTypes
  PROVE  Base \in Int
  BY Sizes DEF OverlayTypes, Base

LEMMA BaseStays ==
  ASSUME bounds'.overlays = bounds.overlays
  PROVE  Base' = Base
  BY DEF Base

LEMMA FilledStays ==
  ASSUME OverlayTypes, Filled, Base' = Base,
         over'.cells = over.cells, over'.write = over.write, native'.sent = native.sent,
         over'.read \in Nat, over.read <= over'.read, over'.read <= over.write
  PROVE  Filled'
<1>1. \A j \in over'.read..(over'.write - 1) : j \in over.read..(over.write - 1)
  BY DEF OverlayTypes
<1>2. \A j \in over'.read..(over'.write - 1) : Kept(j)'
  BY <1>1 DEF Filled, Kept
<1>3. /\ over'.read <= over'.write /\ over'.write <= over'.read + OverlayCapacity
      /\ over'.write = native'.sent
  BY Sizes DEF Filled, OverlayTypes
<1> QED
  BY <1>2, <1>3 DEF Filled

LEMMA RingStarts == OverlayInit => InRing
<1> SUFFICES ASSUME OverlayInit PROVE InRing
  OBVIOUS
<1> QED
  BY DEF OverlayInit, InRing, Dead, Reading, IdleMusic, IdleNative

(* What the actions that only move a position of their own have in common. *)
LEMMA RingStays ==
  ASSUME OverlayTypes, InRing, torn' = torn, Base' = Base,
         over'.cells = over.cells, over'.write = over.write, over'.read = over.read,
         native' = native, sounded' = sounded,
         over.active \/ ~over'.active,
         mixer'.at \notin Reading \/ (mixer'.at = "read" /\ over.active),
         mixer.at # "store"
  PROVE  InRing'
<1>1. CASE torn
  BY <1>1 DEF InRing
<1>2. CASE ~torn /\ Dead
  BY <1>2 DEF InRing, Dead
<1>3. CASE ~torn /\ Live
  <2>1. Filled'
    BY <1>3, FilledStays DEF Live, Filled, OverlayTypes
  <2>2. Reader'
    BY <1>3 DEF Live, Reader, Reading
  <2>3. Writer'
    BY <1>3 DEF Live, Writer
  <2> QED
    BY <1>3, <2>1, <2>2, <2>3 DEF InRing, Live
<1> QED
  BY <1>1, <1>2, <1>3 DEF InRing

LEMMA MusicInRing ==
  ASSUME OverlayTypes, OverlayTypes', InRing, MusicTask
  PROVE  InRing'
<1>0. Base' = Base
  BY BaseStays DEF MusicTask, RefreshBegins, ReadVoiceDuck, SetTarget, CheckOverlay, LoadRead,
     LoadWrite, MixOverlay, StoreRead
<1>1. CASE RefreshBegins
  BY <1>0, <1>1, RingStays DEF RefreshBegins, OverlayTypes, Reading
<1>2. CASE ReadVoiceDuck
  BY <1>0, <1>2, RingStays DEF ReadVoiceDuck, OverlayTypes, Reading
<1>3. CASE SetTarget
  BY <1>0, <1>3, RingStays DEF SetTarget, OverlayTypes, Reading
<1>4. CASE CheckOverlay
  BY <1>0, <1>4, RingStays DEF CheckOverlay, IdleMusic, OverlayTypes, Reading
<1>t. CASE torn /\ (LoadRead \/ LoadWrite \/ MixOverlay \/ StoreRead)
  BY <1>t DEF InRing, LoadRead, LoadWrite, MixOverlay, StoreRead
<1> SUFFICES ASSUME ~torn, LoadRead \/ LoadWrite \/ MixOverlay \/ StoreRead
             PROVE  InRing'
  BY <1>1, <1>2, <1>3, <1>4, <1>t DEF MusicTask
<1>n. /\ over.read \in Nat /\ over.write \in Nat /\ mixer.read \in Nat /\ mixer.got \in Nat
      /\ native.sent \in Nat /\ native.start \in Nat /\ native.piece \in Nat /\ Base \in Int
  BY BaseIsWhole DEF OverlayTypes
<1>5. sounded.right /\ Live
  BY DEF InRing, Dead, Reading, LoadRead, LoadWrite, MixOverlay, StoreRead
<1>6. over.read <= over.write /\ over.write <= ClipFrames
  <2>1. over.read <= over.write /\ over.write = native.sent
    BY <1>5 DEF Live, Filled
  <2>2. native.sent + native.piece <= ClipFrames
    BY <1>5 DEF Live, Writer
  <2> QED
    BY <1>n, <2>1, <2>2, Sizes
<1>7. CASE LoadRead
  <2>1. Filled'
    BY <1>0, <1>5, <1>6, <1>7, FilledStays DEF LoadRead, Live, OverlayTypes
  <2>2. Reader' /\ Writer'
    BY <1>0, <1>5, <1>7 DEF LoadRead, Live, Reader, Writer, OverlayTypes
  <2> QED
    BY <1>5, <1>7, <2>1, <2>2 DEF LoadRead, InRing, Live
<1>8. CASE LoadWrite
  <2> DEFINE available == (over.write + Word - mixer.read) % Word
             got == IF available < MixFrames THEN available ELSE MixFrames
  <2>1. mixer.read = over.read
    BY <1>5, <1>8 DEF LoadWrite, Live, Reader
  <2>2. /\ over.write - over.read \in Nat /\ over.write - over.read < Word
        /\ over.write + Word - mixer.read = (over.write - over.read) + Word
    BY <1>n, <1>6, <2>1, Sizes
  <2>3. available = over.write - over.read
    BY <2>2, Fits, Sizes
  <2> HIDE DEF available
  <2>4. got \in Nat /\ over.read + got <= over.write
    BY <1>n, <2>2, <2>3, Sizes
  <2>5. mixer' = [mixer EXCEPT !.at = "copy", !.got = got]
    BY <1>8 DEF LoadWrite, available
  <2> HIDE DEF got
  <2>6. Filled'
    BY <1>0, <1>5, <1>6, <1>8, FilledStays DEF LoadWrite, Live, OverlayTypes
  <2>7. Reader'
    BY <1>0, <1>5, <1>8, <2>1, <2>4, <2>5 DEF LoadWrite, Live, Reader, OverlayTypes
  <2>8. Writer'
    BY <1>5, <1>8 DEF LoadWrite, Live, Writer
  <2> QED
    BY <1>5, <1>8, <2>6, <2>7, <2>8 DEF LoadWrite, InRing, Live
<1>9. CASE MixOverlay
  <2> DEFINE cell(i) == over.cells[(mixer.read + i - 1) % OverlayCapacity]
  <2>1. mixer.read = over.read /\ over.read + mixer.got <= over.write /\ mixer.at = "copy"
    BY <1>5, <1>9 DEF MixOverlay, Live, Reader
  <2>2. sounded.last = Base + over.read
    BY <1>n, <1>5, <2>1 DEF Live, Reader
  <2>3. \A i \in 1..mixer.got : cell(i) = sounded.last + i
    <3> TAKE i \in 1..mixer.got
    <3>1. over.read + i - 1 \in over.read..(over.write - 1)
      BY <1>n, <2>1
    <3>2. Kept(over.read + i - 1)
      BY <1>5, <3>1 DEF Live, Filled
    <3>3. cell(i) = Base + (over.read + i - 1) + 1
      BY <2>1, <3>2 DEF Kept
    <3> QED
      BY <1>n, <2>2, <3>3
  <2>4. sounded' = IF mixer.got = 0 THEN sounded
                   ELSE [last  |-> cell(mixer.got),
                         right |-> /\ sounded.right
                                   /\ \A i \in 1..mixer.got : cell(i) = sounded.last + i]
    BY <1>9 DEF MixOverlay
  <2> HIDE DEF cell
  <2>5. sounded'.right /\ sounded'.last = sounded.last + mixer.got
    <3>1. CASE mixer.got = 0
      BY <1>n, <1>5, <2>2, <2>4, <3>1
    <3>2. CASE mixer.got # 0
      <4>1. mixer.got \in 1..mixer.got
        BY <1>n, <3>2
      <4> QED
        BY <1>5, <2>3, <2>4, <3>2, <4>1
    <3> QED
      BY <3>1, <3>2
  <2>6. /\ mixer'.at = "store" /\ mixer'.got = mixer.got /\ mixer'.read = mixer.read
        /\ UNCHANGED <<over, native, torn>>
    BY <1>9 DEF MixOverlay, OverlayTypes
  <2>7. Filled'
    BY <1>0, <1>5, <1>6, <2>6, FilledStays DEF Live, OverlayTypes
  <2>8. Reader'
    BY <1>0, <2>1, <2>2, <2>5, <2>6 DEF Reader
  <2>9. Writer'
    BY <1>5, <2>6 DEF Live, Writer
  <2> QED
    BY <2>5, <2>6, <2>7, <2>8, <2>9 DEF InRing, Live
<1>10. CASE StoreRead
  <2>1. mixer.read = over.read /\ over.read + mixer.got <= over.write /\ mixer.at = "store"
    BY <1>5, <1>10 DEF StoreRead, Live, Reader
  <2>2. sounded.last = Base + over.read + mixer.got
    BY <1>5, <2>1 DEF Live, Reader
  <2>3. mixer.read + mixer.got \in Nat /\ mixer.read + mixer.got < Word
    BY <1>n, <1>6, <2>1, Sizes
  <2>4. (mixer.read + mixer.got) % Word = over.read + mixer.got
    BY <2>1, <2>3, Fits, Sizes
  <2>5. /\ over'.read = over.read + mixer.got
        /\ over'.cells = over.cells /\ over'.write = over.write
        /\ mixer' = IdleMusic /\ UNCHANGED <<native, sounded, torn>>
    BY <1>10, <2>4 DEF StoreRead, OverlayTypes
  <2>6. over.read <= over'.read /\ over'.read <= over.write /\ over'.read \in Nat
    BY <2>1, <2>5 DEF OverlayTypes
  <2>7. Filled'
    BY <1>0, <1>5, <2>5, <2>6, FilledStays DEF Live
  <2>8. Reader'
    BY <1>n, <1>0, <2>2, <2>5 DEF Reader, IdleMusic
  <2>9. Writer'
    <3>1. CASE native.at = "store"
      <4>1. native.start + native.piece <= over'.read + OverlayCapacity
        <5>1. native.start + native.piece <= over.read + OverlayCapacity
          BY <1>5, <3>1 DEF Live, Writer
        <5> QED
          BY <1>n, <2>6, <5>1, Sizes
      <4> QED
        BY <1>5, <2>5, <3>1, <4>1 DEF Live, Writer
    <3>2. CASE native.at # "store"
      BY <1>5, <2>5, <3>2 DEF Live, Writer
    <3> QED
      BY <3>1, <3>2
  <2> QED
    BY <1>5, <2>5, <2>7, <2>8, <2>9 DEF InRing, Live
<1> QED
  BY <1>7, <1>8, <1>9, <1>10

(* What the actions have in common that leave the mixer and the clip alone. *)
LEMMA RingRests ==
  ASSUME OverlayTypes, InRing, torn' = torn, Base' = Base,
         over'.cells = over.cells, over'.write = over.write, over'.read = over.read,
         native' = native, sounded' = sounded, mixer' = mixer,
         over.active \/ ~over'.active
  PROVE  InRing'
<1>1. CASE torn
  BY <1>1 DEF InRing
<1>2. CASE ~torn /\ Dead
  BY <1>2 DEF InRing, Dead
<1>3. CASE ~torn /\ Live
  <2>1. Filled'
    BY <1>3, FilledStays DEF Live, Filled, OverlayTypes
  <2>2. Reader' /\ Writer'
    BY <1>3 DEF Live, Reader, Writer
  <2> QED
    BY <1>3, <2>1, <2>2 DEF InRing, Live
<1> QED
  BY <1>1, <1>2, <1>3 DEF InRing

(* And those that move the clip on without writing. *)
LEMMA ClipMoves ==
  ASSUME OverlayTypes, InRing, torn' = torn, Base' = Base,
         over'.cells = over.cells, over'.write = over.write, over'.read = over.read,
         sounded' = sounded, mixer' = mixer,
         native'.sent = native.sent, native'.piece = native.piece, native.at # "store",
         native'.at \notin {"active", "store"}, native'.at = "publish" => native.at = "active",
         native.at = "active" \/ over.active \/ ~over'.active
  PROVE  InRing'
<1>1. CASE torn
  BY <1>1 DEF InRing
<1>2. CASE ~torn /\ Dead
  BY <1>2 DEF InRing, Dead
<1>3. CASE ~torn /\ Live
  <2>1. Filled'
    BY <1>3, FilledStays DEF Live, Filled, OverlayTypes
  <2>2. Reader' /\ Writer'
    BY <1>3 DEF Live, Reader, Writer
  <2> QED
    BY <1>3, <2>1, <2>2 DEF InRing, Live
<1> QED
  BY <1>1, <1>2, <1>3 DEF InRing

LEMMA BeginInRing ==
  ASSUME OverlayTypes, OverlayTypes', BeginClip
  PROVE  InRing'
<1> SUFFICES ASSUME ~torn' PROVE sounded'.right /\ Live'
  BY DEF InRing
<1>1. /\ over'.read = 0 /\ over'.write = 0 /\ mixer'.at \notin Reading
      /\ native'.at = "active" /\ native'.sent = 0 /\ native'.piece = 0
      /\ sounded'.right /\ sounded'.last = bounds.overlays * ClipFrames
      /\ bounds'.overlays = bounds.overlays + 1
  BY DEF BeginClip, IdleNative, Reading, OverlayTypes
<1>0. bounds.overlays \in Nat
  BY DEF OverlayTypes
<1>2. (bounds.overlays + 1) - 1 = bounds.overlays
  BY <1>0
<1>3. Base' = bounds.overlays * ClipFrames
  BY <1>1, <1>2 DEF Base
<1>4. sounded'.last = Base' + 0 + 0
  <2>1. Base' \in Int
    BY <1>0, <1>3, Sizes
  <2> QED
    BY <1>1, <1>3, <2>1
<1>5. Filled'
  BY <1>1, Sizes DEF Filled
<1>6. Reader'
  BY <1>1, <1>4 DEF Reader, Reading
<1>7. Writer'
  BY <1>1, Sizes DEF Writer
<1> QED
  BY <1>1, <1>5, <1>6, <1>7 DEF Live

LEMMA PieceInRing ==
  ASSUME OverlayTypes, OverlayTypes', InRing, WritePiece
  PROVE  InRing'
<1>0. Base' = Base /\ torn' = torn
  BY BaseStays DEF WritePiece
<1>n. /\ over.read \in Nat /\ over.write \in Nat /\ native.sent \in Nat
  BY DEF OverlayTypes
<1> SUFFICES ASSUME ~torn PROVE InRing'
  BY <1>0 DEF InRing
<1>1. sounded.right /\ Live
  BY DEF InRing, Dead, WritePiece
<1>2. /\ over.read <= over.write /\ over.write = native.sent
      /\ over.write <= over.read + OverlayCapacity
  BY <1>1 DEF Live, Filled
<1> DEFINE used  == (over.write + Word - over.read) % Word
           space == IF used < OverlayCapacity THEN OverlayCapacity - used ELSE 0
<1>3. PICK k \in 1..ClipFrames - native.sent :
        /\ k <= space /\ k <= OverlayCapacity - (over.write % OverlayCapacity)
        /\ native' = [native EXCEPT !.at = "store", !.start = over.write, !.piece = k]
        /\ over' = [over EXCEPT !.write = (@ + Announced(k)) % Word]
  BY DEF WritePiece
<1>4. k \in Nat /\ k > 0 /\ native.sent + k <= ClipFrames
  BY <1>n, <1>3, Sizes
<1>5. /\ over.write - over.read \in Nat /\ over.write - over.read < Word
      /\ over.write + Word - over.read = (over.write - over.read) + Word
      /\ over.write < Word
  BY <1>n, <1>2, <1>4, Sizes
<1>6. used = over.write - over.read /\ over.write % Word = over.write
  BY <1>n, <1>5, Fits, Sizes
<1>7. over.write + k <= over.read + OverlayCapacity
  <2> HIDE DEF used
  <2>1. CASE used < OverlayCapacity
    BY <1>n, <1>2, <1>3, <1>4, <1>6, <2>1, Sizes
  <2>2. CASE ~(used < OverlayCapacity)
    BY <1>3, <1>4, <2>2
  <2> QED
    BY <2>1, <2>2
<1> HIDE DEF used, space
<1>8. (over.write % OverlayCapacity) + k <= OverlayCapacity
  <2>1. over.write % OverlayCapacity \in Nat
    BY <1>n, Division, Sizes
  <2> HIDE DEF space
  <2> QED
    BY <1>3, <1>4, <2>1, Sizes
<1>9. over' = [over EXCEPT !.write = over.write]
  <2>1. over.write + Announced(k) = over.write
    BY <1>n DEF Announced
  <2> QED
    BY <1>3, <1>6, <2>1
<1>10. /\ over'.read = over.read /\ over'.write = over.write /\ over'.cells = over.cells
       /\ native'.at = "store" /\ native'.start = over.write
       /\ native'.piece = k /\ native'.sent = native.sent
       /\ UNCHANGED <<mixer, sounded>>
  BY <1>3, <1>9 DEF WritePiece, OverlayTypes
<1>11. Filled'
  BY <1>0, <1>n, <1>1, <1>2, <1>10, FilledStays DEF Live
<1>12. Reader'
  BY <1>0, <1>1, <1>10 DEF Live, Reader
<1>13. Writer'
  BY <1>4, <1>7, <1>8, <1>10 DEF Writer
<1> QED
  BY <1>1, <1>10, <1>11, <1>12, <1>13 DEF InRing, Live

LEMMA StoreInRing ==
  ASSUME OverlayTypes, OverlayTypes', InRing, StoreWrite
  PROVE  InRing'
<1>0. Base' = Base /\ torn' = torn
  BY BaseStays DEF StoreWrite
<1>n. /\ over.read \in Nat /\ over.write \in Nat /\ native.sent \in Nat /\ native.piece \in Nat
      /\ Base \in Int /\ DOMAIN over.cells = 0..OverlayCapacity - 1
  BY BaseIsWhole DEF OverlayTypes
<1>1. CASE torn
  BY <1>0, <1>1 DEF InRing
<1>2. CASE ~torn /\ Dead
  BY <1>2 DEF InRing, Dead, StoreWrite, OverlayTypes
<1>3. CASE ~torn /\ Live
  <2>1. /\ over.read <= over.write /\ over.write = native.sent
        /\ \A j \in over.read..(over.write - 1) : Kept(j)
    BY <1>3 DEF Live, Filled
  <2>2. /\ native.sent + native.piece <= ClipFrames /\ native.start = over.write
        /\ (native.start % OverlayCapacity) + native.piece <= OverlayCapacity
        /\ native.start + native.piece <= over.read + OverlayCapacity
    BY <1>3 DEF Live, Writer, StoreWrite
  <2> DEFINE p == native.piece  w == over.write  at == w % OverlayCapacity
  <2>3. p \in Nat /\ w \in Nat /\ at \in 0..OverlayCapacity - 1
    BY <1>n, Division, Sizes
  <2>4. (native.start + native.piece) % Word = w + p
    <3>1. w + p \in Nat /\ w + p < Word
      BY <1>n, <2>1, <2>2, Sizes
    <3> QED
      BY <2>2, <3>1, Fits, Sizes
  <2>5. /\ over'.read = over.read /\ over'.write = w + p
        /\ native'.at = "write" /\ native'.sent = native.sent + p /\ native'.piece = 0
        /\ UNCHANGED <<mixer, sounded>>
    BY <2>4 DEF StoreWrite, OverlayTypes
  <2>6. \A i \in 0..OverlayCapacity - 1 :
          over'.cells[i] = IF i - at \in 0..p - 1 THEN Base + native.sent + (i - at) + 1
                                                  ELSE over.cells[i]
    <3>1. over'.cells = [i \in DOMAIN over.cells |->
             IF i - (native.start % OverlayCapacity) \in 0..native.piece - 1
             THEN Base + native.sent + (i - (native.start % OverlayCapacity)) + 1
             ELSE over.cells[i]]
      BY DEF StoreWrite, OverlayTypes, Base
    <3> QED
      BY <1>n, <2>2, <3>1
  <2>7. ASSUME NEW j \in over.read..(w + p - 1)
        PROVE  Kept(j)'
    <3>0. j \in Nat /\ over.read <= j /\ j < w + p
      BY <1>n, <2>3
    <3>1. j \in Nat /\ j % OverlayCapacity \in 0..OverlayCapacity - 1
      BY <3>0, Division, Sizes
    <3>2. CASE j < w
      <4>1. Kept(j)
        BY <1>n, <2>1, <3>1, <3>2
      <4>2. ASSUME (j % OverlayCapacity) - at \in 0..p - 1
            PROVE  FALSE
        <5> DEFINE d == (j % OverlayCapacity) - at
        <5>1. d \in Nat /\ d < p /\ at + d = j % OverlayCapacity
          BY <2>3, <3>1, <4>2, Sizes
        <5> HIDE DEF d
        <5>2. (w % OverlayCapacity) + d < OverlayCapacity
          BY <2>2, <2>3, <5>1, Sizes
        <5>3. (w + d) % OverlayCapacity = j % OverlayCapacity
          BY <2>3, <5>1, <5>2, Further, Sizes
        <5>a. w + p <= over.read + OverlayCapacity
          BY <1>n, <2>2, <2>3, Sizes
        <5>4. j < w + d /\ (w + d) - j < OverlayCapacity /\ w + d \in Nat
          BY <1>n, <2>3, <3>0, <3>2, <5>1, <5>a, Sizes, WithinRing
        <5> QED
          BY <3>1, <5>3, <5>4, Apart, Sizes
      <4>3. over'.cells[j % OverlayCapacity] = over.cells[j % OverlayCapacity]
        BY <2>6, <3>1, <4>2
      <4> QED
        BY <1>0, <4>1, <4>3 DEF Kept
    <3>3. CASE ~(j < w)
      <4> DEFINE d == j - w
      <4>1. d \in Nat /\ d < p /\ j = w + d
        BY <1>n, <2>3, <3>1, <3>3
      <4> HIDE DEF d
      <4>2. (w % OverlayCapacity) + d < OverlayCapacity
        BY <2>2, <2>3, <4>1, Sizes
      <4>3. j % OverlayCapacity = at + d
        BY <2>3, <4>1, <4>2, Further, Sizes
      <4>4. (j % OverlayCapacity) - at = d
        BY <2>3, <4>1, <4>3, Sizes
      <4>5. over'.cells[j % OverlayCapacity] = Base + native.sent + d + 1
        BY <2>3, <2>6, <3>1, <4>1, <4>4
      <4>6. Base + native.sent + d + 1 = Base + j + 1
        BY <1>n, <2>1, <4>1
      <4> QED
        BY <1>0, <4>5, <4>6 DEF Kept
    <3> QED
      BY <3>2, <3>3
  <2>8. Filled'
    <3>1. over'.read <= over'.write /\ over'.write <= over'.read + OverlayCapacity
      BY <1>n, <2>1, <2>2, <2>3, <2>5, Sizes
    <3> QED
      <4>1. over'.read = over.read /\ over'.write - 1 = w + p - 1
        BY <2>3, <2>5
      <4>2. \A j \in over'.read..(over'.write - 1) : Kept(j)'
        BY <2>7, <4>1
      <4> QED
        BY <2>1, <2>5, <3>1, <4>2 DEF Filled
  <2>9. Reader'
    <3>1. mixer.at \in {"copy", "store"} => over.read + mixer.got <= w + p
      <4>1. mixer.got \in Nat
        BY DEF OverlayTypes
      <4>2. mixer.at \in {"copy", "store"} => over.read + mixer.got <= w
        BY <1>3 DEF Live, Reader
      <4> QED
        BY <1>n, <2>3, <4>1, <4>2
    <3> QED
      BY <1>0, <1>3, <2>5, <3>1 DEF Live, Reader
  <2>10. Writer'
    <3>1. native.sent + p + 0 <= ClipFrames
      BY <1>n, <2>2, Sizes
    <3> QED
      BY <2>5, <3>1 DEF Writer
  <2> QED
    BY <1>3, <2>5, <2>8, <2>9, <2>10 DEF InRing, Live
<1> QED
  BY <1>1, <1>2, <1>3 DEF InRing

LEMMA NativeInRing ==
  ASSUME OverlayTypes, OverlayTypes', InRing, NativeTask
  PROVE  InRing'
<1>1. CASE BeginClip
  BY <1>1, BeginInRing
<1>2. CASE WritePiece
  BY <1>2, PieceInRing
<1>3. CASE StoreWrite
  BY <1>3, StoreInRing
<1>4. CASE ActivateClip
  <2>1. Base' = Base
    BY <1>4, BaseStays DEF ActivateClip
  <2> QED
    BY <1>4, <2>1, ClipMoves DEF ActivateClip, OverlayTypes
<1>5. CASE PublishClip
  <2>1. Base' = Base
    BY <1>5, BaseStays DEF PublishClip
  <2>2. CASE native.was
    <3>1. /\ UNCHANGED <<over, mixer, sounded, torn>> /\ native.at = "publish"
          /\ native' = IdleNative
      BY <1>5, <2>2 DEF PublishClip
    <3>2. CASE ~torn /\ Live
      <4>1. native.sent = 0
        BY <3>1, <3>2 DEF Live, Writer
      <4>2. Filled'
        BY <2>1, <3>1, <3>2, <4>1, FilledStays DEF Live, Filled, OverlayTypes, IdleNative
      <4>3. Reader' /\ Writer'
        BY <2>1, <3>1, <3>2, Sizes DEF Live, Reader, Writer, IdleNative
      <4> QED
        BY <3>1, <3>2, <4>2, <4>3 DEF InRing, Live
    <3>3. CASE ~(~torn /\ Live)
      BY <3>1, <3>3 DEF InRing, Dead, IdleNative
    <3> QED
      BY <3>2, <3>3
  <2>3. CASE ~native.was
    <3>1. native' = [native EXCEPT !.at = "write"]
      BY <1>5, <2>3 DEF PublishClip
    <3>2. native.at = "publish" /\ native'.at = "write"
          /\ native'.sent = native.sent /\ native'.piece = native.piece
      BY <1>5, <3>1 DEF PublishClip, OverlayTypes
    <3>3. UNCHANGED <<over, mixer, sounded, torn>>
      BY <1>5 DEF PublishClip
    <3> QED
      BY <2>1, <3>2, <3>3, ClipMoves
  <2> QED
    BY <2>2, <2>3
<1>6. CASE EndClip
  <2>1. Base' = Base
    BY <1>6, BaseStays DEF EndClip
  <2> QED
    BY <1>6, <2>1, ClipMoves DEF EndClip, OverlayTypes
<1>7. CASE ClipDrained
  <2>1. Base' = Base
    BY <1>7, BaseStays DEF ClipDrained
  <2> QED
    BY <1>7, <2>1, ClipMoves DEF ClipDrained, OverlayTypes
<1>8. CASE ClipFinished
  <2>1. Base' = Base
    BY <1>8, BaseStays DEF ClipFinished
  <2> QED
    BY <1>8, <2>1, ClipMoves DEF ClipFinished, OverlayTypes
<1>9. CASE StopClip
  <2>1. Base' = Base
    BY <1>9, BaseStays DEF StopClip
  <2> QED
    BY <1>9, <2>1, ClipMoves DEF StopClip, OverlayTypes
<1>10. CASE ResetClip
  <2>1. native'.at # "active" /\ UNCHANGED <<mixer, sounded>> /\ over'.active = over.active
    BY <1>10 DEF ResetClip, ResetOverlay, IdleNative, OverlayTypes
  <2>2. torn' = (torn \/ over.active \/ mixer.at \in {"read", "write", "copy", "store"})
    BY <1>10 DEF ResetClip, ResetOverlay
  <2> QED
    BY <2>1, <2>2 DEF InRing, Dead, Reading
<1> QED
  BY <1>1, <1>2, <1>3, <1>4, <1>5, <1>6, <1>7, <1>8, <1>9, <1>10 DEF NativeTask

LEMMA ResetSongsInRing ==
  ASSUME OverlayTypes, OverlayTypes', InRing, ResetSongs
  PROVE  InRing'
<1>1. /\ UNCHANGED <<mixer, native, sounded>> /\ over'.active = over.active
      /\ over'.cells = over.cells /\ over'.read = 0 /\ over'.write = 0
      /\ bounds' = bounds
  BY DEF ResetSongs, ResetOverlay, OverlayTypes
<1>2. torn' = (torn \/ over.active \/ mixer.at \in {"read", "write", "copy", "store"})
  BY DEF ResetSongs, ResetOverlay
<1>3. CASE native.at # "active"
  BY <1>1, <1>2, <1>3 DEF InRing, Dead, Reading
<1>4. CASE torn'
  BY <1>4 DEF InRing
<1>5. CASE native.at = "active" /\ ~torn'
  <2>1. ~torn /\ sounded.right /\ Live
    BY <1>2, <1>5 DEF InRing, Dead
  <2>2. over.write = 0 /\ over.read = 0
    <3>1. over.read <= over.write /\ over.write = native.sent /\ native.sent = 0
      BY <1>5, <2>1 DEF Live, Filled, Writer
    <3>2. over.read \in Nat
      BY DEF OverlayTypes
    <3> QED
      BY <3>1, <3>2
  <2>3. Base' = Base
    BY <1>1, BaseStays
  <2>4. Filled'
    BY <1>1, <2>1, <2>2, <2>3, FilledStays DEF Live, Filled, OverlayTypes
  <2>5. Reader' /\ Writer'
    BY <1>1, <2>1, <2>2, <2>3 DEF Live, Reader, Writer
  <2> QED
    BY <1>1, <2>1, <2>4, <2>5 DEF InRing, Live
<1> QED
  BY <1>3, <1>4, <1>5

LEMMA RingKept ==
  ASSUME OverlayTypes, OverlayTypes', InRing, [OverlayNext]_overlaying
  PROVE  InRing'
<1>1. CASE MusicTask
  BY <1>1, MusicInRing
<1>2. CASE NativeTask
  BY <1>2, NativeInRing
<1>3. CASE ResetSongs
  BY <1>3, ResetSongsInRing
<1>4. CASE \/ SongsBegin \/ SongsEnd \/ PublishSongs \/ SongsOff
           \/ SetVoiceDuck \/ PublishVoiceDuck \/ UNCHANGED overlaying
  <2>1. bounds'.overlays = bounds.overlays
    BY <1>4 DEF SongsBegin, SongsEnd, PublishSongs, SongsOff, SetVoiceDuck, PublishVoiceDuck,
       overlaying, OverlayTypes
  <2>2. Base' = Base
    BY <2>1, BaseStays
  <2>3. /\ over'.cells = over.cells /\ over'.write = over.write /\ over'.read = over.read
        /\ over.active \/ ~over'.active
        /\ UNCHANGED <<native, sounded, mixer, torn>>
    BY <1>4 DEF SongsBegin, SongsEnd, PublishSongs, SongsOff, SetVoiceDuck, PublishVoiceDuck,
       overlaying, OverlayTypes
  <2> QED
    BY <2>2, <2>3, RingRests
<1> QED
  BY <1>1, <1>2, <1>3, <1>4 DEF OverlayNext, SongsTask

OverlayInv == DuckInv /\ InRing

LEMMA OverlayInvariant == OverlaySpec => []OverlayInv
<1>1. OverlayInit => OverlayInv
  BY OverlayStarts, RingStarts DEF OverlayInv
<1>2. ASSUME OverlayInv, [OverlayNext]_overlaying
      PROVE  OverlayInv'
  BY <1>2, OverlayTypesKept, DuckKept, RingKept DEF OverlayInv, DuckInv
<1> QED
  BY <1>1, <1>2, PTL DEF OverlaySpec

(* Once every change of a wish is published and the music's task has seen  *)
(* the last, the music is ducked exactly when somebody wants it.           *)
THEOREM DuckIsCurrent == OverlaySpec => []DuckCurrent
<1>1. OverlayInv => DuckCurrent
  BY DEF OverlayInv, DuckInv
<1> QED
  BY <1>1, OverlayInvariant, PTL

(* The overlay is mixed frame by frame, unless the ring was reset under a  *)
(* reader.                                                                 *)
THEOREM OverlayKeepsOrder == OverlaySpec => []OverlayInOrder
<1>1. OverlayInv => OverlayInOrder
  BY DEF OverlayInv, InRing, OverlayInOrder
<1> QED
  BY <1>1, OverlayInvariant, PTL

-----------------------------------------------------------------------------
(* The types of the overlay.                                               *)

Rings ==
  [active : BOOLEAN, read : Positions, write : Positions,
   cells : [0..OverlayCapacity - 1 -> Frames]]
Duckings == [voice : BOOLEAN, revision : Changes, active : BOOLEAN, seen : Changes]
Mixers ==
  [at : {"idle", "voice", "overlay", "check", "read", "write", "copy", "store"},
   revision : Changes, voice : BOOLEAN, read : Positions, got : 0..MixFrames]
Natives ==
  [at : {"idle", "active", "publish", "write", "store", "drain", "drained", "reset"},
   sent : 0..ClipFrames, start : Positions, piece : 0..ClipFrames, was : BOOLEAN]
Loops == [at : {"idle", "reset", "publish", "off"}, was : BOOLEAN]
Sounds == [last : Frames, right : BOOLEAN]
Counts == [overlays : 0..MaxOverlays, turns : 0..MaxTurns]

LEMMA OverlayTypesAre ==
  OverlayTypeOK <=>
    /\ over \in Rings /\ ducking \in Duckings /\ songs \in BOOLEAN
    /\ mixer \in Mixers /\ native \in Natives /\ loop \in Loops
    /\ ducker \in {"idle", "publish"} /\ sounded \in Sounds /\ torn \in BOOLEAN
    /\ bounds \in Counts
  BY DEF OverlayTypeOK, Rings, Duckings, Mixers, Natives, Loops, Sounds, Counts

LEMMA OverlayTypesNext ==
  OverlayTypeOK' <=>
    /\ over' \in Rings /\ ducking' \in Duckings /\ songs' \in BOOLEAN
    /\ mixer' \in Mixers /\ native' \in Natives /\ loop' \in Loops
    /\ ducker' \in {"idle", "publish"} /\ sounded' \in Sounds /\ torn' \in BOOLEAN
    /\ bounds' \in Counts
  BY DEF OverlayTypeOK, Rings, Duckings, Mixers, Natives, Loops, Sounds, Counts,
     Frames, Positions, Changes

(* The changes that a clip, the end of a stream and a wish of the voice    *)
(* are still going to publish.                                             *)
ClipOwes ==
  IF native.at = "active" \/ (native.at = "publish" /\ ~native.was) THEN 2
  ELSE IF \/ native.at \in {"publish", "write", "store", "drain", "drained"}
          \/ native.at = "reset" /\ native.was THEN 1
  ELSE 0
SongsOwe == IF loop.at = "publish" \/ (loop.at = "reset" /\ loop.was) THEN 1 ELSE 0
VoiceOwes == IF ducker = "publish" THEN 1 ELSE 0

(* A clip publishes twice, a wish and the end of a stream once, and a clip *)
(* writes no more than its frames.                                         *)
Published ==
  ducking.revision + ClipOwes + SongsOwe + VoiceOwes
    <= 2 * bounds.overlays + bounds.turns + 1
ClipFits ==
  /\ native.sent + native.piece <= ClipFrames
  /\ native.at # "store" => native.piece = 0
  /\ native.at # "idle" => bounds.overlays >= 1

LEMMA OverlaySizes ==
  /\ OverlayCapacity \in Nat \ {0} /\ ClipFrames \in Nat \ {0} /\ MixFrames \in Nat \ {0}
  /\ MaxOverlays \in Nat /\ MaxTurns \in Nat
  BY OverlayAssumption

LEMMA Product ==
  ASSUME NEW a \in Nat, NEW b \in Nat, NEW c \in Nat, a <= b
  PROVE  a * c \in Nat /\ a * c <= b * c
<1>1. a * c \in Nat /\ b * c \in Nat /\ b - a \in Nat
  OBVIOUS
<1>2. (b - a) * c \in Nat /\ (b - a) * c = b * c - a * c
  BY <1>1, Z3
<1> QED
  BY <1>1, <1>2

LEMMA ZerosFit ==
  /\ 0 \in Positions /\ 0 \in Changes /\ 0 \in Frames /\ 0 \in 0..ClipFrames
  /\ 0 \in 0..MixFrames /\ 0 \in 0..MaxOverlays /\ 0 \in 0..MaxTurns /\ 1 \in Changes
<1>1. MaxOverlays * ClipFrames \in Nat
  BY OverlaySizes, Product
<1> QED
  BY <1>1, OverlaySizes DEF Positions, Changes, Frames

LEMMA InPositions ==
  ASSUME NEW x \in Int
  PROVE  x % Word \in Positions
<1>1. Word \in Nat \ {0} /\ Positions = 0..Word - 1
  BY OverlaySizes DEF Word, Positions
<1> HIDE DEF Word, Positions
<1> QED
  BY <1>1

LEMMA IdlesFit == IdleMusic \in Mixers /\ IdleNative \in Natives
  BY ZerosFit DEF IdleMusic, IdleNative, Mixers, Natives

LEMMA OverlayStartsTyped == OverlayInit => OverlayTypeOK /\ Published /\ ClipFits
<1> SUFFICES ASSUME OverlayInit PROVE OverlayTypeOK /\ Published /\ ClipFits
  OBVIOUS
<1>1. over \in Rings /\ ducking \in Duckings /\ sounded \in Sounds
  BY ZerosFit DEF OverlayInit, Rings, Duckings, Sounds
<1>2. loop \in Loops /\ bounds \in Counts
  BY ZerosFit DEF OverlayInit, Loops, Counts
<1>3. OverlayTypeOK
  BY <1>1, <1>2, IdlesFit, OverlayTypesAre DEF OverlayInit
<1>4. Published /\ ClipFits
  BY OverlaySizes DEF OverlayInit, Published, ClipFits, ClipOwes, SongsOwe, VoiceOwes, IdleNative
<1> QED
  BY <1>3, <1>4

(* A revision within the bound of what may be published is in its range.   *)
LEMMA RevisionFits ==
  ASSUME OverlayTypeOK, Published, ClipOwes + SongsOwe + VoiceOwes > 0
  PROVE  ducking.revision + 1 \in Changes
<1>1. ducking.revision \in Nat /\ bounds.overlays \in 0..MaxOverlays /\ bounds.turns \in 0..MaxTurns
  BY OverlayTypesAre, OverlaySizes DEF Duckings, Counts, Changes
<1>2. ClipOwes \in Nat /\ SongsOwe \in Nat /\ VoiceOwes \in Nat
  BY DEF ClipOwes, SongsOwe, VoiceOwes
<1> QED
  BY <1>1, <1>2, OverlaySizes DEF Published, Changes

(* What the mix does to the types. *)
LEMMA MusicTyped ==
  ASSUME OverlayTypeOK, MusicTask
  PROVE  OverlayTypeOK'
<1>0. /\ over \in Rings /\ ducking \in Duckings /\ songs \in BOOLEAN
      /\ mixer \in Mixers /\ native \in Natives /\ loop \in Loops
      /\ ducker \in {"idle", "publish"} /\ sounded \in Sounds /\ torn \in BOOLEAN
      /\ bounds \in Counts
  BY OverlayTypesAre
<1>1. CASE RefreshBegins \/ ReadVoiceDuck \/ CheckOverlay \/ LoadRead
  <2>1. UNCHANGED <<over, ducking, songs, native, loop, ducker, sounded, torn, bounds>>
    BY <1>1 DEF RefreshBegins, ReadVoiceDuck, CheckOverlay, LoadRead
  <2>2. mixer' \in Mixers
    <3>1. CASE RefreshBegins
      BY <1>0, <3>1 DEF RefreshBegins, Mixers, Duckings
    <3>2. CASE ReadVoiceDuck
      BY <1>0, <3>2 DEF ReadVoiceDuck, Mixers, Duckings
    <3>3. CASE CheckOverlay
      BY <3>3, IdlesFit DEF CheckOverlay, Mixers
    <3>4. CASE LoadRead
      BY <1>0, <3>4 DEF LoadRead, Mixers, Rings
    <3> QED
      BY <1>1, <3>1, <3>2, <3>3, <3>4
  <2> QED
    BY <1>0, <2>1, <2>2, OverlayTypesNext
<1>2. CASE SetTarget
  <2>1. ducking' \in Duckings /\ mixer' \in Mixers
    BY <1>0, <1>2 DEF SetTarget, TakenFor, Duckings, Mixers, Rings
  <2> QED
    BY <1>0, <1>2, <2>1, OverlayTypesNext DEF SetTarget
<1>3. CASE LoadWrite
  <2> DEFINE available == (over.write + Word - mixer.read) % Word
             got == IF available < MixFrames THEN available ELSE MixFrames
  <2>1. mixer' = [mixer EXCEPT !.at = "copy", !.got = got]
        /\ UNCHANGED <<over, ducking, songs, native, loop, ducker, sounded, torn, bounds>>
    BY <1>3 DEF LoadWrite
  <2>2. over.write \in Nat /\ mixer.read \in Nat /\ Word \in Nat
    BY <1>0, OverlaySizes DEF Rings, Mixers, Positions, Word
  <2>3. available \in Nat
    <3>1. over.write + Word - mixer.read \in Int
      BY <2>2
    <3> QED
      BY <3>1, InWord
  <2> HIDE DEF available
  <2>4. got \in 0..MixFrames
    BY <2>3, OverlaySizes
  <2> HIDE DEF got
  <2>5. mixer' \in Mixers
    BY <1>0, <2>1, <2>4 DEF Mixers
  <2> QED
    BY <1>0, <2>1, <2>5, OverlayTypesNext
<1>4. CASE MixOverlay
  <2> DEFINE cell(i) == over.cells[(mixer.read + i - 1) % OverlayCapacity]
             right == /\ sounded.right
                      /\ \A i \in 1..mixer.got : cell(i) = sounded.last + i
  <2>1. /\ mixer' = [mixer EXCEPT !.at = "store"]
        /\ sounded' = IF mixer.got = 0 THEN sounded
                      ELSE [last |-> cell(mixer.got), right |-> right]
        /\ UNCHANGED <<over, ducking, songs, native, loop, ducker, torn, bounds>>
    BY <1>4 DEF MixOverlay
  <2>2. mixer' \in Mixers
    BY <1>0, <2>1 DEF Mixers
  <2>3. ASSUME mixer.got # 0 PROVE cell(mixer.got) \in Frames
    <3>1. mixer.read + mixer.got - 1 \in Nat
      BY <1>0, <2>3, OverlaySizes DEF Mixers, Positions
    <3>2. (mixer.read + mixer.got - 1) % OverlayCapacity \in 0..OverlayCapacity - 1
      BY <3>1, OverlaySizes, Division
    <3>3. over.cells \in [0..OverlayCapacity - 1 -> Frames]
      BY <1>0 DEF Rings
    <3> QED
      BY <3>2, <3>3
  <2>4. right \in BOOLEAN
    BY <1>0 DEF Sounds
  <2> HIDE DEF cell, right
  <2>5. sounded' \in Sounds
    BY <1>0, <2>1, <2>3, <2>4 DEF Sounds
  <2> QED
    BY <1>0, <2>1, <2>2, <2>5, OverlayTypesNext
<1>5. CASE StoreRead
  <2>1. (mixer.read + mixer.got) % Word \in Positions
    <3>1. mixer.read + mixer.got \in Int
      BY <1>0, OverlaySizes DEF Mixers, Positions
    <3> QED
      BY <3>1, InPositions
  <2>2. over' \in Rings
    BY <1>0, <1>5, <2>1 DEF StoreRead, Rings
  <2> QED
    BY <1>0, <1>5, <2>2, IdlesFit, OverlayTypesNext DEF StoreRead
<1> QED
  BY <1>1, <1>2, <1>3, <1>4, <1>5 DEF MusicTask

(* It publishes nothing, and the clip is not its own. *)
LEMMA MusicPublishesNot ==
  ASSUME OverlayTypeOK, Published, ClipFits, MusicTask
  PROVE  Published' /\ ClipFits'
<1>1. ducking'.revision = ducking.revision
  BY OverlayTypesAre DEF MusicTask, RefreshBegins, ReadVoiceDuck, SetTarget, CheckOverlay, LoadRead,
     LoadWrite, MixOverlay, StoreRead, Duckings
<1>2. UNCHANGED <<native, loop, ducker, bounds>>
  BY DEF MusicTask, RefreshBegins, ReadVoiceDuck, SetTarget, CheckOverlay, LoadRead,
     LoadWrite, MixOverlay, StoreRead
<1> QED
  BY <1>1, <1>2 DEF Published, ClipFits, ClipOwes, SongsOwe, VoiceOwes

(* What a clip does to the types. *)
LEMMA ClipTyped ==
  ASSUME OverlayTypeOK, Published, ClipFits, NativeTask
  PROVE  OverlayTypeOK'
<1>0. /\ over \in Rings /\ ducking \in Duckings /\ songs \in BOOLEAN
      /\ mixer \in Mixers /\ native \in Natives /\ loop \in Loops
      /\ ducker \in {"idle", "publish"} /\ sounded \in Sounds /\ torn \in BOOLEAN
      /\ bounds \in Counts
  BY OverlayTypesAre
<1>1. CASE BeginClip
  <2>1. bounds.overlays \in Nat /\ bounds.overlays + 1 \in 0..MaxOverlays
    BY <1>0, <1>1, OverlaySizes DEF BeginClip, Counts
  <2>2. bounds.overlays * ClipFrames \in Frames
    <3>1. /\ bounds.overlays * ClipFrames \in Nat
          /\ bounds.overlays * ClipFrames <= MaxOverlays * ClipFrames
      BY <2>1, OverlaySizes, Product
    <3>2. MaxOverlays * ClipFrames \in Nat
      BY OverlaySizes, Product
    <3> QED
      BY <3>1, <3>2 DEF Frames
  <2>3. over' \in Rings
    BY <1>0, <1>1, ZerosFit DEF BeginClip, Rings
  <2>4. native' \in Natives
    BY <1>1, IdlesFit DEF BeginClip, Natives
  <2>5. sounded' \in Sounds /\ torn' \in BOOLEAN
    BY <1>1, <2>2 DEF BeginClip, Sounds
  <2>6. bounds' \in Counts
    BY <1>0, <1>1, <2>1 DEF BeginClip, Counts
  <2> QED
    BY <1>0, <1>1, <2>3, <2>4, <2>5, <2>6, OverlayTypesNext DEF BeginClip
<1>2. CASE ActivateClip
  <2>1. over' \in Rings /\ native' \in Natives
    BY <1>0, <1>2 DEF ActivateClip, Rings, Natives
  <2> QED
    BY <1>0, <1>2, <2>1, OverlayTypesNext DEF ActivateClip
<1>3. CASE PublishClip
  <2>1. ClipOwes + SongsOwe + VoiceOwes > 0
    <3>1. ClipOwes \in {1, 2} /\ SongsOwe \in Nat /\ VoiceOwes \in Nat
      BY <1>3 DEF PublishClip, ClipOwes, SongsOwe, VoiceOwes
    <3> QED
      BY <3>1
  <2>2. ducking.revision + 1 \in Changes
    BY <2>1, RevisionFits
  <2>3. ducking' \in Duckings
    BY <1>0, <1>3, <2>2 DEF PublishClip, PublishDuck, Duckings
  <2>4. native' \in Natives
    BY <1>0, <1>3, IdlesFit DEF PublishClip, Natives
  <2> QED
    BY <1>0, <1>3, <2>3, <2>4, OverlayTypesNext DEF PublishClip
<1>4. CASE WritePiece
  <2>1. PICK k \in 1..ClipFrames - native.sent :
          /\ native' = [native EXCEPT !.at = "store", !.start = over.write, !.piece = k]
          /\ over' = [over EXCEPT !.write = (@ + Announced(k)) % Word]
    BY <1>4 DEF WritePiece
  <2>2. k \in 0..ClipFrames
    BY <1>0, OverlaySizes DEF Natives
  <2>3. over.write \in Positions /\ (over.write + Announced(k)) % Word \in Positions
    <3>1. over.write \in Positions /\ over.write + Announced(k) \in Int
      BY <1>0, OverlaySizes DEF Rings, Positions, Announced
    <3> QED
      BY <3>1, InPositions
  <2>4. native' \in Natives
    BY <1>0, <2>1, <2>2, <2>3 DEF Natives
  <2>5. over' \in Rings
    BY <1>0, <2>1, <2>3 DEF Rings
  <2> QED
    BY <1>0, <1>4, <2>4, <2>5, OverlayTypesNext DEF WritePiece
<1>5. CASE StoreWrite
  <2> DEFINE first == (bounds.overlays - 1) * ClipFrames + native.sent
             copied(i) == i - (native.start % OverlayCapacity)
             write == (native.start + native.piece) % Word
             cells == [i \in DOMAIN over.cells |-> IF copied(i) \in 0..native.piece - 1
                                                   THEN first + copied(i) + 1 ELSE over.cells[i]]
  <2>1. /\ over' = [over EXCEPT !.cells = cells, !.write = write]
        /\ native' = [native EXCEPT !.at = "write", !.sent = @ + native.piece,
                                    !.start = 0, !.piece = 0]
        /\ UNCHANGED <<ducking, songs, mixer, loop, ducker, sounded, torn, bounds>>
    BY <1>5 DEF StoreWrite
  <2>2. native.sent + native.piece \in 0..ClipFrames /\ native.sent \in Nat /\ native.piece \in Nat
    BY <1>0, OverlaySizes DEF ClipFits, Natives
  <2>3. write \in Positions
    <3>1. native.start + native.piece \in Int
      BY <1>0, OverlaySizes DEF Natives, Positions
    <3> QED
      BY <3>1, InPositions
  <2>4. first \in Nat /\ first + native.piece <= MaxOverlays * ClipFrames
        /\ MaxOverlays * ClipFrames \in Nat
    <3>1. bounds.overlays - 1 \in Nat /\ bounds.overlays - 1 + 1 <= MaxOverlays
      BY <1>0, <1>5, OverlaySizes DEF StoreWrite, ClipFits, Counts
    <3> DEFINE n == bounds.overlays - 1
    <3>2. n \in Nat /\ n + 1 <= MaxOverlays
      BY <3>1
    <3> HIDE DEF n
    <3>3. n * ClipFrames \in Nat /\ MaxOverlays * ClipFrames \in Nat
          /\ (n + 1) * ClipFrames <= MaxOverlays * ClipFrames
      BY <3>2, OverlaySizes, Product
    <3>4. (n + 1) * ClipFrames = n * ClipFrames + ClipFrames
      BY <3>2, OverlaySizes
    <3>5. first = n * ClipFrames + native.sent
      BY DEF n
    <3> HIDE DEF first
    <3> QED
      BY <2>2, <3>3, <3>4, <3>5, OverlaySizes
  <2>5. DOMAIN over.cells = 0..OverlayCapacity - 1
        /\ \A i \in 0..OverlayCapacity - 1 : over.cells[i] \in Frames
    BY <1>0 DEF Rings
  <2> HIDE DEF first, write
  <2>6. \A i \in 0..OverlayCapacity - 1 : cells[i] \in Frames
    <3> SUFFICES ASSUME NEW i \in 0..OverlayCapacity - 1 PROVE cells[i] \in Frames
      OBVIOUS
    <3> HIDE DEF copied
    <3>1. CASE copied(i) \in 0..native.piece - 1
      <4> DEFINE d == copied(i)
      <4>1. d \in 0..native.piece - 1 /\ cells[i] = first + d + 1
        BY <2>5, <3>1
      <4> HIDE DEF d
      <4> QED
        BY <2>2, <2>4, <4>1 DEF Frames
    <3>2. CASE copied(i) \notin 0..native.piece - 1
      BY <2>5, <3>2
    <3> QED
      BY <3>1, <3>2
  <2>7. cells \in [0..OverlayCapacity - 1 -> Frames]
    BY <2>5, <2>6
  <2> HIDE DEF cells
  <2>8. over' \in Rings
    BY <1>0, <2>1, <2>3, <2>7 DEF Rings
  <2>9. native' \in Natives
    BY <1>0, <2>1, <2>2, ZerosFit DEF Natives
  <2> QED
    BY <1>0, <2>1, <2>8, <2>9, OverlayTypesNext
<1>6. CASE EndClip \/ ClipDrained
  <2>1. native' \in Natives
    BY <1>0, <1>6 DEF EndClip, ClipDrained, Natives
  <2> QED
    BY <1>0, <1>6, <2>1, OverlayTypesNext DEF EndClip, ClipDrained
<1>7. CASE ClipFinished \/ StopClip
  <2>1. over' \in Rings /\ native' \in Natives
    BY <1>0, <1>7 DEF ClipFinished, StopClip, Rings, Natives
  <2> QED
    BY <1>0, <1>7, <2>1, OverlayTypesNext DEF ClipFinished, StopClip
<1>8. CASE ResetClip
  <2>1. over' \in Rings /\ torn' \in BOOLEAN
    BY <1>0, <1>8, ZerosFit DEF ResetClip, ResetOverlay, Rings
  <2>2. native' \in Natives
    BY <1>8, IdlesFit DEF ResetClip, Natives
  <2> QED
    BY <1>0, <1>8, <2>1, <2>2, OverlayTypesNext DEF ResetClip
<1> QED
  BY <1>1, <1>2, <1>3, <1>4, <1>5, <1>6, <1>7, <1>8 DEF NativeTask

(* What it publishes, and how far it gets. *)
LEMMA ClipPublishes ==
  ASSUME OverlayTypeOK, Published, ClipFits, NativeTask
  PROVE  Published' /\ ClipFits'
<1>0. native \in Natives /\ ducking \in Duckings /\ bounds \in Counts /\ over \in Rings
  BY OverlayTypesAre
<1>1. /\ ducking.revision \in Nat /\ bounds.overlays \in Nat /\ bounds.turns \in Nat
      /\ native.sent \in Nat /\ native.piece \in Nat /\ SongsOwe \in Nat /\ VoiceOwes \in Nat
  BY <1>0, OverlaySizes DEF Natives, Duckings, Counts, Changes, SongsOwe, VoiceOwes
<1>2. SongsOwe' = SongsOwe /\ VoiceOwes' = VoiceOwes
  <2>1. UNCHANGED <<loop, ducker>>
    BY DEF NativeTask, BeginClip, ActivateClip, PublishClip, WritePiece, StoreWrite, EndClip,
       ClipDrained, ClipFinished, StopClip, ResetClip
  <2> QED
    BY <2>1 DEF SongsOwe, VoiceOwes
<1>3. CASE BeginClip
  <2>1. /\ ducking' = ducking /\ bounds'.overlays = bounds.overlays + 1
        /\ bounds'.turns = bounds.turns /\ native.at = "idle" /\ native'.at = "active"
        /\ native'.sent = 0 /\ native'.piece = 0
    BY <1>0, <1>3 DEF BeginClip, IdleNative, Counts
  <2>2. ClipOwes = 0 /\ ClipOwes' = 2
    BY <2>1 DEF ClipOwes
  <2> QED
    BY <1>1, <1>2, <2>1, <2>2, OverlaySizes DEF Published, ClipFits
<1>4. CASE PublishClip
  <2>1. /\ ducking'.revision = ducking.revision + 1 /\ bounds' = bounds
        /\ native.at = "publish"
    BY <1>0, <1>4 DEF PublishClip, PublishDuck, Duckings
  <2>2. ClipOwes' = ClipOwes - 1
    BY <1>0, <1>4 DEF PublishClip, ClipOwes, IdleNative, Natives
  <2>3. ClipOwes \in {1, 2}
    BY <2>1 DEF ClipOwes
  <2>4. ClipFits'
    BY <1>0, <1>4, <2>1, OverlaySizes DEF PublishClip, ClipFits, IdleNative, Natives
  <2> QED
    BY <1>1, <1>2, <2>1, <2>2, <2>3, <2>4 DEF Published
<1>5. CASE ~BeginClip /\ ~PublishClip
  <2>1. ducking' = ducking /\ bounds' = bounds
    BY <1>5 DEF NativeTask, ActivateClip, WritePiece, StoreWrite, EndClip,
       ClipDrained, ClipFinished, StopClip, ResetClip
  <2>2. ClipOwes' <= ClipOwes /\ ClipOwes' \in Nat /\ ClipOwes \in Nat
    <3>1. CASE ActivateClip
      <4>1. native.at = "active"
        BY <3>1 DEF ActivateClip
      <4>2. ClipOwes = 2
        BY <4>1 DEF ClipOwes
      <4> QED
        BY <4>2 DEF ClipOwes
    <3>2. CASE WritePiece \/ StoreWrite \/ EndClip \/ ClipDrained \/ ClipFinished \/ StopClip
      <4>1. /\ native.at \in {"write", "store", "drain", "drained"}
            /\ native'.at \in {"write", "store", "drain", "drained", "reset"}
        BY <1>0, <3>2 DEF WritePiece, StoreWrite, EndClip, ClipDrained, ClipFinished,
           StopClip, Natives
      <4> QED
        BY <4>1 DEF ClipOwes
    <3>3. CASE ResetClip
      <4>1. native.at = "reset"
            /\ IF native.was THEN native'.at = "publish" /\ native'.was ELSE native'.at = "idle"
        BY <1>0, <3>3 DEF ResetClip, IdleNative, Natives
      <4> QED
        BY <4>1 DEF ClipOwes
    <3> QED
      BY <1>5, <3>1, <3>2, <3>3 DEF NativeTask
  <2>3. ClipFits'
    <3>1. CASE ActivateClip \/ EndClip \/ ClipDrained \/ ClipFinished \/ StopClip
      BY <1>0, <2>1, <3>1
         DEF ActivateClip, EndClip, ClipDrained, ClipFinished, StopClip, ClipFits, Natives
    <3>2. CASE WritePiece
      <4>1. PICK k \in 1..ClipFrames - native.sent :
              native' = [native EXCEPT !.at = "store", !.start = over.write, !.piece = k]
        BY <3>2 DEF WritePiece
      <4>2. /\ native'.sent = native.sent /\ native'.piece = k /\ native'.at = "store"
            /\ native.at = "write"
        BY <1>0, <3>2, <4>1 DEF WritePiece, Natives
      <4> QED
        BY <1>1, <2>1, <4>2, OverlaySizes DEF ClipFits
    <3>3. CASE StoreWrite
      <4>1. /\ native'.sent = native.sent + native.piece /\ native'.piece = 0
            /\ native.at = "store" /\ native'.at = "write"
        BY <1>0, <3>3 DEF StoreWrite, Natives
      <4> QED
        BY <1>1, <2>1, <4>1, OverlaySizes DEF ClipFits
    <3>4. CASE ResetClip
      <4>1. /\ native'.sent = 0 /\ native'.piece = 0 /\ native.at = "reset"
        BY <3>4 DEF ResetClip, IdleNative
      <4> QED
        BY <2>1, <4>1, OverlaySizes DEF ClipFits
    <3> QED
      BY <1>5, <3>1, <3>2, <3>3, <3>4 DEF NativeTask
  <2> QED
    BY <1>1, <1>2, <2>1, <2>2, <2>3 DEF Published
<1> QED
  BY <1>3, <1>4, <1>5

(* What the stream's end and a wish do. *)
LEMMA TurnsTyped ==
  ASSUME OverlayTypeOK, Published, ClipFits,
         SongsTask \/ SetVoiceDuck \/ PublishVoiceDuck
  PROVE  OverlayTypeOK' /\ Published' /\ ClipFits'
<1>0. /\ over \in Rings /\ ducking \in Duckings /\ songs \in BOOLEAN
      /\ mixer \in Mixers /\ native \in Natives /\ loop \in Loops
      /\ ducker \in {"idle", "publish"} /\ sounded \in Sounds /\ torn \in BOOLEAN
      /\ bounds \in Counts
  BY OverlayTypesAre
<1>1. /\ ducking.revision \in Nat /\ bounds.overlays \in Nat /\ bounds.turns \in Nat
      /\ ClipOwes \in Nat /\ SongsOwe \in Nat /\ VoiceOwes \in Nat
  BY <1>0, OverlaySizes DEF Duckings, Counts, Changes, ClipOwes, SongsOwe, VoiceOwes
<1>2. native' = native /\ ClipOwes' = ClipOwes
  <2>1. native' = native
    BY DEF SongsTask, SongsBegin, SongsEnd, ResetSongs, PublishSongs, SongsOff, SetVoiceDuck,
       PublishVoiceDuck
  <2> QED
    BY <2>1 DEF ClipOwes
<1>3. bounds'.overlays = bounds.overlays /\ ClipFits'
  <2>1. bounds'.overlays = bounds.overlays
    BY <1>0 DEF SongsTask, SongsBegin, SongsEnd, ResetSongs, PublishSongs, SongsOff, SetVoiceDuck,
       PublishVoiceDuck, Counts
  <2> QED
    BY <1>2, <2>1 DEF ClipFits
<1>4. CASE SongsBegin \/ SongsOff
  <2>1. UNCHANGED <<ducking, bounds, ducker>> /\ loop' \in Loops /\ loop'.at = "idle"
    <3>1. CASE SongsBegin
      BY <1>0, <3>1 DEF SongsBegin
    <3>2. CASE SongsOff
      BY <3>2 DEF SongsOff, Loops
    <3> QED
      BY <1>4, <3>1, <3>2
  <2>2. SongsOwe' = 0 /\ VoiceOwes' = VoiceOwes
    BY <2>1 DEF SongsOwe, VoiceOwes
  <2>3. OverlayTypeOK'
    BY <1>0, <1>4, <2>1, OverlayTypesNext DEF SongsBegin, SongsOff
  <2> QED
    BY <1>1, <1>2, <1>3, <2>1, <2>2, <2>3 DEF Published
<1>5. CASE SongsEnd
  <2>1. /\ UNCHANGED <<ducking, ducker>> /\ loop' \in Loops /\ over' \in Rings
        /\ loop.at = "idle" /\ bounds'.turns = bounds.turns + 1
    BY <1>0, <1>5 DEF SongsEnd, Loops, Rings, Counts
  <2>2. bounds' \in Counts
    <3>1. bounds.turns + 1 \in 0..MaxTurns
      BY <1>0, <1>5, OverlaySizes DEF SongsEnd, Counts
    <3> QED
      BY <1>0, <1>5, <3>1 DEF SongsEnd, Counts
  <2>3. SongsOwe' \in {0, 1} /\ SongsOwe = 0 /\ VoiceOwes' = VoiceOwes
    BY <2>1 DEF SongsOwe, VoiceOwes
  <2>4. OverlayTypeOK'
    BY <1>0, <1>5, <2>1, <2>2, OverlayTypesNext DEF SongsEnd
  <2> QED
    BY <1>1, <1>2, <1>3, <2>1, <2>3, <2>4 DEF Published
<1>6. CASE ResetSongs
  <2>1. UNCHANGED <<ducking, bounds, ducker>> /\ loop' \in Loops /\ loop.at = "reset"
        /\ IF loop.was THEN loop'.at = "publish" ELSE loop'.at = "off"
    BY <1>0, <1>6 DEF ResetSongs, Loops
  <2>2. over' \in Rings /\ torn' \in BOOLEAN
    BY <1>0, <1>6, ZerosFit DEF ResetSongs, ResetOverlay, Rings
  <2>3. SongsOwe' = SongsOwe /\ VoiceOwes' = VoiceOwes
    BY <2>1 DEF SongsOwe, VoiceOwes
  <2>4. OverlayTypeOK'
    BY <1>0, <1>6, <2>1, <2>2, OverlayTypesNext DEF ResetSongs
  <2> QED
    BY <1>1, <1>2, <1>3, <2>1, <2>3, <2>4 DEF Published
<1>7. CASE PublishSongs
  <2>1. /\ UNCHANGED <<bounds, ducker>> /\ loop' \in Loops /\ loop.at = "publish"
        /\ loop'.at = "off" /\ ducking'.revision = ducking.revision + 1
    BY <1>0, <1>7 DEF PublishSongs, PublishDuck, Loops, Duckings
  <2>2. SongsOwe = 1 /\ SongsOwe' = 0 /\ VoiceOwes' = VoiceOwes
    BY <2>1 DEF SongsOwe, VoiceOwes
  <2>3. ducking.revision + 1 \in Changes
    BY <1>1, <2>2, RevisionFits
  <2>4. ducking' \in Duckings
    BY <1>0, <1>7, <2>3 DEF PublishSongs, PublishDuck, Duckings
  <2>5. OverlayTypeOK'
    BY <1>0, <1>7, <2>1, <2>4, OverlayTypesNext DEF PublishSongs
  <2> QED
    BY <1>1, <1>2, <1>3, <2>1, <2>2, <2>5 DEF Published
<1>8. CASE SetVoiceDuck
  <2>1. /\ loop' = loop /\ ducker = "idle" /\ ducker' = "publish" /\ ducking' \in Duckings
        /\ ducking'.revision = ducking.revision /\ bounds'.turns = bounds.turns + 1
    BY <1>0, <1>8 DEF SetVoiceDuck, Duckings, Counts
  <2>2. bounds' \in Counts
    <3>1. bounds.turns + 1 \in 0..MaxTurns
      BY <1>0, <1>8, OverlaySizes DEF SetVoiceDuck, Counts
    <3> QED
      BY <1>0, <1>8, <3>1 DEF SetVoiceDuck, Counts
  <2>3. SongsOwe' = SongsOwe /\ VoiceOwes = 0 /\ VoiceOwes' = 1
    BY <2>1 DEF SongsOwe, VoiceOwes
  <2>4. OverlayTypeOK'
    BY <1>0, <1>8, <2>1, <2>2, OverlayTypesNext DEF SetVoiceDuck
  <2> QED
    BY <1>1, <1>2, <1>3, <2>1, <2>3, <2>4 DEF Published
<1>9. CASE PublishVoiceDuck
  <2>1. /\ UNCHANGED <<bounds, loop>> /\ ducker = "publish" /\ ducker' = "idle"
        /\ ducking'.revision = ducking.revision + 1
    BY <1>0, <1>9 DEF PublishVoiceDuck, PublishDuck, Duckings
  <2>2. SongsOwe' = SongsOwe /\ VoiceOwes = 1 /\ VoiceOwes' = 0
    BY <2>1 DEF SongsOwe, VoiceOwes
  <2>3. ducking.revision + 1 \in Changes
    BY <1>1, <2>2, RevisionFits
  <2>4. ducking' \in Duckings
    BY <1>0, <1>9, <2>3 DEF PublishVoiceDuck, PublishDuck, Duckings
  <2>5. OverlayTypeOK'
    BY <1>0, <1>9, <2>1, <2>4, OverlayTypesNext DEF PublishVoiceDuck
  <2> QED
    BY <1>1, <1>2, <1>3, <2>1, <2>2, <2>5 DEF Published
<1> QED
  BY <1>4, <1>5, <1>6, <1>7, <1>8, <1>9 DEF SongsTask

(* main/sendspin_player.cpp: the positions of the overlay's ring stay in   *)
(* their word, its cells hold frames of overlays that have begun, and the  *)
(* revision is raised no more than twice for an overlay and once for each  *)
(* wish of the voice and end of a stream.                                  *)
THEOREM OverlayTypeCorrect == OverlaySpec => []OverlayTypeOK
<1>1. OverlayInit => OverlayTypeOK /\ Published /\ ClipFits
  BY OverlayStartsTyped
<1>2. OverlayTypeOK /\ Published /\ ClipFits /\ [OverlayNext]_overlaying
        => (OverlayTypeOK /\ Published /\ ClipFits)'
  <2> SUFFICES ASSUME OverlayTypeOK, Published, ClipFits, [OverlayNext]_overlaying
               PROVE  OverlayTypeOK' /\ Published' /\ ClipFits'
    OBVIOUS
  <2>1. CASE MusicTask
    BY <2>1, MusicTyped, MusicPublishesNot
  <2>2. CASE NativeTask
    BY <2>2, ClipTyped, ClipPublishes
  <2>3. CASE SongsTask \/ SetVoiceDuck \/ PublishVoiceDuck
    BY <2>3, TurnsTyped
  <2>4. CASE UNCHANGED overlaying
    <3>1. OverlayTypeOK'
      BY <2>4, OverlayTypesAre, OverlayTypesNext DEF overlaying
    <3> QED
      BY <2>4, <3>1 DEF overlaying, Published, ClipFits, ClipOwes, SongsOwe, VoiceOwes
  <2> QED
    BY <2>1, <2>2, <2>3, <2>4 DEF OverlayNext
<1> QED
  BY <1>1, <1>2, PTL DEF OverlaySpec

=============================================================================
