--------------------------- MODULE PlaybackStream ---------------------------
(***************************************************************************)
(* The download of one clip in main/playback.c: the playback task opens    *)
(* the URL, a reader task fills the jitter buffer from the network, and    *)
(* the playback task empties it into its sink.  A WAV file whose buffer or *)
(* reader cannot be had is played without them.                            *)
(*                                                                         *)
(* Audio is counted in units, numbered from 1 as the server sends them.    *)
(* The buffer has a lock; each of its critical sections is a step, and so  *)
(* is what a task does between two of them.                                *)
(***************************************************************************)
EXTENDS Integers, Sequences

CONSTANTS
  Units,      \* bound: units that a file has at most
  Capacity,   \* units in the jitter buffer
  Target,     \* units to have before the first one is played
  ReadSize,   \* units that one HTTP read gives at most
  MaxHeader   \* units that may have come along with the header

ASSUME StreamAssumption ==
  /\ {Units, Capacity, Target, ReadSize, MaxHeader} \subseteq Nat \ {0}
  /\ Target <= Capacity /\ MaxHeader <= Capacity /\ ReadSize <= Capacity

VARIABLES
  aborted,  \* s_abort
  source,   \* kind "codec" or "wav", and the Content-Length, or Unknown
  ring,     \* codec_jitter_buffer_t, its two semaphores and its memory
  player,   \* the playback task: where it stands, err, sink_started, eos,
            \* and without a buffer whether the source has ended
  reader,   \* the reader task: where it stands, bytes_seen, what it still
            \* has to write, err, done
  played,    \* units that went to the sink
  outcome   \* what stream_audio_url returned

streaming == <<aborted, source, ring, player, reader, played, outcome>>

Unknown == -1
Kinds == {"codec", "wav"}
PlayerAt == {"open", "init", "first", "direct", "direct_read", "direct_end", "prebuffer",
             "prewait", "ready", "read", "readwait", "feed", "flush", "end", "signal",
             "join", "gone"}
ReaderAt == {"none", "loop", "http", "write", "wait", "finish", "signal", "done", "notify",
             "gone"}

StreamTypeOK ==
  /\ aborted \in BOOLEAN
  /\ source \in [kind : Kinds, length : {Unknown} \cup 1..Units]
  /\ ring \in [cells : [0..Capacity - 1 -> 0..Units], write : 0..Capacity - 1,
               read : 0..Capacity - 1, fill : 0..Capacity, eof : BOOLEAN, failed : BOOLEAN,
               canRead : BOOLEAN, canWrite : BOOLEAN, memory : {"none", "live", "freed"}]
  /\ player \in [at : PlayerAt, err : BOOLEAN, begun : BOOLEAN, eos : BOOLEAN, over : BOOLEAN]
  /\ reader \in [at : ReaderAt, seen : 0..Units, owed : 0..Units, err : BOOLEAN,
                 done : BOOLEAN]
  /\ played \in 0..Units
  /\ outcome \in {"none", "ok", "failed"}

EmptyRing ==
  [cells |-> [i \in 0..Capacity - 1 |-> 0], write |-> 0, read |-> 0, fill |-> 0,
   eof |-> FALSE, failed |-> FALSE, canRead |-> FALSE, canWrite |-> FALSE, memory |-> "none"]

StreamInit ==
  /\ aborted = FALSE /\ played = 0 /\ outcome = "none"
  /\ source \in [kind : Kinds, length : {Unknown} \cup 1..Units]
  /\ ring = EmptyRing
  /\ player = [at |-> "open", err |-> FALSE, begun |-> FALSE, eos |-> FALSE, over |-> FALSE]
  /\ reader = [at |-> "none", seen |-> 0, owed |-> 0, err |-> FALSE, done |-> FALSE]

Smaller(a, b) == IF a < b THEN a ELSE b

PlayerGoes(to) == player' = [player EXCEPT !.at = to]
PlayerFails == player' = [player EXCEPT !.at = "end", !.err = TRUE]
ReaderGoes(to) == reader' = [reader EXCEPT !.at = to]
ReaderFails == reader' = [reader EXCEPT !.at = "finish", !.err = TRUE]

(* What the server still has to send. *)
Left == (IF source.length = Unknown THEN Units ELSE source.length) - reader.seen

-----------------------------------------------------------------------------
(* The jitter buffer.                                                      *)

(* Faulty form of CopyIn: what does not fit before the end of the memory   *)
(* is not copied to its start.                                             *)
CopyInUnwrapped(k) ==
  [ring EXCEPT
     !.cells = [i \in DOMAIN @ |->
                  LET nth == i - ring.write
                  IN IF nth \in 0..k - 1 THEN reader.seen - reader.owed + nth + 1 ELSE @[i]],
     !.write = (@ + k) % Capacity, !.fill = @ + k, !.canRead = (@ \/ k > 0)]

(* codec_jitter_copy_in: the next k of the units the writer holds. *)
CopyIn(k) ==
  [ring EXCEPT
     !.cells = [i \in DOMAIN @ |->
                  LET nth == (i - ring.write + Capacity) % Capacity
                  IN IF nth < k THEN reader.seen - reader.owed + nth + 1 ELSE @[i]],
     !.write = (@ + k) % Capacity, !.fill = @ + k, !.canRead = (@ \/ k > 0)]

(* Faulty form of CopyOut: room is announced only once the buffer is empty. *)
CopyOutWhenDrained(k) ==
  [ring EXCEPT !.read = (@ + k) % Capacity, !.fill = @ - k,
               !.canWrite = (@ \/ ring.fill = k)]

(* codec_jitter_copy_out, and the token that codec_jitter_read gives. *)
CopyOut(k) ==
  [ring EXCEPT !.read = (@ + k) % Capacity, !.fill = @ - k, !.canWrite = TRUE]

(* The k-th unit in the buffer, counted from the oldest. *)
Nth(k) == ring.cells[(ring.read + k - 1) % Capacity]

(* codec_jitter_signal *)
SignalBoth == ring' = [ring EXCEPT !.canRead = TRUE, !.canWrite = TRUE]

(* codec_jitter_close and codec_jitter_fail, up to their signal. *)
CloseOrFail(ok) == ring' = IF ok THEN [ring EXCEPT !.eof = TRUE]
                                 ELSE [ring EXCEPT !.failed = TRUE]

(* codec_jitter_prebuffer and wav_jitter_prebuffer; the length of a WAV    *)
(* file counts its header, which is not in the buffer.                     *)
PrebufferTarget ==
  IF source.length = Unknown THEN Target
  ELSE Smaller(Target, source.length + (IF source.kind = "wav" THEN 1 ELSE 0))

-----------------------------------------------------------------------------
(* The playback task.                                                      *)

(* stream_audio_url up to the first known format.  With the header come    *)
(* the first units; a codec's header is audio itself.                      *)
OpenStream ==
  /\ player.at = "open"
  /\ \/ /\ ~aborted /\ PlayerGoes("init") /\ UNCHANGED outcome
        /\ \E n \in (IF source.kind = "codec" THEN 1 ELSE 0)..Smaller(MaxHeader, Left) :
             reader' = [reader EXCEPT !.seen = n, !.owed = n]
     \/ PlayerGoes("gone") /\ outcome' = "failed" /\ UNCHANGED reader
  /\ UNCHANGED <<aborted, source, ring, played>>

(* codec_stream_begin and codec_jitter_init, which may find no memory. *)
MakeBuffer ==
  /\ player.at = "init"
  /\ \/ /\ ring' = [ring EXCEPT !.memory = "live", !.canWrite = TRUE]
        /\ PlayerGoes("first") /\ UNCHANGED outcome
     \/ /\ source.kind = "codec" /\ PlayerGoes("gone")
        /\ outcome' = "failed" /\ UNCHANGED ring
     \/ source.kind = "wav" /\ PlayerGoes("direct") /\ UNCHANGED <<ring, outcome>>
  /\ UNCHANGED <<aborted, source, reader, played>>

(* The first units go in, and the reader is created.  Without a reader a   *)
(* codec has failed; a WAV file gives the buffer back and does without.    *)
FirstWrite ==
  LET written == reader.owed = 0 \/ ~aborted
      filled  == IF written THEN CopyIn(reader.owed) ELSE ring
  IN /\ player.at = "first"
     /\ \/ /\ written
           /\ reader' = [reader EXCEPT !.at = "loop", !.owed = 0]
           /\ ring' = filled /\ PlayerGoes("prebuffer")
        \/ /\ source.kind = "codec" /\ PlayerFails /\ ring' = filled
           /\ reader' = [reader EXCEPT !.owed = IF written THEN 0 ELSE @]
        \/ /\ source.kind = "wav" /\ PlayerGoes("direct")
           /\ ring' = [EmptyRing EXCEPT !.memory = "freed"] /\ UNCHANGED reader
     /\ UNCHANGED <<aborted, source, played, outcome>>

(* codec_jitter_wait_prebuffer: one look. *)
WaitPrebuffer ==
  /\ player.at = "prebuffer"
  /\ \/ (aborted \/ ring.failed \/ (ring.eof /\ ring.fill = 0)) /\ PlayerFails
     \/ /\ ~aborted /\ ~ring.failed
        /\ ring.fill >= PrebufferTarget \/ (ring.eof /\ ring.fill > 0)
        /\ PlayerGoes("ready")
     \/ /\ ~aborted /\ ~ring.failed /\ ~ring.eof /\ ring.fill < PrebufferTarget
        /\ PlayerGoes("prewait")
  /\ UNCHANGED <<aborted, source, ring, reader, played, outcome>>

(* xSemaphoreTake(can_read, 50 ms) in the prebuffer and in the read loop. *)
PlayerWaits ==
  /\ player.at \in {"prewait", "readwait"}
  /\ PlayerGoes(IF player.at = "prewait" THEN "prebuffer" ELSE "read")
  /\ ring' = [ring EXCEPT !.canRead = FALSE]
  /\ UNCHANGED <<aborted, source, reader, played, outcome>>

(* The second buffer is allocated; the sink of a WAV file begins here. *)
BeginPlaying ==
  /\ player.at = "ready"
  /\ \/ PlayerFails
     \/ player' = [player EXCEPT !.at = "read", !.begun = (source.kind = "wav")]
  /\ UNCHANGED <<aborted, source, ring, reader, played, outcome>>

(* codec_jitter_read: what is in the buffer comes before any end. *)
ReadBuffer ==
  /\ player.at = "read"
  /\ \/ /\ ~aborted /\ ring.fill > 0
        /\ LET k == Smaller(ReadSize, ring.fill)
           IN /\ played' = Nth(k) /\ ring' = CopyOut(k)
              /\ player' = [player EXCEPT !.at = "feed",
                                          !.eos = (ring.eof /\ ring.fill = k)]
     \/ (aborted \/ (ring.fill = 0 /\ ring.failed)) /\ PlayerFails /\ UNCHANGED <<ring, played>>
     \/ /\ ~aborted /\ ring.fill = 0 /\ ~ring.failed
        /\ PlayerGoes(IF ring.eof THEN "flush" ELSE "readwait") /\ UNCHANGED <<ring, played>>
  /\ UNCHANGED <<aborted, source, reader, outcome>>

(* codec_stream_feed, whose first PCM begins the sink, or                  *)
(* wav_stream_process_data.                                                *)
Feed ==
  /\ player.at = "feed"
  /\ \/ PlayerFails
     \/ \E b \in {player.begun, TRUE} :
          player' = [player EXCEPT
                       !.at = IF source.kind = "wav" /\ player.eos
                              THEN "flush" ELSE "read",
                       !.begun = b]
  /\ UNCHANGED <<aborted, source, ring, reader, played, outcome>>

(* pcm_stream_flush; a codec that gave no PCM is not supported. *)
FlushPcm ==
  /\ player.at = "flush"
  /\ \/ PlayerFails
     \/ (player.begun \/ aborted) /\ PlayerGoes("end")
  /\ UNCHANGED <<aborted, source, ring, reader, played, outcome>>

(* The sink ends, and the buffer is closed or failed. *)
EndPlaying ==
  /\ player.at = "end"
  /\ CloseOrFail(~player.err /\ ~aborted) /\ PlayerGoes("signal")
  /\ UNCHANGED <<aborted, source, reader, played, outcome>>

PlayerSignals ==
  /\ player.at = "signal" /\ SignalBoth /\ PlayerGoes("join")
  /\ UNCHANGED <<aborted, source, reader, played, outcome>>

(* Faulty form of Joined: the wait for the reader gives up. *)
JoinedAnyway == TRUE

(* The polls of reader->done; there is no reader to wait for if its        *)
(* creation failed.                                                        *)
Joined == reader.at = "none" \/ reader.done

(* The reader's arguments and the buffer are freed. *)
JoinReader ==
  /\ player.at = "join" /\ Joined
  /\ ring' = [ring EXCEPT !.memory = "freed"] /\ PlayerGoes("gone")
  /\ outcome' = IF player.err \/ aborted THEN "failed" ELSE "ok"
  /\ UNCHANGED <<aborted, source, reader, played>>

(* stream_wav_direct_from_open_client: the sink begins and gets what came  *)
(* with the header.                                                        *)
DirectBegin ==
  /\ player.at = "direct"
  /\ \/ PlayerGoes("gone") /\ outcome' = "failed" /\ UNCHANGED <<reader, played>>
     \/ /\ player' = [player EXCEPT !.at = "direct_read", !.begun = TRUE]
        /\ played' = reader.seen
        /\ reader' = [reader EXCEPT !.owed = 0]
        /\ UNCHANGED outcome
  /\ UNCHANGED <<aborted, source, ring>>

(* One read and what is done with it, until one of them fails, the source  *)
(* ends or the playback is stopped.                                        *)
DirectRead ==
  /\ player.at = "direct_read"
  /\ \/ /\ ~aborted
        /\ \E k \in 1..Smaller(ReadSize, Left) :
             played' = played + k /\ reader' = [reader EXCEPT !.seen = @ + k]
        /\ UNCHANGED player
     \/ /\ player' = [player EXCEPT !.at = "direct_end", !.err = TRUE]
        /\ UNCHANGED <<reader, played>>
     \/ /\ ~aborted /\ player' = [player EXCEPT !.at = "direct_end", !.over = TRUE]
        /\ UNCHANGED <<reader, played>>
  /\ UNCHANGED <<aborted, source, ring, outcome>>

DirectEnd ==
  /\ player.at = "direct_end" /\ PlayerGoes("gone")
  /\ outcome' = IF player.err \/ aborted THEN "failed" ELSE "ok"
  /\ UNCHANGED <<aborted, source, ring, reader, played>>

StreamPlayer ==
  \/ OpenStream \/ MakeBuffer \/ FirstWrite \/ WaitPrebuffer \/ PlayerWaits \/ BeginPlaying
  \/ ReadBuffer \/ Feed \/ FlushPcm \/ EndPlaying \/ PlayerSignals \/ JoinReader
  \/ DirectBegin \/ DirectRead \/ DirectEnd

-----------------------------------------------------------------------------
(* The reader task, codec_http_reader_task.                                *)

ReaderLoop ==
  /\ reader.at = "loop"
  /\ ReaderGoes(IF aborted \/ (source.length # Unknown /\ Left <= 0)
                THEN "finish" ELSE "http")
  /\ UNCHANGED <<aborted, source, ring, player, played, outcome>>

(* esp_http_client_read: a piece, the end, at whatever point the server    *)
(* ends, or an error.                                                      *)
HttpRead ==
  /\ reader.at = "http"
  /\ \/ \E k \in 1..Smaller(ReadSize, Left) :
          reader' = [reader EXCEPT !.at = "write", !.seen = @ + k, !.owed = k]
     \/ ReaderGoes("finish")
     \/ ReaderFails
  /\ UNCHANGED <<aborted, source, ring, player, played, outcome>>

(* Faulty form of WriteRefused: only a stop ends the writer. *)
WriteAccepted == aborted

(* Why codec_jitter_write leaves what it has not written. *)
WriteRefused == aborted \/ ring.failed

(* codec_jitter_write: one pass of its loop. *)
WriteBuffer ==
  LET k == Smaller(reader.owed, Capacity - ring.fill)
  IN /\ reader.at = "write"
     /\ \/ WriteRefused /\ ReaderFails /\ UNCHANGED ring
        \/ /\ ~WriteRefused /\ ring' = CopyIn(k)
           /\ reader' = [reader EXCEPT !.at = IF k = reader.owed THEN "loop" ELSE "wait",
                                       !.owed = @ - k]
     /\ UNCHANGED <<aborted, source, player, played, outcome>>

(* xSemaphoreTake(can_write, 50 ms) *)
WriterWaits ==
  /\ reader.at = "wait" /\ ReaderGoes("write")
  /\ ring' = [ring EXCEPT !.canWrite = FALSE]
  /\ UNCHANGED <<aborted, source, player, played, outcome>>

FinishReading ==
  /\ reader.at = "finish"
  /\ CloseOrFail(~reader.err \/ aborted) /\ ReaderGoes("signal")
  /\ UNCHANGED <<aborted, source, player, played, outcome>>

ReaderSignals ==
  /\ reader.at = "signal" /\ SignalBoth /\ ReaderGoes("done")
  /\ UNCHANGED <<aborted, source, player, played, outcome>>

(* The handle of the playback task is read before done is set: from then   *)
(* on the reader touches nothing that JoinReader frees.                    *)
ReaderDone ==
  /\ reader.at = "done"
  /\ reader' = [reader EXCEPT !.at = "notify", !.done = TRUE]
  /\ UNCHANGED <<aborted, source, ring, player, played, outcome>>

NotifyPlayer ==
  /\ reader.at = "notify" /\ ReaderGoes("gone")
  /\ UNCHANGED <<aborted, source, ring, player, played, outcome>>

StreamReader ==
  \/ ReaderLoop \/ HttpRead \/ WriteBuffer \/ WriterWaits \/ FinishReading
  \/ ReaderSignals \/ ReaderDone \/ NotifyPlayer

-----------------------------------------------------------------------------
(* A stop, an update or the recovery watch, at any moment. *)
AbortStream ==
  /\ ~aborted /\ aborted' = TRUE
  /\ UNCHANGED <<source, ring, player, reader, played, outcome>>

StreamNext == StreamPlayer \/ StreamReader \/ AbortStream

(* Both tasks run on, their waits time out, and an HTTP read returns       *)
(* within its 15 s; nobody needs to stop a playback.                       *)
StreamFair == WF_streaming(StreamPlayer) /\ WF_streaming(StreamReader)

StreamSpec == StreamInit /\ [][StreamNext]_streaming /\ StreamFair

-----------------------------------------------------------------------------
(* Properties.                                                             *)

(* A task that could go on is not left to its timeout: the token it waits  *)
(* for is there, or about to be given by the other.  (Only a stop gives    *)
(* none.)                                                                  *)
NoMissedWake ==
  /\ reader.at = "wait" /\ (ring.fill < Capacity \/ ring.failed)
       => ring.canWrite \/ player.at = "signal"
  /\ player.at = "readwait" /\ (ring.fill > 0 \/ ring.eof \/ ring.failed)
       => ring.canRead \/ reader.at = "signal"
  /\ player.at = "prewait" /\ (ring.fill >= PrebufferTarget \/ ring.eof \/ ring.failed)
       => ring.canRead \/ reader.at = "signal"

(* The buffer, the reader's arguments and the HTTP client are freed only   *)
(* when the reader is through with them, and used only while they exist.   *)
BufferInUse ==
  /\ reader.at \notin {"none", "notify", "gone"} => ring.memory = "live" /\ player.at # "gone"
  /\ player.at \in {"prebuffer", "read"} => ring.memory = "live"

(* The clip is played as it was sent: what goes into the buffer comes out  *)
(* once, in order, and a playback that says it succeeded has played all    *)
(* that the source gave.                                                   *)
Channel ==
  INSTANCE AudioChannel WITH
    Depth  <- Capacity,
    queue  <- [k \in 1..ring.fill |-> Nth(k)],
    put    <- IF source.kind = "wav" /\ ring.memory # "live" /\ reader.at = "none"
              THEN played ELSE reader.seen - reader.owed,
    heard  <- played,
    closed <- ring.eof \/ player.over,
    result <- outcome

StreamIsChannel == Channel!ChannelSpec

(* Every playback comes to its end, whatever fails on the way. *)
StreamEnds ==
  []<>(player.at = "open" \/ (outcome # "none" /\ reader.at \in {"none", "gone"}))

=============================================================================
