--------------------------- MODULE PlaybackProofs ---------------------------
(***************************************************************************)
(* The two buffers of main/playback.c, for every size of theirs and of the *)
(* reads and pieces that go through them, and the watchdog.                *)
(*                                                                         *)
(* A download (PlaybackStream) implements AudioChannel, its buffer is used *)
(* only while it exists, and neither task misses a wake-up.  RingShape is  *)
(* the arithmetic of the ring (what is between read and write is what it   *)
(* holds), Control says which places of the two tasks go together and what *)
(* they know there; Counted adds what the types need of the numbers.       *)
(*                                                                         *)
(* So does the background of an audio scene (SceneMix).  PcmShape is the   *)
(* arithmetic of its ring, whose writes stop at the end of the memory;     *)
(* Lasting says where the background is when the ring is closed, when its  *)
(* task is done and when a piece of it is left to write.                   *)
(*                                                                         *)
(* The verdict of the watchdog (PlaybackRecovery) rests on the age of what *)
(* was read: Watched relates that of the last progress to the time the     *)
(* output has stood still, also after the clock has wrapped.               *)
(***************************************************************************)
EXTENDS PlaybackStream, SceneMix, PlaybackRecovery, SequenceTheorems, TLAPS

(* The remainder, by a name, to be cited by the two facts that are needed. *)
Rem(x, C) == x % C

RingShape ==
  /\ {"cells", "write", "read", "fill", "eof", "failed", "canRead", "canWrite", "memory"}
       \subseteq DOMAIN ring
  /\ ring.cells \in [0..(Capacity - 1) -> Int]
  /\ ring.read \in 0..(Capacity - 1) /\ ring.fill \in 0..Capacity
  /\ ring.write = Rem(ring.read + ring.fill, Capacity)
  /\ {ring.eof, ring.failed, ring.canRead, ring.canWrite} \subseteq BOOLEAN

-----------------------------------------------------------------------------
(* Sequences as functions.                                                 *)

LEMMA FunctionIsSeq ==
  ASSUME NEW n \in Nat, NEW f \in [1..n -> Int]
  PROVE  f \in Seq(Int) /\ Len(f) = n
  OBVIOUS

(* A sequence that begins as f and goes on as g. *)
LEMMA JoinOfFunctions ==
  ASSUME NEW n \in Nat, NEW k \in Nat, NEW f \in [1..n -> Int], NEW g \in [1..k -> Int],
         NEW h \in [1..(n + k) -> Int],
         \A i \in 1..n : h[i] = f[i], \A i \in 1..k : h[n + i] = g[i]
  PROVE  h = f \o g
<1>1. f \in Seq(Int) /\ g \in Seq(Int) /\ h \in Seq(Int)
      /\ Len(f) = n /\ Len(g) = k /\ Len(h) = n + k
  BY FunctionIsSeq
<1>2. \A i \in 1..(n + k) : (f \o g)[i] = IF i <= n THEN f[i] ELSE g[i - n]
  BY <1>1, ConcatProperties
<1>3. \A i \in 1..(n + k) : h[i] = (f \o g)[i]
  <2> TAKE i \in 1..(n + k)
  <2>1. CASE i <= n
    BY <1>2, <2>1
  <2>2. CASE i > n
    <3>1. i - n \in 1..k /\ n + (i - n) = i
      BY <2>2
    <3> QED
      BY <1>2, <2>2, <3>1
  <2> QED
    BY <2>1, <2>2
<1>4. f \o g \in Seq(Int) /\ Len(f \o g) = n + k
  BY <1>1, ConcatProperties
<1> QED
  BY <1>1, <1>3, <1>4, SeqEqual

(* A sequence that is f without its first k elements. *)
LEMMA RestOfFunction ==
  ASSUME NEW n \in Nat, NEW k \in 1..n, NEW f \in [1..n -> Int], NEW h \in [1..(n - k) -> Int],
         \A i \in 1..(n - k) : h[i] = f[k + i]
  PROVE  h = SubSeq(f, k + 1, Len(f))
<1>1. n - k \in Nat
  OBVIOUS
<1>2. f \in Seq(Int) /\ h \in Seq(Int) /\ Len(f) = n /\ Len(h) = n - k
  BY <1>1, FunctionIsSeq
<1>3. SubSeq(f, k + 1, n) \in Seq(Int) /\ Len(SubSeq(f, k + 1, n)) = n - k
      /\ \A i \in 1..(n - k) : SubSeq(f, k + 1, n)[i] = f[k + i]
  BY <1>2, SubSeqProperties
<1> QED
  BY <1>2, <1>3, SeqEqual

-----------------------------------------------------------------------------
(* The ring.                                                               *)

LEMMA Wraps ==
  ASSUME NEW C \in Nat \ {0}, NEW x \in 0..(2 * C - 1)
  PROVE  Rem(x, C) = IF x < C THEN x ELSE x - C
  BY Z3 DEF Rem

LEMMA Remainder ==
  ASSUME NEW C \in Nat \ {0}, NEW x \in Int
  PROVE  Rem(x, C) \in 0..(C - 1)
  BY DEF Rem

(* In a ring of C cells that holds f units from cell r on: the cell of the *)
(* i-th unit, as seen from where the next one goes.                        *)
LEMMA CellsOfRing ==
  ASSUME NEW C \in Nat \ {0}, NEW r \in 0..(C - 1), NEW f \in 0..C, NEW k \in 0..(C - f)
  PROVE  /\ Rem(Rem(r + f, C) + k, C) = Rem(r + (f + k), C)
         /\ \A i \in 1..(f + k) :
              Rem(Rem(r + i - 1, C) - Rem(r + f, C) + C, C)
                = IF i <= f THEN C - f + i - 1 ELSE i - 1 - f
<1> DEFINE w == Rem(r + f, C)
<1>1. w = (IF r + f < C THEN r + f ELSE r + f - C) /\ w \in 0..(C - 1)
  <2>1. r + f \in 0..(2 * C - 1)
    OBVIOUS
  <2> QED
    BY <2>1, Wraps
<1> HIDE DEF w
<1>2. Rem(w + k, C) = Rem(r + (f + k), C)
  <2>1. w + k \in 0..(2 * C - 1) /\ r + (f + k) \in 0..(2 * C - 1)
    BY <1>1
  <2>2. Rem(w + k, C) = IF w + k < C THEN w + k ELSE w + k - C
    BY <1>1, <2>1, Wraps
  <2>3. Rem(r + (f + k), C) = IF r + (f + k) < C THEN r + (f + k) ELSE r + (f + k) - C
    BY <2>1, Wraps
  <2> DEFINE x == Rem(w + k, C)
             y == Rem(r + (f + k), C)
  <2> HIDE DEF x, y
  <2>4. x = y
    BY <1>1, <2>2, <2>3 DEF x, y
  <2> QED
    BY <2>4 DEF x, y
<1>3. ASSUME NEW i \in 1..(f + k)
      PROVE  Rem(Rem(r + i - 1, C) - w + C, C) = IF i <= f THEN C - f + i - 1 ELSE i - 1 - f
  <2> DEFINE c == Rem(r + i - 1, C)
  <2>1. c = IF r + i - 1 < C THEN r + i - 1 ELSE r + i - 1 - C
    <3>1. r + i - 1 \in 0..(2 * C - 1)
      OBVIOUS
    <3> QED
      BY <3>1, Wraps
  <2> HIDE DEF c
  <2>2. c - w + C \in 0..(2 * C - 1)
        /\ (IF c - w + C < C THEN c - w + C ELSE c - w + C - C)
             = (IF i <= f THEN C - f + i - 1 ELSE i - 1 - f)
    BY <1>1, <2>1
  <2>3. Rem(c - w + C, C) = IF c - w + C < C THEN c - w + C ELSE c - w + C - C
    BY <1>1, <2>1, <2>2, Wraps
  <2>4. Rem(c - w + C, C) = IF i <= f THEN C - f + i - 1 ELSE i - 1 - f
    BY <2>2, <2>3
  <2> QED
    BY <2>4 DEF c
<1> QED
  BY <1>2, <1>3 DEF w

(* Without its k oldest units the ring starts k cells further. *)
LEMMA RestOfRing ==
  ASSUME NEW C \in Nat \ {0}, NEW r \in 0..(C - 1), NEW f \in 0..C, NEW k \in 1..f
  PROVE  /\ Rem(r + f, C) = Rem(Rem(r + k, C) + (f - k), C)
         /\ \A i \in 1..(f - k) : Rem(Rem(r + k, C) + i - 1, C) = Rem(r + (k + i) - 1, C)
<1> DEFINE s == Rem(r + k, C)
<1>1. s = (IF r + k < C THEN r + k ELSE r + k - C) /\ s \in 0..(C - 1)
  <2>1. r + k \in 0..(2 * C - 1)
    OBVIOUS
  <2> QED
    BY <2>1, Wraps
<1> HIDE DEF s
<1>2. ASSUME NEW j \in 0..(f - k) PROVE Rem(s + j, C) = Rem(r + (k + j), C)
  <2>1. s + j \in 0..(2 * C - 1) /\ r + (k + j) \in 0..(2 * C - 1)
        /\ (IF s + j < C THEN s + j ELSE s + j - C)
             = (IF r + (k + j) < C THEN r + (k + j) ELSE r + (k + j) - C)
    BY <1>1
  <2>2. Rem(s + j, C) = IF s + j < C THEN s + j ELSE s + j - C
    BY <1>1, <2>1, Wraps
  <2>3. Rem(r + (k + j), C) = IF r + (k + j) < C THEN r + (k + j) ELSE r + (k + j) - C
    BY <2>1, Wraps
  <2> QED
    BY <2>1, <2>2, <2>3
<1>3. Rem(s + (f - k), C) = Rem(r + f, C)
  <2>1. f - k \in 0..(f - k) /\ r + (k + (f - k)) = r + f
    OBVIOUS
  <2> QED
    BY <1>2, <2>1
<1>4. ASSUME NEW i \in 1..(f - k) PROVE Rem(s + i - 1, C) = Rem(r + (k + i) - 1, C)
  <2>1. i - 1 \in 0..(f - k) /\ s + (i - 1) = s + i - 1
        /\ r + (k + (i - 1)) = r + (k + i) - 1
    BY <1>1
  <2>2. Rem(s + (i - 1), C) = Rem(r + (k + (i - 1)), C)
    BY <1>2, <2>1
  <2> QED
    BY <2>1, <2>2
<1> QED
  BY <1>3, <1>4 DEF s

(* codec_jitter_copy_in appends. *)
LEMMA CopyInAppends ==
  ASSUME RingShape, NEW k \in 0..(Capacity - ring.fill), ring' = CopyIn(k),
         reader.seen \in Int, reader.owed \in Int
  PROVE  /\ RingShape'
         /\ ring'.fill = ring.fill + k /\ ring'.canRead = (ring.canRead \/ k > 0)
         /\ ring'.eof = ring.eof /\ ring'.failed = ring.failed
         /\ ring'.memory = ring.memory /\ ring'.canWrite = ring.canWrite
         /\ \A i \in 1..ring.fill : Nth(i)' = Nth(i)
         /\ \A i \in (ring.fill + 1)..(ring.fill + k) :
              Nth(i)' = reader.seen - reader.owed + (i - ring.fill)
<1>0. Capacity \in Nat \ {0} /\ ring.fill \in 0..Capacity /\ ring.read \in 0..(Capacity - 1)
  BY StreamAssumption DEF RingShape
<1>1. /\ ring'.cells = [i \in 0..(Capacity - 1) |->
                          LET nth == Rem(i - ring.write + Capacity, Capacity)
                          IN IF nth < k THEN reader.seen - reader.owed + nth + 1
                                        ELSE ring.cells[i]]
      /\ ring'.write = Rem(ring.write + k, Capacity)
      /\ ring'.fill = ring.fill + k /\ ring'.canRead = (ring.canRead \/ k > 0)
      /\ ring'.eof = ring.eof /\ ring'.failed = ring.failed
      /\ ring'.memory = ring.memory /\ ring'.canWrite = ring.canWrite
      /\ ring'.read = ring.read /\ DOMAIN ring' = DOMAIN ring
  BY DEF CopyIn, RingShape, Rem
<1>2. ring.write = Rem(ring.read + ring.fill, Capacity) /\ ring.write \in 0..(Capacity - 1)
  <2>1. Rem(ring.read + ring.fill, Capacity) \in 0..(Capacity - 1)
    BY <1>0, Remainder
  <2> QED
    BY <2>1 DEF RingShape
<1>3. /\ Rem(ring.write + k, Capacity) = Rem(ring.read + (ring.fill + k), Capacity)
      /\ \A i \in 1..(ring.fill + k) :
           Rem(Rem(ring.read + i - 1, Capacity) - ring.write + Capacity, Capacity)
             = IF i <= ring.fill THEN Capacity - ring.fill + i - 1 ELSE i - 1 - ring.fill
  <2>1. /\ Rem(Rem(ring.read + ring.fill, Capacity) + k, Capacity)
             = Rem(ring.read + (ring.fill + k), Capacity)
        /\ \A i \in 1..(ring.fill + k) :
             Rem(Rem(ring.read + i - 1, Capacity) - Rem(ring.read + ring.fill, Capacity)
                   + Capacity, Capacity)
               = IF i <= ring.fill THEN Capacity - ring.fill + i - 1 ELSE i - 1 - ring.fill
    BY <1>0, CellsOfRing
  <2> QED
    BY <1>2, <2>1
<1>4. ring'.cells \in [0..(Capacity - 1) -> Int]
  <2>1. \A i \in 0..(Capacity - 1) : Rem(i - ring.write + Capacity, Capacity) \in Int
    BY <1>0, <1>2, Remainder
  <2>2. ring.cells \in [0..(Capacity - 1) -> Int]
    BY DEF RingShape
  <2>3. \A i \in 0..(Capacity - 1) :
          (IF Rem(i - ring.write + Capacity, Capacity) < k
           THEN reader.seen - reader.owed + Rem(i - ring.write + Capacity, Capacity) + 1
           ELSE ring.cells[i]) \in Int
    <3> TAKE i \in 0..(Capacity - 1)
    <3> DEFINE n == Rem(i - ring.write + Capacity, Capacity)
    <3>1. n \in Int /\ ring.cells[i] \in Int
      BY <2>1, <2>2
    <3> HIDE DEF n
    <3>2. reader.seen - reader.owed + n + 1 \in Int
      BY <3>1
    <3>3. (IF n < k THEN reader.seen - reader.owed + n + 1 ELSE ring.cells[i]) \in Int
      BY <3>1, <3>2
    <3> QED
      BY <3>3 DEF n
  <2> QED
    BY <1>1, <2>3
<1>5. RingShape'
  BY <1>0, <1>1, <1>3, <1>4 DEF RingShape
<1>6. ASSUME NEW i \in 1..(ring.fill + k)
      PROVE  Nth(i)' = IF i <= ring.fill THEN Nth(i)
                       ELSE reader.seen - reader.owed + (i - ring.fill)
  <2> DEFINE c == Rem(ring.read + i - 1, Capacity)
             n == Rem(c - ring.write + Capacity, Capacity)
  <2>1. c \in 0..(Capacity - 1)
    BY <1>0, Remainder
  <2>2. Nth(i) = ring.cells[c] /\ Nth(i)' = ring'.cells[c]
    BY <1>1 DEF Nth, Rem
  <2>3. n = IF i <= ring.fill THEN Capacity - ring.fill + i - 1 ELSE i - 1 - ring.fill
    BY <1>3
  <2>4. ring'.cells[c] = IF n < k THEN reader.seen - reader.owed + n + 1 ELSE ring.cells[c]
    <3> HIDE DEF c
    <3> QED
      BY <1>1, <2>1
  <2> HIDE DEF c, n
  <2> QED
    BY <1>0, <2>2, <2>3, <2>4
<1>7. \A i \in 1..ring.fill : Nth(i)' = Nth(i)
  BY <1>0, <1>6
<1>8. \A i \in (ring.fill + 1)..(ring.fill + k) :
        Nth(i)' = reader.seen - reader.owed + (i - ring.fill)
  BY <1>0, <1>6
<1> QED
  BY <1>1, <1>5, <1>7, <1>8

(* codec_jitter_copy_out removes the oldest. *)
LEMMA CopyOutRemoves ==
  ASSUME RingShape, NEW k \in 1..ring.fill, ring' = CopyOut(k)
  PROVE  /\ RingShape'
         /\ ring'.fill = ring.fill - k /\ ring'.canRead = ring.canRead
         /\ ring'.eof = ring.eof /\ ring'.failed = ring.failed
         /\ ring'.memory = ring.memory /\ ring'.canWrite
         /\ \A i \in 1..(ring.fill - k) : Nth(i)' = Nth(k + i)
<1>0. Capacity \in Nat \ {0} /\ ring.fill \in 0..Capacity /\ ring.read \in 0..(Capacity - 1)
  BY StreamAssumption DEF RingShape
<1>1. /\ ring'.read = Rem(ring.read + k, Capacity) /\ ring'.fill = ring.fill - k
      /\ ring'.cells = ring.cells /\ ring'.write = ring.write
      /\ ring'.eof = ring.eof /\ ring'.failed = ring.failed /\ ring'.canRead = ring.canRead
      /\ ring'.memory = ring.memory /\ ring'.canWrite /\ ring'.canWrite \in BOOLEAN
      /\ DOMAIN ring' = DOMAIN ring
  BY DEF CopyOut, RingShape, Rem
<1>2. /\ Rem(ring.read + ring.fill, Capacity)
           = Rem(Rem(ring.read + k, Capacity) + (ring.fill - k), Capacity)
      /\ \A i \in 1..(ring.fill - k) :
           Rem(Rem(ring.read + k, Capacity) + i - 1, Capacity)
             = Rem(ring.read + (k + i) - 1, Capacity)
  BY <1>0, RestOfRing
<1>3. ring'.write = Rem(ring'.read + ring'.fill, Capacity)
  BY <1>1, <1>2 DEF RingShape
<1>4. ring'.read \in 0..(Capacity - 1) /\ ring'.fill \in 0..Capacity
  BY <1>0, <1>1, Remainder
<1>5. RingShape'
  BY <1>1, <1>3, <1>4 DEF RingShape
<1>6. \A i \in 1..(ring.fill - k) : Nth(i)' = Nth(k + i)
  BY <1>1, <1>2 DEF Nth, Rem
<1> QED
  BY <1>1, <1>5, <1>6

-----------------------------------------------------------------------------
(* The two tasks.                                                          *)

Buffered == {"prebuffer", "prewait", "ready", "read", "readwait", "feed", "flush", "end",
             "signal", "join"}
Plain == {"direct", "direct_read", "direct_end"}

(* The fields the argument looks at, and no more of the types. *)
Shape ==
  /\ RingShape
  /\ {"at", "err", "begun", "eos", "over"} \subseteq DOMAIN player
  /\ {player.err, player.eos, player.over} \subseteq BOOLEAN
  /\ {"at", "seen", "owed", "err", "done"} \subseteq DOMAIN reader
  /\ reader.seen \in Nat /\ reader.owed \in Nat /\ reader.done \in BOOLEAN
  /\ source.length \in Int /\ source.kind \in Kinds
  /\ played \in Int

Control ==
  /\ reader.done <=> reader.at \in {"notify", "gone"}
  /\ player.at \in {"open", "init", "first"} \cup Plain => reader.at = "none" /\ ring.fill = 0
  /\ player.at \in {"open", "init", "first", "direct"} =>
       played = 0 /\ reader.owed = reader.seen /\ reader.seen <= Capacity
  /\ reader.at \notin {"none", "notify", "gone"} => player.at \in Buffered
  /\ player.at \in Buffered \cup {"first"} <=> ring.memory = "live"
  /\ player.at \in Plain => source.kind = "wav"
  /\ source.kind = "wav" /\ player.at \in Buffered => reader.at # "none"
  /\ reader.at \in {"loop", "http"} => reader.owed = 0

(* When the source has ended, and when a player that did not fail goes.    *)
Ending ==
  /\ ring.eof => reader.at \in {"signal", "done", "notify", "gone"}
  /\ player.over => player.at \in {"direct_end", "gone"} /\ reader.at = "none"
  /\ player.at = "direct_end" /\ ~player.err => player.over
  /\ player.at = "feed" /\ player.eos => ring.eof /\ ring.fill = 0
  /\ player.at = "flush" \/ (player.at \in {"end", "signal", "join"} /\ ~player.err) =>
       ring.eof /\ ring.fill = 0
  /\ player.at # "gone" => outcome = "none"

StreamInv == Shape /\ Control /\ Ending /\ NoMissedWake

LEMMA StreamInitInv == StreamInit => StreamInv
<1> SUFFICES ASSUME StreamInit PROVE StreamInv
  OBVIOUS
<1>1. RingShape
  <2>1. Capacity \in Nat \ {0} /\ Rem(0, Capacity) = 0
    <3>1. Capacity \in Nat \ {0} /\ 0 \in 0..(2 * Capacity - 1)
      BY StreamAssumption
    <3> QED
      BY <3>1, Wraps
  <2> QED
    BY <2>1 DEF StreamInit, EmptyRing, RingShape
<1>2. Shape
  BY <1>1 DEF StreamInit, Shape, Unknown, Kinds
<1>3. Control /\ Ending /\ NoMissedWake
  BY StreamAssumption
  DEF StreamInit, EmptyRing, Control, Ending, NoMissedWake, Buffered, Plain
<1> QED
  BY <1>2, <1>3 DEF StreamInv

(* A step that leaves the units in the ring alone. *)
LEMMA RingUntouched ==
  ASSUME RingShape,
         {"cells", "write", "read", "fill", "eof", "failed", "canRead", "canWrite", "memory"}
           \subseteq DOMAIN ring',
         ring'.cells = ring.cells, ring'.write = ring.write, ring'.read = ring.read,
         ring'.fill = ring.fill,
         {ring'.eof, ring'.failed, ring'.canRead, ring'.canWrite} \subseteq BOOLEAN
  PROVE  RingShape'
  BY DEF RingShape

LEMMA EmptyRingShape ==
  ASSUME ring' = [EmptyRing EXCEPT !.memory = "freed"]
  PROVE  RingShape' /\ ring'.fill = 0 /\ ring'.memory = "freed" /\ ~ring'.eof
<1>1. Capacity \in Nat \ {0} /\ Rem(0, Capacity) = 0
  <2>1. Capacity \in Nat \ {0} /\ 0 \in 0..(2 * Capacity - 1)
    BY StreamAssumption
  <2> QED
    BY <2>1, Wraps
<1> QED
  BY <1>1 DEF EmptyRing, RingShape

(* What WriteBuffer and FirstWrite put in. *)
LEMMA WriteFits ==
  ASSUME StreamInv
  PROVE  /\ reader.at = "write" =>
              Smaller(reader.owed, Capacity - ring.fill) \in 0..(Capacity - ring.fill)
              /\ Smaller(reader.owed, Capacity - ring.fill) <= reader.owed
         /\ player.at = "first" => reader.owed \in 0..(Capacity - ring.fill)
         /\ reader.seen \in Int /\ reader.owed \in Int
<1>1. Capacity \in Nat /\ ring.fill \in 0..Capacity /\ reader.owed \in Nat /\ reader.seen \in Nat
  BY StreamAssumption DEF StreamInv, Shape, RingShape
<1>2. player.at = "first" => reader.owed \in 0..(Capacity - ring.fill)
  BY <1>1 DEF StreamInv, Control
<1> QED
  BY <1>1, <1>2 DEF Smaller

LEMMA ReadTakes ==
  ASSUME RingShape, ring.fill > 0
  PROVE  Smaller(ReadSize, ring.fill) \in 1..ring.fill
  BY StreamAssumption DEF RingShape, Smaller

(* FirstWrite, by what it comes to. *)
LEMMA FirstWriteCases ==
  ASSUME FirstWrite
  PROVE  /\ player.at = "first" /\ UNCHANGED <<aborted, source, played, outcome>>
         /\ \/ /\ player' = [player EXCEPT !.at = "prebuffer"]
               /\ reader' = [reader EXCEPT !.at = "loop", !.owed = 0]
               /\ ring' = CopyIn(reader.owed)
            \/ /\ player' = [player EXCEPT !.at = "end", !.err = TRUE]
               /\ source.kind = "codec"
               /\ \/ ring' = CopyIn(reader.owed) /\ reader' = [reader EXCEPT !.owed = 0]
                  \/ ring' = ring /\ reader' = [reader EXCEPT !.owed = reader.owed]
            \/ /\ player' = [player EXCEPT !.at = "direct"]
               /\ source.kind = "wav" /\ reader' = reader
               /\ ring' = [EmptyRing EXCEPT !.memory = "freed"]
<1> DEFINE written == reader.owed = 0 \/ ~aborted
<1>1. CASE written
  BY <1>1 DEF FirstWrite, PlayerGoes, PlayerFails
<1>2. CASE ~written
  BY <1>2 DEF FirstWrite, PlayerGoes, PlayerFails
<1> QED
  BY <1>1, <1>2

LEMMA PlayerKeepsShape ==
  ASSUME StreamInv, StreamPlayer
  PROVE  Shape'
<1> USE DEF Shape
<1>0. Shape /\ RingShape
  BY DEF StreamInv
<1>1. CASE OpenStream
  <2>1. RingShape'
    BY <1>0, <1>1, RingUntouched DEF OpenStream, RingShape
  <2>2. CASE UNCHANGED reader
    BY <1>0, <1>1, <2>1, <2>2 DEF OpenStream, PlayerGoes
  <2>3. CASE \E n \in (IF source.kind = "codec" THEN 1 ELSE 0)..Smaller(MaxHeader, Left) :
               reader' = [reader EXCEPT !.seen = n, !.owed = n]
    <3>1. Smaller(MaxHeader, Left) \in Int
      BY <1>0, StreamAssumption DEF Smaller, Left
    <3>2. PICK n \in (IF source.kind = "codec" THEN 1 ELSE 0)..Smaller(MaxHeader, Left) :
                 reader' = [reader EXCEPT !.seen = n, !.owed = n]
      BY <2>3
    <3>3. n \in Nat
      BY <3>1, <3>2
    <3> QED
      BY <1>0, <1>1, <2>1, <3>2, <3>3 DEF OpenStream, PlayerGoes
  <2> QED
    BY <1>1, <2>2, <2>3 DEF OpenStream
<1>2. CASE MakeBuffer
  <2>1. RingShape'
    BY <1>0, <1>2, RingUntouched DEF MakeBuffer, RingShape
  <2> QED
    BY <1>0, <1>2, <2>1 DEF MakeBuffer, PlayerGoes
<1>3. CASE FirstWrite
  <2>1. RingShape'
    <3>1. CASE ring' = CopyIn(reader.owed)
      BY <1>0, <1>3, <3>1, WriteFits, CopyInAppends DEF FirstWrite
    <3>2. CASE ring' = ring
      BY <1>0, <3>2, RingUntouched DEF RingShape
    <3>3. CASE ring' = [EmptyRing EXCEPT !.memory = "freed"]
      BY <3>3, EmptyRingShape
    <3> QED
      BY <1>3, <3>1, <3>2, <3>3, FirstWriteCases
  <2>2. UNCHANGED <<source, played>>
        /\ \/ player' = [player EXCEPT !.at = "prebuffer"]
           \/ player' = [player EXCEPT !.at = "end", !.err = TRUE]
           \/ player' = [player EXCEPT !.at = "direct"]
    BY <1>3, FirstWriteCases
  <2>3. \/ reader' = [reader EXCEPT !.at = "loop", !.owed = 0]
        \/ reader' = [reader EXCEPT !.owed = 0]
        \/ reader' = [reader EXCEPT !.owed = reader.owed]
        \/ reader' = reader
    BY <1>3, FirstWriteCases
  <2>4. /\ {"at", "err", "begun", "eos", "over"} \subseteq DOMAIN player'
        /\ {player'.err, player'.eos, player'.over} \subseteq BOOLEAN
    BY <1>0, <2>2
  <2>5. /\ {"at", "seen", "owed", "err", "done"} \subseteq DOMAIN reader'
        /\ reader'.seen \in Nat /\ reader'.owed \in Nat /\ reader'.done \in BOOLEAN
    <3>1. CASE reader' = [reader EXCEPT !.at = "loop", !.owed = 0]
      BY <1>0, <3>1
    <3>2. CASE reader' = [reader EXCEPT !.owed = 0]
      BY <1>0, <3>2
    <3>3. CASE reader' = [reader EXCEPT !.owed = reader.owed]
      BY <1>0, <3>3
    <3>4. CASE reader' = reader
      BY <1>0, <3>4
    <3> QED
      BY <2>3, <3>1, <3>2, <3>3, <3>4
  <2> QED
    BY <1>0, <2>1, <2>2, <2>4, <2>5
<1>4. CASE WaitPrebuffer
  <2>1. RingShape'
    BY <1>0, <1>4, RingUntouched DEF WaitPrebuffer, RingShape
  <2> QED
    BY <1>0, <1>4, <2>1 DEF WaitPrebuffer, PlayerGoes, PlayerFails
<1>5. CASE PlayerWaits
  <2>1. RingShape'
    BY <1>0, <1>5, RingUntouched DEF PlayerWaits, RingShape
  <2> QED
    BY <1>0, <1>5, <2>1 DEF PlayerWaits, PlayerGoes
<1>6. CASE BeginPlaying
  <2>1. RingShape'
    BY <1>0, <1>6, RingUntouched DEF BeginPlaying, RingShape
  <2> QED
    BY <1>0, <1>6, <2>1 DEF BeginPlaying, PlayerFails
<1>7. CASE ReadBuffer
  <2>1. CASE player'.at = "feed"
    <3> DEFINE k == Smaller(ReadSize, ring.fill)
    <3>1. ring.fill > 0 /\ played' = Nth(k) /\ ring' = CopyOut(k)
          /\ player' = [player EXCEPT !.at = "feed", !.eos = (ring.eof /\ ring.fill = k)]
          /\ UNCHANGED <<source, reader>>
      BY <1>0, <1>7, <2>1 DEF ReadBuffer, PlayerGoes, PlayerFails
    <3>2. k \in 1..ring.fill
      BY <1>0, <3>1, ReadTakes
    <3> HIDE DEF k
    <3>3. RingShape'
      BY <1>0, <3>1, <3>2, CopyOutRemoves
    <3>4. played' \in Int
      <4>1. k \in 1..Capacity /\ Capacity \in Nat \ {0} /\ ring.read + k - 1 \in Int
        BY <1>0, <3>2, StreamAssumption DEF RingShape
      <4>2. Rem(ring.read + k - 1, Capacity) \in 0..(Capacity - 1)
        BY <4>1, Remainder
      <4> QED
        BY <1>0, <3>1, <4>2 DEF Nth, Rem, RingShape
    <3> QED
      BY <1>0, <3>1, <3>3, <3>4
  <2>2. CASE player'.at # "feed"
    <3>1. UNCHANGED <<ring, played>>
      BY <1>0, <1>7, <2>2 DEF ReadBuffer
    <3>2. RingShape'
      BY <1>0, <3>1, RingUntouched DEF RingShape
    <3> QED
      BY <1>0, <1>7, <2>2, <3>1, <3>2 DEF ReadBuffer, PlayerGoes, PlayerFails
  <2> QED
    BY <2>1, <2>2
<1>8. CASE Feed
  <2>1. RingShape'
    BY <1>0, <1>8, RingUntouched DEF Feed, RingShape
  <2> QED
    BY <1>0, <1>8, <2>1 DEF Feed, PlayerFails
<1>9. CASE FlushPcm
  <2>1. RingShape'
    BY <1>0, <1>9, RingUntouched DEF FlushPcm, RingShape
  <2> QED
    BY <1>0, <1>9, <2>1 DEF FlushPcm, PlayerFails, PlayerGoes
<1>10. CASE EndPlaying
  <2>1. RingShape'
    BY <1>0, <1>10, RingUntouched DEF EndPlaying, CloseOrFail, RingShape
  <2> QED
    BY <1>0, <1>10, <2>1 DEF EndPlaying, PlayerGoes
<1>11. CASE PlayerSignals
  <2>1. RingShape'
    BY <1>0, <1>11, RingUntouched DEF PlayerSignals, SignalBoth, RingShape
  <2> QED
    BY <1>0, <1>11, <2>1 DEF PlayerSignals, PlayerGoes
<1>12. CASE JoinReader
  <2>1. RingShape'
    BY <1>0, <1>12, RingUntouched DEF JoinReader, RingShape
  <2> QED
    BY <1>0, <1>12, <2>1 DEF JoinReader, PlayerGoes
<1>13. CASE DirectBegin
  <2>1. RingShape'
    BY <1>0, <1>13, RingUntouched DEF DirectBegin, RingShape
  <2>2. CASE UNCHANGED <<reader, played>>
    BY <1>0, <1>13, <2>1, <2>2 DEF DirectBegin, PlayerGoes
  <2>3. CASE played' = reader.seen /\ reader' = [reader EXCEPT !.owed = 0]
    <3>1. /\ {"at", "err", "begun", "eos", "over"} \subseteq DOMAIN player'
          /\ player'.err = player.err /\ player'.eos = player.eos /\ player'.over = player.over
          /\ source' = source
      BY <1>0, <1>13 DEF DirectBegin, PlayerGoes
    <3>2. /\ {"at", "seen", "owed", "err", "done"} \subseteq DOMAIN reader'
          /\ reader'.seen = reader.seen /\ reader'.owed = 0 /\ reader'.done = reader.done
      BY <1>0, <2>3
    <3> QED
      BY <1>0, <2>1, <2>3, <3>1, <3>2
  <2> QED
    BY <1>13, <2>2, <2>3 DEF DirectBegin
<1>14. CASE DirectRead
  <2>1. RingShape'
    BY <1>0, <1>14, RingUntouched DEF DirectRead, RingShape
  <2>2. Smaller(ReadSize, Left) \in Int
    BY <1>0, StreamAssumption DEF Smaller, Left
  <2>3. CASE UNCHANGED <<reader, played>>
    BY <1>0, <1>14, <2>1, <2>3 DEF DirectRead
  <2>4. CASE UNCHANGED player
    <3>1. PICK k \in 1..Smaller(ReadSize, Left) :
                 played' = played + k /\ reader' = [reader EXCEPT !.seen = @ + k]
      BY <1>0, <1>14, <2>4 DEF DirectRead
    <3>2. k \in Nat /\ source' = source
      BY <1>14, <2>2, <3>1 DEF DirectRead
    <3> QED
      BY <1>0, <2>1, <2>4, <3>1, <3>2
  <2> QED
    BY <1>14, <2>3, <2>4 DEF DirectRead
<1>15. CASE DirectEnd
  <2>1. RingShape'
    BY <1>0, <1>15, RingUntouched DEF DirectEnd, RingShape
  <2> QED
    BY <1>0, <1>15, <2>1 DEF DirectEnd, PlayerGoes
<1> QED
  BY <1>1, <1>2, <1>3, <1>4, <1>5, <1>6, <1>7, <1>8, <1>9, <1>10, <1>11, <1>12, <1>13, <1>14,
     <1>15
  DEF StreamPlayer

LEMMA ReaderKeepsShape ==
  ASSUME StreamInv, StreamReader \/ AbortStream
  PROVE  Shape'
<1> USE DEF Shape
<1>0. Shape /\ RingShape
  BY DEF StreamInv
<1>1. CASE ReaderLoop
  <2>1. RingShape'
    BY <1>0, <1>1, RingUntouched DEF ReaderLoop, RingShape
  <2> QED
    BY <1>0, <1>1, <2>1 DEF ReaderLoop, ReaderGoes
<1>2. CASE HttpRead
  <2>1. RingShape'
    BY <1>0, <1>2, RingUntouched DEF HttpRead, RingShape
  <2>2. UNCHANGED <<source, player, played>>
    BY <1>2 DEF HttpRead
  <2>3. CASE ReaderGoes("finish") \/ ReaderFails
    BY <1>0, <2>1, <2>2, <2>3 DEF ReaderGoes, ReaderFails
  <2>4. CASE \E k \in 1..Smaller(ReadSize, Left) :
               reader' = [reader EXCEPT !.at = "write", !.seen = @ + k, !.owed = k]
    <3>1. Smaller(ReadSize, Left) \in Int
      BY <1>0, StreamAssumption DEF Smaller, Left
    <3>2. PICK k \in 1..Smaller(ReadSize, Left) :
                 reader' = [reader EXCEPT !.at = "write", !.seen = @ + k, !.owed = k]
      BY <2>4
    <3>3. k \in Nat
      BY <3>1
    <3>4. /\ {"at", "seen", "owed", "err", "done"} \subseteq DOMAIN reader'
          /\ reader'.seen \in Nat /\ reader'.owed \in Nat /\ reader'.done \in BOOLEAN
      BY <1>0, <3>2, <3>3
    <3> QED
      BY <1>0, <2>1, <2>2, <3>4
  <2> QED
    BY <1>2, <2>3, <2>4 DEF HttpRead
<1>3. CASE WriteBuffer
  <2> DEFINE k == Smaller(reader.owed, Capacity - ring.fill)
  <2>0. k \in 0..(Capacity - ring.fill) /\ k <= reader.owed
        /\ reader.seen \in Int /\ reader.owed \in Int
    BY <1>0, <1>3, WriteFits DEF WriteBuffer
  <2> HIDE DEF k
  <2>1. UNCHANGED <<source, player, played>>
    BY <1>3 DEF WriteBuffer
  <2>2. CASE ReaderFails /\ UNCHANGED ring
    <3>1. RingShape'
      BY <1>0, <2>2, RingUntouched DEF RingShape
    <3> QED
      BY <1>0, <2>1, <2>2, <3>1 DEF ReaderFails
  <2>3. CASE /\ ring' = CopyIn(k)
             /\ reader' = [reader EXCEPT !.at = IF k = reader.owed THEN "loop" ELSE "wait",
                                         !.owed = @ - k]
    <3>1. RingShape'
      BY <1>0, <2>0, <2>3, CopyInAppends
    <3>2. k \in Int /\ reader.owed - k \in Nat
      <4>1. ring.fill \in Int /\ Capacity \in Int
        BY <1>0, StreamAssumption DEF RingShape
      <4> QED
        BY <1>0, <2>0, <4>1
    <3>3. /\ {"at", "seen", "owed", "err", "done"} \subseteq DOMAIN reader'
          /\ reader'.seen \in Nat /\ reader'.owed \in Nat /\ reader'.done \in BOOLEAN
      BY <1>0, <2>3, <3>2
    <3> QED
      BY <1>0, <2>1, <3>1, <3>3
  <2> QED
    BY <1>3, <2>2, <2>3 DEF WriteBuffer, k
<1>4. CASE WriterWaits
  <2>1. RingShape'
    BY <1>0, <1>4, RingUntouched DEF WriterWaits, RingShape
  <2> QED
    BY <1>0, <1>4, <2>1 DEF WriterWaits, ReaderGoes
<1>5. CASE FinishReading
  <2>1. RingShape'
    BY <1>0, <1>5, RingUntouched DEF FinishReading, CloseOrFail, RingShape
  <2> QED
    BY <1>0, <1>5, <2>1 DEF FinishReading, ReaderGoes
<1>6. CASE ReaderSignals
  <2>1. RingShape'
    BY <1>0, <1>6, RingUntouched DEF ReaderSignals, SignalBoth, RingShape
  <2> QED
    BY <1>0, <1>6, <2>1 DEF ReaderSignals, ReaderGoes
<1>7. CASE ReaderDone \/ NotifyPlayer \/ AbortStream
  <2>1. RingShape'
    BY <1>0, <1>7, RingUntouched DEF ReaderDone, NotifyPlayer, AbortStream, RingShape
  <2> QED
    BY <1>0, <1>7, <2>1 DEF ReaderDone, NotifyPlayer, AbortStream, ReaderGoes
<1> QED
  BY <1>1, <1>2, <1>3, <1>4, <1>5, <1>6, <1>7 DEF StreamReader

-----------------------------------------------------------------------------
(* What the two tasks know of each other. *)

LEMMA PlayerKeepsControl ==
  ASSUME StreamInv, StreamPlayer
  PROVE  Control'
<1> USE DEF Control, Buffered, Plain
<1>0. Shape /\ RingShape /\ Control
  BY DEF StreamInv, Shape
<1>1. CASE OpenStream
  <2>1. CASE UNCHANGED reader
    BY <1>0, <1>1, <2>1 DEF OpenStream, PlayerGoes, Shape
  <2>2. CASE \E n \in (IF source.kind = "codec" THEN 1 ELSE 0)..Smaller(MaxHeader, Left) :
               reader' = [reader EXCEPT !.seen = n, !.owed = n]
    <3>1. Smaller(MaxHeader, Left) \in Int /\ Smaller(MaxHeader, Left) <= Capacity
      BY <1>0, StreamAssumption DEF Smaller, Left, Shape
    <3>2. PICK n \in (IF source.kind = "codec" THEN 1 ELSE 0)..Smaller(MaxHeader, Left) :
                 reader' = [reader EXCEPT !.seen = n, !.owed = n]
      BY <2>2
    <3>3. n \in Nat /\ n <= Capacity
      BY <3>1, <3>2, StreamAssumption
    <3>4. /\ reader'.at = reader.at /\ reader'.done = reader.done
          /\ reader'.seen = n /\ reader'.owed = n
      BY <1>0, <3>2 DEF Shape
    <3>5. player.at = "open" /\ player'.at \in {"init", "gone"}
          /\ UNCHANGED <<source, ring, played>>
      BY <1>0, <1>1 DEF OpenStream, PlayerGoes, Shape
    <3> QED
      BY <1>0, <3>3, <3>4, <3>5
  <2> QED
    BY <1>1, <2>1, <2>2 DEF OpenStream
<1>2. CASE MakeBuffer
  BY <1>0, <1>2 DEF MakeBuffer, PlayerGoes, Shape, RingShape, Kinds
<1>3. CASE FirstWrite
  <2>0. player.at = "first" /\ UNCHANGED <<source, played>>
    BY <1>3, FirstWriteCases
  <2>1. ring' = CopyIn(reader.owed) => ring'.memory = ring.memory
    BY <1>0, <2>0, WriteFits, CopyInAppends
  <2>2. CASE /\ player' = [player EXCEPT !.at = "prebuffer"]
             /\ reader' = [reader EXCEPT !.at = "loop", !.owed = 0]
             /\ ring' = CopyIn(reader.owed)
    <3>1. player'.at = "prebuffer" /\ reader'.at = "loop" /\ reader'.owed = 0
          /\ reader'.done = reader.done
      BY <1>0, <2>2 DEF Shape
    <3> QED
      BY <1>0, <2>0, <2>1, <2>2, <3>1
  <2>3. CASE /\ player' = [player EXCEPT !.at = "end", !.err = TRUE]
             /\ source.kind = "codec"
             /\ \/ ring' = CopyIn(reader.owed) /\ reader' = [reader EXCEPT !.owed = 0]
                \/ ring' = ring /\ reader' = [reader EXCEPT !.owed = reader.owed]
    <3>1. player'.at = "end" /\ reader'.at = reader.at /\ reader'.done = reader.done
          /\ ring'.memory = ring.memory
      BY <1>0, <2>1, <2>3 DEF Shape
    <3> QED
      BY <1>0, <2>0, <2>3, <3>1
  <2>4. CASE /\ player' = [player EXCEPT !.at = "direct"]
             /\ source.kind = "wav" /\ reader' = reader
             /\ ring' = [EmptyRing EXCEPT !.memory = "freed"]
    <3>1. player'.at = "direct" /\ ring'.memory = "freed" /\ ring'.fill = 0
      BY <1>0, <2>4, EmptyRingShape DEF Shape
    <3> QED
      BY <1>0, <2>0, <2>4, <3>1
  <2> QED
    BY <1>3, <2>2, <2>3, <2>4, FirstWriteCases
<1>4. CASE WaitPrebuffer
  BY <1>0, <1>4 DEF WaitPrebuffer, PlayerGoes, PlayerFails, Shape
<1>5. CASE PlayerWaits
  BY <1>0, <1>5 DEF PlayerWaits, PlayerGoes, Shape, RingShape
<1>6. CASE BeginPlaying
  BY <1>0, <1>6 DEF BeginPlaying, PlayerFails, Shape
<1>7. CASE ReadBuffer
  <2>1. player'.at \in Buffered /\ player.at = "read"
    BY <1>0, <1>7 DEF ReadBuffer, PlayerGoes, PlayerFails, Shape
  <2>2. ring'.memory = ring.memory
    <3>1. CASE ring.fill > 0 /\ ring' = CopyOut(Smaller(ReadSize, ring.fill))
      BY <1>0, <3>1, ReadTakes, CopyOutRemoves
    <3> QED
      BY <1>7, <3>1 DEF ReadBuffer
  <2>3. UNCHANGED <<source, reader>>
    BY <1>7 DEF ReadBuffer
  <2> QED
    BY <1>0, <2>1, <2>2, <2>3
<1>8. CASE Feed
  BY <1>0, <1>8 DEF Feed, PlayerFails, Shape
<1>9. CASE FlushPcm
  BY <1>0, <1>9 DEF FlushPcm, PlayerFails, PlayerGoes, Shape
<1>10. CASE EndPlaying
  BY <1>0, <1>10 DEF EndPlaying, CloseOrFail, PlayerGoes, Shape, RingShape
<1>11. CASE PlayerSignals
  BY <1>0, <1>11 DEF PlayerSignals, SignalBoth, PlayerGoes, Shape, RingShape
<1>12. CASE JoinReader
  BY <1>0, <1>12 DEF JoinReader, Joined, PlayerGoes, Shape, RingShape
<1>13. CASE DirectBegin
  <2>1. player.at = "direct" /\ player'.at \in {"direct_read", "gone"}
        /\ UNCHANGED <<source, ring>>
    BY <1>0, <1>13 DEF DirectBegin, PlayerGoes, Shape
  <2>2. reader'.at = reader.at /\ reader'.done = reader.done
    BY <1>0, <1>13 DEF DirectBegin, Shape
  <2> QED
    BY <1>0, <2>1, <2>2
<1>14. CASE DirectRead
  <2>1. player.at = "direct_read" /\ player'.at \in {"direct_read", "direct_end"}
        /\ UNCHANGED <<source, ring>>
    BY <1>0, <1>14 DEF DirectRead, Shape
  <2>2. reader'.at = reader.at /\ reader'.done = reader.done
    BY <1>0, <1>14 DEF DirectRead, Shape
  <2> QED
    BY <1>0, <2>1, <2>2
<1>15. CASE DirectEnd
  BY <1>0, <1>15 DEF DirectEnd, PlayerGoes, Shape
<1> QED
  BY <1>1, <1>2, <1>3, <1>4, <1>5, <1>6, <1>7, <1>8, <1>9, <1>10, <1>11, <1>12, <1>13, <1>14,
     <1>15
  DEF StreamPlayer

(* What WriteBuffer comes to. *)
LEMMA WriteBufferCases ==
  ASSUME StreamInv, WriteBuffer
  PROVE  /\ reader.at = "write" /\ UNCHANGED <<aborted, source, player, played, outcome>>
         /\ \/ ReaderFails /\ UNCHANGED ring
            \/ \E k \in 0..(Capacity - ring.fill) :
                 /\ k <= reader.owed /\ ring' = CopyIn(k) /\ ~ring.failed
                 /\ \/ k = reader.owed
                       /\ reader' = [reader EXCEPT !.at = "loop", !.owed = reader.owed - k]
                    \/ k = Capacity - ring.fill /\ k < reader.owed
                       /\ reader' = [reader EXCEPT !.at = "wait", !.owed = reader.owed - k]
<1> DEFINE k == Smaller(reader.owed, Capacity - ring.fill)
<1>1. reader.at = "write" /\ UNCHANGED <<aborted, source, player, played, outcome>>
  BY DEF WriteBuffer
<1>2. k \in 0..(Capacity - ring.fill) /\ k <= reader.owed
      /\ (k = reader.owed \/ (k = Capacity - ring.fill /\ k < reader.owed))
  <2>1. Capacity - ring.fill \in Nat /\ reader.owed \in Nat
    BY StreamAssumption DEF StreamInv, Shape, RingShape
  <2> QED
    BY <2>1 DEF Smaller
<1>3. CASE ~(ReaderFails /\ UNCHANGED ring)
  <2>1. /\ ring' = CopyIn(k) /\ ~ring.failed
        /\ reader' = [reader EXCEPT !.at = IF k = reader.owed THEN "loop" ELSE "wait",
                                    !.owed = reader.owed - k]
    BY <1>3 DEF WriteBuffer, WriteRefused
  <2> HIDE DEF k
  <2>2. CASE k = reader.owed
    BY <1>1, <1>2, <2>1, <2>2
  <2>3. CASE k # reader.owed
    BY <1>1, <1>2, <2>1, <2>3
  <2> QED
    BY <2>2, <2>3
<1> QED
  BY <1>1, <1>3

LEMMA ReaderKeepsControl ==
  ASSUME StreamInv, StreamReader \/ AbortStream
  PROVE  Control'
<1> USE DEF Control, Buffered, Plain
<1>0. Shape /\ RingShape /\ Control
  BY DEF StreamInv, Shape
<1>1. CASE ReaderLoop
  BY <1>0, <1>1 DEF ReaderLoop, ReaderGoes, Shape
<1>2. CASE HttpRead
  <2>1. reader.at = "http" /\ reader'.at \in {"write", "finish"} /\ reader'.done = reader.done
        /\ UNCHANGED <<source, ring, player, played>>
    BY <1>0, <1>2 DEF HttpRead, ReaderGoes, ReaderFails, Shape
  <2> QED
    BY <1>0, <2>1
<1>3. CASE WriteBuffer
  <2>1. reader.at = "write" /\ UNCHANGED <<source, player, played>>
    BY <1>3, WriteBufferCases
  <2>2. CASE ReaderFails /\ UNCHANGED ring
    BY <1>0, <2>1, <2>2 DEF ReaderFails, Shape
  <2>3. ASSUME NEW k \in 0..(Capacity - ring.fill), ring' = CopyIn(k),
               \/ k = reader.owed
                  /\ reader' = [reader EXCEPT !.at = "loop", !.owed = reader.owed - k]
               \/ reader' = [reader EXCEPT !.at = "wait", !.owed = reader.owed - k]
        PROVE  Control'
    <3>1. ring'.memory = ring.memory
      BY <1>0, <2>3, WriteFits, CopyInAppends
    <3>2. reader'.done = reader.done
          /\ (reader'.at = "wait" \/ (reader'.at = "loop" /\ reader'.owed = 0))
      <4>1. CASE k = reader.owed
                 /\ reader' = [reader EXCEPT !.at = "loop", !.owed = reader.owed - k]
        BY <1>0, <4>1 DEF Shape
      <4>2. CASE reader' = [reader EXCEPT !.at = "wait", !.owed = reader.owed - k]
        BY <1>0, <4>2 DEF Shape
      <4> QED
        BY <2>3, <4>1, <4>2
    <3> QED
      BY <1>0, <2>1, <3>1, <3>2
  <2> QED
    BY <1>3, <2>2, <2>3, WriteBufferCases
<1>4. CASE WriterWaits
  BY <1>0, <1>4 DEF WriterWaits, ReaderGoes, Shape, RingShape
<1>5. CASE FinishReading
  BY <1>0, <1>5 DEF FinishReading, CloseOrFail, ReaderGoes, Shape, RingShape
<1>6. CASE ReaderSignals
  BY <1>0, <1>6 DEF ReaderSignals, SignalBoth, ReaderGoes, Shape, RingShape
<1>7. CASE ReaderDone
  BY <1>0, <1>7 DEF ReaderDone, Shape
<1>8. CASE NotifyPlayer \/ AbortStream
  BY <1>0, <1>8 DEF NotifyPlayer, AbortStream, ReaderGoes, Shape
<1> QED
  BY <1>1, <1>2, <1>3, <1>4, <1>5, <1>6, <1>7, <1>8 DEF StreamReader

LEMMA PlayerKeepsEnding ==
  ASSUME StreamInv, StreamPlayer
  PROVE  Ending'
<1> USE DEF Ending, Buffered, Plain
<1>0. Shape /\ RingShape /\ Control /\ Ending
  BY DEF StreamInv, Shape
<1>1. CASE OpenStream
  <2>1. player.at = "open" /\ player'.at \in {"init", "gone"} /\ player'.over = player.over
        /\ reader.at = "none" /\ UNCHANGED ring
        /\ (player'.at = "init" => outcome' = outcome)
    BY <1>0, <1>1 DEF OpenStream, PlayerGoes, Shape, Control
  <2> QED
    BY <1>0, <2>1
<1>2. CASE MakeBuffer
  BY <1>0, <1>2 DEF MakeBuffer, PlayerGoes, Shape, RingShape, Control
<1>3. CASE FirstWrite
  <2>0. player.at = "first" /\ UNCHANGED outcome /\ reader.at = "none" /\ ~ring.eof
    BY <1>0, <1>3, FirstWriteCases DEF Control
  <2>1. \/ player' = [player EXCEPT !.at = "prebuffer"]
        \/ player' = [player EXCEPT !.at = "end", !.err = TRUE]
        \/ player' = [player EXCEPT !.at = "direct"]
    BY <1>3, FirstWriteCases
  <2>2. player'.over = player.over /\ player'.at \in {"prebuffer", "end", "direct"}
        /\ (player'.at = "end" => player'.err)
    BY <1>0, <2>1 DEF Shape
  <2>3. ~ring'.eof
    <3>1. CASE ring' = CopyIn(reader.owed)
      BY <1>0, <2>0, <3>1, WriteFits, CopyInAppends
    <3>2. CASE ring' = [EmptyRing EXCEPT !.memory = "freed"]
      BY <3>2, EmptyRingShape
    <3>3. CASE ring' = ring
      BY <2>0, <3>3
    <3> QED
      BY <1>3, <3>1, <3>2, <3>3, FirstWriteCases
  <2> QED
    BY <1>0, <2>0, <2>2, <2>3
<1>4. CASE WaitPrebuffer
  BY <1>0, <1>4 DEF WaitPrebuffer, PlayerGoes, PlayerFails, Shape
<1>5. CASE PlayerWaits
  BY <1>0, <1>5 DEF PlayerWaits, PlayerGoes, Shape, RingShape
<1>6. CASE BeginPlaying
  BY <1>0, <1>6 DEF BeginPlaying, PlayerFails, Shape
<1>7. CASE ReadBuffer
  <2>1. player.at = "read" /\ UNCHANGED <<reader, outcome>> /\ ~player.over
    BY <1>0, <1>7 DEF ReadBuffer
  <2>2. CASE ~aborted /\ ring.fill > 0
             /\ ring' = CopyOut(Smaller(ReadSize, ring.fill))
             /\ player' = [player EXCEPT !.at = "feed",
                             !.eos = (ring.eof /\ ring.fill = Smaller(ReadSize, ring.fill))]
    <3> DEFINE k == Smaller(ReadSize, ring.fill)
    <3>1. k \in 1..ring.fill
      BY <1>0, <2>2, ReadTakes
    <3> HIDE DEF k
    <3>2. ring'.eof = ring.eof /\ ring'.fill = ring.fill - k
      BY <1>0, <2>2, <3>1, CopyOutRemoves DEF k
    <3>3. player'.at = "feed" /\ player'.over = player.over
          /\ (player'.eos => ring.eof /\ ring.fill = k)
      BY <1>0, <2>2 DEF Shape, k
    <3>4. ring.fill \in Int
      BY <1>0 DEF RingShape
    <3> QED
      BY <1>0, <2>1, <3>1, <3>2, <3>3, <3>4
  <2>3. CASE PlayerFails /\ UNCHANGED <<ring, played>>
    BY <1>0, <2>1, <2>3 DEF PlayerFails, Shape
  <2>4. CASE ring.fill = 0 /\ PlayerGoes(IF ring.eof THEN "flush" ELSE "readwait")
             /\ UNCHANGED <<ring, played>>
    BY <1>0, <2>1, <2>4 DEF PlayerGoes, Shape
  <2> QED
    BY <1>7, <2>2, <2>3, <2>4 DEF ReadBuffer
<1>8. CASE Feed
  BY <1>0, <1>8 DEF Feed, PlayerFails, Shape
<1>9. CASE FlushPcm
  BY <1>0, <1>9 DEF FlushPcm, PlayerFails, PlayerGoes, Shape
<1>10. CASE EndPlaying
  BY <1>0, <1>10 DEF EndPlaying, CloseOrFail, PlayerGoes, Shape, RingShape
<1>11. CASE PlayerSignals
  BY <1>0, <1>11 DEF PlayerSignals, SignalBoth, PlayerGoes, Shape, RingShape
<1>12. CASE JoinReader
  BY <1>0, <1>12 DEF JoinReader, PlayerGoes, Shape, RingShape
<1>13. CASE DirectBegin
  <2>1. player.at = "direct" /\ player'.at \in {"direct_read", "gone"}
        /\ player'.over = player.over /\ ring' = ring
        /\ (player'.at = "direct_read" => outcome' = outcome)
    BY <1>0, <1>13 DEF DirectBegin, PlayerGoes, Shape
  <2>2. reader.at = "none" /\ reader'.at = "none"
    BY <1>0, <1>13 DEF DirectBegin, Shape, Control
  <2> QED
    BY <1>0, <2>1, <2>2
<1>14. CASE DirectRead
  <2>1. player.at = "direct_read" /\ UNCHANGED <<ring, outcome>>
        /\ \/ player'.at = "direct_read" /\ ~player'.over
           \/ player'.at = "direct_end" /\ (player'.err \/ player'.over)
    BY <1>0, <1>14 DEF DirectRead, Shape
  <2>2. reader.at = "none" /\ reader'.at = "none"
    BY <1>0, <1>14 DEF DirectRead, Shape, Control
  <2> QED
    BY <1>0, <2>1, <2>2
<1>15. CASE DirectEnd
  BY <1>0, <1>15 DEF DirectEnd, PlayerGoes, Shape
<1> QED
  BY <1>1, <1>2, <1>3, <1>4, <1>5, <1>6, <1>7, <1>8, <1>9, <1>10, <1>11, <1>12, <1>13, <1>14,
     <1>15
  DEF StreamPlayer

LEMMA ReaderKeepsEnding ==
  ASSUME StreamInv, StreamReader \/ AbortStream
  PROVE  Ending'
<1> USE DEF Ending, Buffered, Plain
<1>0. Shape /\ RingShape /\ Control /\ Ending
  BY DEF StreamInv, Shape
<1>1. CASE ReaderLoop
  BY <1>0, <1>1 DEF ReaderLoop, ReaderGoes, Shape
<1>2. CASE HttpRead
  <2>1. reader.at = "http" /\ UNCHANGED <<ring, player, outcome>>
    BY <1>2 DEF HttpRead
  <2> QED
    BY <1>0, <2>1
<1>3. CASE WriteBuffer
  <2>1. reader.at = "write" /\ UNCHANGED <<player, outcome>> /\ ~ring.eof /\ ~player.over
    BY <1>0, <1>3, WriteBufferCases
  <2>2. ~ring'.eof
    <3>1. ASSUME NEW k \in 0..(Capacity - ring.fill), ring' = CopyIn(k)
          PROVE  ~ring'.eof
      BY <1>0, <2>1, <3>1, WriteFits, CopyInAppends
    <3> QED
      BY <1>3, <2>1, <3>1, WriteBufferCases
  <2> QED
    BY <1>0, <2>1, <2>2
<1>4. CASE WriterWaits
  BY <1>0, <1>4 DEF WriterWaits, ReaderGoes, Shape, RingShape
<1>5. CASE FinishReading
  BY <1>0, <1>5 DEF FinishReading, CloseOrFail, ReaderGoes, Shape, RingShape
<1>6. CASE ReaderSignals
  BY <1>0, <1>6 DEF ReaderSignals, SignalBoth, ReaderGoes, Shape, RingShape
<1>7. CASE ReaderDone
  BY <1>0, <1>7 DEF ReaderDone, Shape
<1>8. CASE NotifyPlayer \/ AbortStream
  BY <1>0, <1>8 DEF NotifyPlayer, AbortStream, ReaderGoes, Shape
<1> QED
  BY <1>1, <1>2, <1>3, <1>4, <1>5, <1>6, <1>7, <1>8 DEF StreamReader

-----------------------------------------------------------------------------
(* The tokens. *)

LEMMA PlayerKeepsWakes ==
  ASSUME StreamInv, StreamPlayer
  PROVE  NoMissedWake'
<1> USE DEF NoMissedWake, Buffered, Plain
<1>0. Shape /\ RingShape /\ Control /\ NoMissedWake
  BY DEF StreamInv, Shape
<1>1. CASE player.at \in {"open", "init", "direct", "direct_read", "direct_end", "join"}
  <2>1. player'.at \notin {"readwait", "prewait"}
    BY <1>0, <1>1
    DEF StreamPlayer, OpenStream, MakeBuffer, FirstWrite, WaitPrebuffer, PlayerWaits,
        BeginPlaying, ReadBuffer, Feed, FlushPcm, EndPlaying, PlayerSignals, JoinReader,
        DirectBegin, DirectRead, DirectEnd, PlayerGoes, Shape
  <2>2. reader'.at = reader.at
    BY <1>0, <1>1
    DEF StreamPlayer, OpenStream, MakeBuffer, FirstWrite, WaitPrebuffer, PlayerWaits,
        BeginPlaying, ReadBuffer, Feed, FlushPcm, EndPlaying, PlayerSignals, JoinReader,
        DirectBegin, DirectRead, DirectEnd, PlayerGoes, Shape
  <2>3. reader'.at # "wait"
    BY <1>0, <1>1, <2>2
    DEF Control, StreamPlayer, OpenStream, MakeBuffer, FirstWrite, WaitPrebuffer, PlayerWaits,
        BeginPlaying, ReadBuffer, Feed, FlushPcm, EndPlaying, PlayerSignals, JoinReader,
        DirectBegin, DirectRead, DirectEnd, Joined
  <2> QED
    BY <2>1, <2>3
<1>2. CASE FirstWrite
  <2>1. \/ player' = [player EXCEPT !.at = "prebuffer"]
        \/ player' = [player EXCEPT !.at = "end", !.err = TRUE]
        \/ player' = [player EXCEPT !.at = "direct"]
    BY <1>2, FirstWriteCases
  <2>2. \/ reader' = [reader EXCEPT !.at = "loop", !.owed = 0]
        \/ reader' = [reader EXCEPT !.owed = 0]
        \/ reader' = [reader EXCEPT !.owed = reader.owed]
        \/ reader' = reader
    BY <1>2, FirstWriteCases
  <2>3. player'.at \notin {"readwait", "prewait"}
    BY <1>0, <2>1 DEF Shape
  <2>4. reader'.at # "wait"
    BY <1>0, <1>2, <2>2 DEF Shape, Control, FirstWrite
  <2> QED
    BY <2>3, <2>4
<1>3. CASE WaitPrebuffer
  <2>1. PrebufferTarget \in Int
    BY <1>0, StreamAssumption DEF PrebufferTarget, Smaller, Shape
  <2>2. UNCHANGED <<source, ring, reader>> /\ PrebufferTarget' = PrebufferTarget
    BY <1>3 DEF WaitPrebuffer, PrebufferTarget
  <2>3. player'.at \in {"end", "ready"}
        \/ (player'.at = "prewait" /\ ~ring.failed /\ ~ring.eof /\ ring.fill < PrebufferTarget)
    BY <1>0, <1>3 DEF WaitPrebuffer, PlayerGoes, PlayerFails, Shape
  <2>4. ring.fill \in Int
    BY <1>0 DEF RingShape
  <2>5. player'.at = "prewait" => ~(ring.fill >= PrebufferTarget)
    BY <2>1, <2>3, <2>4
  <2>6. player.at = "prebuffer" /\ reader' = reader /\ ring' = ring
    BY <1>3 DEF WaitPrebuffer
  <2> QED
    BY <1>0, <2>2, <2>3, <2>5, <2>6
<1>4. CASE PlayerWaits
  BY <1>0, <1>4 DEF PlayerWaits, PlayerGoes, Shape, RingShape
<1>5. CASE BeginPlaying
  BY <1>0, <1>5 DEF BeginPlaying, PlayerFails, Shape
<1>6. CASE ReadBuffer
  <2>1. CASE ring.fill > 0 /\ ring' = CopyOut(Smaller(ReadSize, ring.fill))
             /\ player' = [player EXCEPT !.at = "feed",
                             !.eos = (ring.eof /\ ring.fill = Smaller(ReadSize, ring.fill))]
    <3>1. ring'.canWrite
      BY <1>0, <2>1, ReadTakes, CopyOutRemoves
    <3>2. player'.at = "feed"
      BY <1>0, <2>1 DEF Shape
    <3> QED
      BY <3>1, <3>2
  <2>2. CASE PlayerFails /\ UNCHANGED <<ring, played>>
    BY <1>0, <1>6, <2>2 DEF PlayerFails, Shape, ReadBuffer
  <2>3. CASE ring.fill = 0 /\ PlayerGoes(IF ring.eof THEN "flush" ELSE "readwait")
             /\ ~ring.failed /\ UNCHANGED <<ring, played>>
    BY <1>0, <1>6, <2>3 DEF PlayerGoes, Shape, ReadBuffer
  <2> QED
    BY <1>6, <2>1, <2>2, <2>3 DEF ReadBuffer
<1>7. CASE Feed
  BY <1>0, <1>7 DEF Feed, PlayerFails, Shape
<1>8. CASE FlushPcm
  BY <1>0, <1>8 DEF FlushPcm, PlayerFails, PlayerGoes, Shape
<1>9. CASE EndPlaying
  BY <1>0, <1>9 DEF EndPlaying, CloseOrFail, PlayerGoes, Shape, RingShape
<1>10. CASE PlayerSignals
  BY <1>0, <1>10 DEF PlayerSignals, SignalBoth, PlayerGoes, Shape, RingShape
<1> QED
  BY <1>1, <1>2, <1>3, <1>4, <1>5, <1>6, <1>7, <1>8, <1>9, <1>10
  DEF StreamPlayer, OpenStream, MakeBuffer, JoinReader, DirectBegin, DirectRead, DirectEnd

LEMMA ReaderKeepsWakes ==
  ASSUME StreamInv, StreamReader \/ AbortStream
  PROVE  NoMissedWake'
<1> USE DEF NoMissedWake
<1>0. Shape /\ RingShape /\ Control /\ NoMissedWake
  BY DEF StreamInv, Shape
<1>1. CASE ReaderLoop
  BY <1>0, <1>1 DEF ReaderLoop, ReaderGoes, Shape, PrebufferTarget
<1>2. CASE HttpRead
  <2>1. reader.at = "http" /\ reader'.at \in {"write", "finish"}
        /\ UNCHANGED <<source, ring, player>>
    BY <1>0, <1>2 DEF HttpRead, ReaderGoes, ReaderFails, Shape
  <2> QED
    BY <1>0, <2>1 DEF PrebufferTarget
<1>3. CASE WriteBuffer
  <2>1. reader.at = "write" /\ UNCHANGED <<source, player>>
    BY <1>3, WriteBufferCases
  <2>2. CASE ReaderFails /\ UNCHANGED ring
    <3>1. reader'.at = "finish"
      BY <1>0, <2>2 DEF ReaderFails, Shape
    <3> QED
      BY <1>0, <2>1, <2>2, <3>1 DEF PrebufferTarget
  <2>3. ASSUME NEW k \in 0..(Capacity - ring.fill), ring' = CopyIn(k), ~ring.failed,
               \/ reader' = [reader EXCEPT !.at = "loop", !.owed = reader.owed - k]
               \/ k = Capacity - ring.fill
                  /\ reader' = [reader EXCEPT !.at = "wait", !.owed = reader.owed - k]
        PROVE  NoMissedWake'
    <3>1. /\ ring'.fill = ring.fill + k /\ ring'.canRead = (ring.canRead \/ k > 0)
          /\ ring'.eof = ring.eof /\ ring'.failed = ring.failed
      BY <1>0, <2>3, WriteFits, CopyInAppends
    <3>2. ring.fill \in 0..Capacity /\ Capacity \in Nat /\ k \in 0..(Capacity - ring.fill)
      BY <1>0, StreamAssumption DEF RingShape
    <3>3. reader'.at = "loop" \/ (reader'.at = "wait" /\ k = Capacity - ring.fill)
      <4>1. CASE reader' = [reader EXCEPT !.at = "loop", !.owed = reader.owed - k]
        BY <1>0, <4>1 DEF Shape
      <4>2. CASE k = Capacity - ring.fill
                 /\ reader' = [reader EXCEPT !.at = "wait", !.owed = reader.owed - k]
        BY <1>0, <4>2 DEF Shape
      <4> QED
        BY <2>3, <4>1, <4>2
    <3>4. reader'.at = "wait" => ring'.fill = Capacity /\ ~ring'.failed
      BY <2>3, <3>1, <3>2, <3>3
    <3>5. CASE k = 0
      <4>1. ring'.fill = ring.fill /\ (ring'.canRead <=> ring.canRead)
        BY <1>0, <3>1, <3>2, <3>5 DEF RingShape
      <4> QED
        BY <1>0, <2>1, <3>1, <3>2, <3>4, <4>1 DEF PrebufferTarget
    <3>6. CASE k > 0
      <4>1. ring'.canRead
        BY <3>1, <3>6
      <4> QED
        BY <3>2, <3>4, <4>1
    <3> QED
      BY <3>2, <3>5, <3>6
  <2> QED
    BY <1>3, <2>2, <2>3, WriteBufferCases
<1>4. CASE WriterWaits
  BY <1>0, <1>4 DEF WriterWaits, ReaderGoes, Shape, RingShape, PrebufferTarget
<1>5. CASE FinishReading
  BY <1>0, <1>5 DEF FinishReading, CloseOrFail, ReaderGoes, Shape, RingShape, PrebufferTarget
<1>6. CASE ReaderSignals
  BY <1>0, <1>6 DEF ReaderSignals, SignalBoth, ReaderGoes, Shape, RingShape
<1>7. CASE ReaderDone \/ NotifyPlayer \/ AbortStream
  BY <1>0, <1>7 DEF ReaderDone, NotifyPlayer, AbortStream, ReaderGoes, Shape, PrebufferTarget
<1> QED
  BY <1>1, <1>2, <1>3, <1>4, <1>5, <1>6, <1>7 DEF StreamReader

-----------------------------------------------------------------------------

LEMMA StreamInvKept == StreamInv /\ [StreamNext]_streaming => StreamInv'
<1> SUFFICES ASSUME StreamInv, [StreamNext]_streaming PROVE StreamInv'
  OBVIOUS
<1>1. CASE StreamPlayer
  BY <1>1, PlayerKeepsShape, PlayerKeepsControl, PlayerKeepsEnding, PlayerKeepsWakes
  DEF StreamInv
<1>2. CASE StreamReader \/ AbortStream
  BY <1>2, ReaderKeepsShape, ReaderKeepsControl, ReaderKeepsEnding, ReaderKeepsWakes
  DEF StreamInv
<1>3. CASE UNCHANGED streaming
  BY <1>3
  DEF streaming, StreamInv, Shape, RingShape, Control, Ending, NoMissedWake, PrebufferTarget
<1> QED
  BY <1>1, <1>2, <1>3 DEF StreamNext

LEMMA StreamInvAlways == StreamSpec => []StreamInv
  BY StreamInitInv, StreamInvKept, PTL DEF StreamSpec

(* main/playback.c: a task that waits on the jitter buffer and could go on *)
(* has its token, or gets it from the other one.                           *)
THEOREM NobodyMissesWake == StreamSpec => []NoMissedWake
<1>1. StreamInv => NoMissedWake
  BY DEF StreamInv
<1> QED
  BY <1>1, StreamInvAlways, PTL

(* main/playback.c: what the reader of a download uses is freed when it is *)
(* through with it, and the buffer is used only while it exists.           *)
THEOREM BufferOutlivesUse == StreamSpec => []BufferInUse
<1>1. StreamInv => BufferInUse
  BY DEF StreamInv, Control, BufferInUse, Buffered, Plain
<1> QED
  BY <1>1, StreamInvAlways, PTL

-----------------------------------------------------------------------------
(* The types of the download: no unit is numbered beyond the file's end.   *)

Rings ==
  [cells : [0..(Capacity - 1) -> 0..Units], write : 0..(Capacity - 1),
   read : 0..(Capacity - 1), fill : 0..Capacity, eof : BOOLEAN, failed : BOOLEAN,
   canRead : BOOLEAN, canWrite : BOOLEAN, memory : {"none", "live", "freed"}]
PlayerStates == [at : PlayerAt, err : BOOLEAN, begun : BOOLEAN, eos : BOOLEAN, over : BOOLEAN]
ReaderStates ==
  [at : ReaderAt, seen : 0..Units, owed : 0..Units, err : BOOLEAN, done : BOOLEAN]
Sources == [kind : Kinds, length : {Unknown} \cup 1..Units]

Counted ==
  /\ player.at = "open" => reader.seen = 0
  /\ reader.owed <= reader.seen /\ Left >= 0
  /\ player.at = "direct_read" => played = reader.seen

LEMMA StreamTypesAre ==
  StreamTypeOK <=>
    /\ aborted \in BOOLEAN /\ source \in Sources
    /\ ring \in Rings /\ player \in PlayerStates /\ reader \in ReaderStates
    /\ played \in 0..Units /\ outcome \in {"none", "ok", "failed"}
  BY DEF StreamTypeOK, Sources, Rings, PlayerStates, ReaderStates

LEMMA LeftIsInt ==
  ASSUME StreamTypeOK
  PROVE  Left \in Int /\ (Left >= 0 => reader.seen + Left <= Units)
<1>1. Units \in Nat /\ reader.seen \in Nat /\ source.length \in {Unknown} \cup 1..Units
  BY StreamAssumption DEF StreamTypeOK
<1> QED
  BY <1>1 DEF Left, Unknown

LEMMA StreamStartsTyped == StreamInit => StreamTypeOK /\ Counted
<1> SUFFICES ASSUME StreamInit PROVE StreamTypeOK /\ Counted
  OBVIOUS
<1>0. Units \in Nat \ {0} /\ Capacity \in Nat \ {0}
  BY StreamAssumption
<1>1. ring \in Rings
  BY <1>0 DEF StreamInit, EmptyRing, Rings
<1>2. player \in PlayerStates /\ reader \in ReaderStates
  BY <1>0 DEF StreamInit, PlayerStates, ReaderStates, PlayerAt, ReaderAt
<1>3. /\ aborted \in BOOLEAN /\ source \in Sources
      /\ played \in 0..Units /\ outcome \in {"none", "ok", "failed"}
  <2>1. source \in Sources
    BY DEF StreamInit, Sources
  <2>2. aborted = FALSE /\ played = 0 /\ outcome = "none"
    BY DEF StreamInit
  <2>3. aborted \in BOOLEAN
    BY <2>2
  <2>4. played \in 0..Units /\ outcome \in {"none", "ok", "failed"}
    BY <1>0, <2>2
  <2> QED
    BY <2>1, <2>3, <2>4
<1>4. StreamTypeOK
  BY <1>1, <1>2, <1>3, StreamTypesAre
<1>5. source.length \in {Unknown} \cup 1..Units
  BY <1>3 DEF Sources
<1> QED
  BY <1>0, <1>4, <1>5 DEF StreamInit, Counted, Left, Unknown

(* What goes into the ring bears the number of a unit that was seen. *)
LEMMA CopyInTyped ==
  ASSUME StreamTypeOK, RingShape, NEW k \in 0..(Capacity - ring.fill), k <= reader.owed,
         reader.owed <= reader.seen, ring' = CopyIn(k)
  PROVE  ring' \in Rings
<1>0. /\ Capacity \in Nat \ {0} /\ ring \in Rings /\ Units \in Nat
      /\ reader.seen \in 0..Units /\ reader.owed \in 0..Units
  BY StreamAssumption, StreamTypesAre DEF ReaderStates
<1>1. ring.write \in 0..(Capacity - 1) /\ ring.fill \in 0..Capacity /\ k \in Nat
  BY <1>0 DEF Rings
<1>2. Rem(ring.write + k, Capacity) \in 0..(Capacity - 1)
  BY <1>0, <1>1, Remainder
<1>3. ASSUME NEW i \in 0..(Capacity - 1)
      PROVE  (IF Rem(i - ring.write + Capacity, Capacity) < k
              THEN reader.seen - reader.owed + Rem(i - ring.write + Capacity, Capacity) + 1
              ELSE ring.cells[i]) \in 0..Units
  <2> DEFINE n == Rem(i - ring.write + Capacity, Capacity)
  <2>1. n \in 0..(Capacity - 1)
    BY <1>0, <1>1, Remainder
  <2>2. ring.cells[i] \in 0..Units
    BY <1>0 DEF Rings
  <2> HIDE DEF n
  <2>3. n < k => reader.seen - reader.owed + n + 1 \in 0..Units
    BY <1>0, <1>1, <2>1
  <2>4. (IF n < k THEN reader.seen - reader.owed + n + 1 ELSE ring.cells[i]) \in 0..Units
    BY <2>2, <2>3
  <2> QED
    BY <2>4 DEF n
<1> DEFINE cells == [i \in 0..(Capacity - 1) |->
                       IF Rem(i - ring.write + Capacity, Capacity) < k
                       THEN reader.seen - reader.owed
                              + Rem(i - ring.write + Capacity, Capacity) + 1
                       ELSE ring.cells[i]]
<1>4. cells \in [0..(Capacity - 1) -> 0..Units]
  BY <1>3
<1>5. DOMAIN ring.cells = 0..(Capacity - 1)
  BY <1>0 DEF Rings
<1>6. ring' = [ring EXCEPT !.cells = cells, !.write = Rem(ring.write + k, Capacity),
                           !.fill = ring.fill + k, !.canRead = (@ \/ k > 0)]
  BY <1>5 DEF CopyIn, Rem
<1>7. ring.fill + k \in 0..Capacity
  BY <1>0, <1>1
<1> HIDE DEF cells
<1> QED
  BY <1>0, <1>2, <1>4, <1>6, <1>7 DEF Rings

LEMMA CopyOutTyped ==
  ASSUME StreamTypeOK, RingShape, NEW k \in 1..ring.fill, ring' = CopyOut(k)
  PROVE  ring' \in Rings /\ Nth(k) \in 0..Units
<1>0. Capacity \in Nat \ {0} /\ ring \in Rings
  BY StreamAssumption, StreamTypesAre
<1>1. ring.fill \in 0..Capacity /\ ring.read \in 0..(Capacity - 1) /\ k \in Nat
  BY <1>0 DEF Rings
<1>2. /\ Rem(ring.read + k, Capacity) \in 0..(Capacity - 1)
      /\ Rem(ring.read + k - 1, Capacity) \in 0..(Capacity - 1)
  BY <1>0, <1>1, Remainder
<1>3. ring.fill - k \in 0..Capacity
  BY <1>0, <1>1
<1>4. ring' = [ring EXCEPT !.read = Rem(ring.read + k, Capacity), !.fill = ring.fill - k,
                           !.canWrite = TRUE]
  BY DEF CopyOut, Rem
<1>5. Nth(k) \in 0..Units
  BY <1>0, <1>2 DEF Nth, Rem, Rings
<1> QED
  BY <1>0, <1>2, <1>3, <1>4, <1>5 DEF Rings

LEMMA PlayerKeepsTypes ==
  ASSUME StreamTypeOK, Counted, StreamInv, StreamPlayer
  PROVE  StreamTypeOK' /\ Counted'
<1>0. /\ aborted \in BOOLEAN /\ source \in Sources
      /\ ring \in Rings /\ player \in PlayerStates /\ reader \in ReaderStates
      /\ played \in 0..Units /\ outcome \in {"none", "ok", "failed"}
      /\ Units \in Nat /\ Capacity \in Nat /\ MaxHeader \in Nat /\ ReadSize \in Nat
      /\ RingShape
  BY StreamTypesAre, StreamAssumption DEF StreamInv, Shape
<1>a. aborted' = aborted /\ source' = source
  BY DEF StreamPlayer, OpenStream, MakeBuffer, FirstWrite, WaitPrebuffer, PlayerWaits,
         BeginPlaying, ReadBuffer, Feed, FlushPcm, EndPlaying, PlayerSignals, JoinReader,
         DirectBegin, DirectRead, DirectEnd
<1>b. /\ Left \in Int /\ reader.seen + Left <= Units /\ Left >= 0
      /\ reader.seen \in Nat /\ reader.owed \in Nat /\ reader.owed <= reader.seen
  BY <1>0, LeftIsInt DEF Counted, ReaderStates
<1>c. ASSUME UNCHANGED reader, ring' \in Rings, player' \in PlayerStates,
             player'.at \notin {"open", "direct_read"}, played' \in 0..Units,
             outcome' \in {"none", "ok", "failed"}
      PROVE  StreamTypeOK' /\ Counted'
  <2>1. StreamTypeOK'
    BY <1>0, <1>a, <1>c DEF StreamTypeOK, Sources, Rings, PlayerStates, ReaderStates
  <2> QED
    BY <2>1, <1>a, <1>c DEF Counted, Left
<1>1. CASE OpenStream
  <2>1. ring' \in Rings /\ played' \in 0..Units
    BY <1>0, <1>1 DEF OpenStream
  <2>2. CASE PlayerGoes("gone") /\ outcome' = "failed" /\ UNCHANGED reader
    <3>1. player' \in PlayerStates /\ player'.at \notin {"open", "direct_read"}
      BY <1>0, <2>2 DEF PlayerGoes, PlayerStates, PlayerAt
    <3> QED
      BY <1>c, <2>1, <2>2, <3>1
  <2>3. CASE PlayerGoes("init") /\ UNCHANGED outcome
             /\ \E n \in (IF source.kind = "codec" THEN 1 ELSE 0)..Smaller(MaxHeader, Left) :
                  reader' = [reader EXCEPT !.seen = n, !.owed = n]
    <3>1. PICK n \in (IF source.kind = "codec" THEN 1 ELSE 0)..Smaller(MaxHeader, Left) :
                 reader' = [reader EXCEPT !.seen = n, !.owed = n]
      BY <2>3
    <3>2. n \in Nat /\ n <= Left
      BY <1>0, <1>b, <3>1 DEF Smaller
    <3>3. player' \in PlayerStates /\ player'.at \notin {"open", "direct_read"}
      BY <1>0, <2>3 DEF PlayerGoes, PlayerStates, PlayerAt
    <3>4. n \in 0..Units
      BY <1>0, <1>b, <3>2
    <3>5. reader' \in ReaderStates /\ reader'.seen = n /\ reader'.owed = n
      BY <1>0, <3>1, <3>4 DEF ReaderStates
    <3>6. StreamTypeOK'
      BY <1>0, <1>a, <2>1, <2>3, <3>3, <3>5
         DEF StreamTypeOK, Sources, Rings, PlayerStates, ReaderStates
    <3>7. reader.seen = 0
      BY <1>1 DEF OpenStream, Counted
    <3>8. Left' = Left - n
      <4>1. source.length \in {Unknown} \cup 1..Units
        BY <1>0 DEF Sources
      <4> QED
        BY <1>0, <1>a, <3>2, <3>5, <3>7, <4>1 DEF Left, Unknown
    <3> QED
      BY <1>b, <3>2, <3>3, <3>5, <3>6, <3>8 DEF Counted
  <2> QED
    BY <1>1, <2>2, <2>3 DEF OpenStream
<1>2. CASE MakeBuffer
  <2>1. ring' \in Rings
    BY <1>0, <1>2 DEF MakeBuffer, Rings
  <2>2. player' \in PlayerStates /\ player'.at \notin {"open", "direct_read"}
    BY <1>0, <1>2 DEF MakeBuffer, PlayerGoes, PlayerStates, PlayerAt
  <2>3. UNCHANGED <<reader, played>> /\ outcome' \in {outcome, "failed"}
    BY <1>2 DEF MakeBuffer
  <2> QED
    BY <1>0, <1>c, <2>1, <2>2, <2>3
<1>3. CASE FirstWrite
  <2>1. ring' \in Rings
    <3>1. CASE ring' = CopyIn(reader.owed)
      BY <1>0, <1>b, <1>3, <3>1, WriteFits, CopyInTyped DEF FirstWrite
    <3>2. CASE ring' = ring
      BY <1>0, <3>2
    <3>3. CASE ring' = [EmptyRing EXCEPT !.memory = "freed"]
      <4>1. Capacity \in Nat \ {0}
        BY StreamAssumption
      <4>2. EmptyRing \in Rings
        BY <1>0, <4>1 DEF EmptyRing, Rings
      <4> QED
        BY <4>2, <3>3 DEF Rings
    <3> QED
      BY <1>3, <3>1, <3>2, <3>3, FirstWriteCases
  <2>2. player' \in PlayerStates /\ player'.at \notin {"open", "direct_read"}
    <3>1. \/ player' = [player EXCEPT !.at = "prebuffer"]
          \/ player' = [player EXCEPT !.at = "end", !.err = TRUE]
          \/ player' = [player EXCEPT !.at = "direct"]
      BY <1>3, FirstWriteCases
    <3> QED
      BY <1>0, <3>1 DEF PlayerStates, PlayerAt
  <2>3. reader' \in ReaderStates /\ reader'.seen = reader.seen /\ reader'.owed <= reader'.seen
    <3>1. \/ reader' = [reader EXCEPT !.at = "loop", !.owed = 0]
          \/ reader' = [reader EXCEPT !.owed = 0]
          \/ reader' = [reader EXCEPT !.owed = reader.owed]
          \/ reader' = reader
      BY <1>3, FirstWriteCases
    <3>2. CASE reader' = [reader EXCEPT !.at = "loop", !.owed = 0]
      <4>1. reader' \in ReaderStates
        <5>1. "loop" \in ReaderAt /\ 0 \in 0..Units /\ reader \in ReaderStates
          BY <1>0 DEF ReaderAt
        <5> QED
          BY <3>2, <5>1 DEF ReaderStates
      <4>2. reader'.seen = reader.seen /\ reader'.owed = 0
        BY <1>0, <3>2 DEF ReaderStates
      <4> QED
        BY <1>b, <4>1, <4>2
    <3>3. CASE reader' = [reader EXCEPT !.owed = 0]
      BY <1>0, <1>b, <3>3 DEF ReaderStates
    <3>4. CASE reader' = [reader EXCEPT !.owed = reader.owed]
      BY <1>0, <1>b, <3>4 DEF ReaderStates
    <3>5. CASE reader' = reader
      BY <1>0, <1>b, <3>5
    <3> QED
      BY <3>1, <3>2, <3>3, <3>4, <3>5
  <2>4. UNCHANGED <<played, outcome>>
    BY <1>3, FirstWriteCases
  <2>5. StreamTypeOK'
    BY <1>0, <1>a, <2>1, <2>2, <2>3, <2>4
    DEF StreamTypeOK, Sources, Rings, PlayerStates, ReaderStates
  <2> QED
    BY <1>a, <1>b, <2>2, <2>3, <2>5 DEF Counted, Left
<1>4. CASE WaitPrebuffer \/ BeginPlaying \/ Feed \/ FlushPcm
  <2>1. UNCHANGED <<ring, reader, played, outcome>>
    BY <1>4 DEF WaitPrebuffer, BeginPlaying, Feed, FlushPcm
  <2>2. player' \in PlayerStates /\ player'.at \notin {"open", "direct_read"}
    <3>1. CASE WaitPrebuffer
      BY <1>0, <3>1 DEF WaitPrebuffer, PlayerGoes, PlayerFails, PlayerStates, PlayerAt
    <3>2. CASE BeginPlaying
      BY <1>0, <3>2 DEF BeginPlaying, PlayerFails, PlayerStates, PlayerAt
    <3>3. CASE Feed
      BY <1>0, <3>3 DEF Feed, PlayerFails, PlayerStates, PlayerAt
    <3>4. CASE FlushPcm
      BY <1>0, <3>4 DEF FlushPcm, PlayerGoes, PlayerFails, PlayerStates, PlayerAt
    <3> QED
      BY <1>4, <3>1, <3>2, <3>3, <3>4
  <2> QED
    BY <1>0, <1>c, <2>1, <2>2
<1>5. CASE PlayerWaits \/ EndPlaying \/ PlayerSignals
  <2>1. UNCHANGED <<reader, played, outcome>>
    BY <1>5 DEF PlayerWaits, EndPlaying, PlayerSignals
  <2>2. player' \in PlayerStates /\ player'.at \notin {"open", "direct_read"}
    BY <1>0, <1>5 DEF PlayerWaits, EndPlaying, PlayerSignals, PlayerGoes, PlayerStates, PlayerAt
  <2>3. ring' \in Rings
    BY <1>0, <1>5 DEF PlayerWaits, EndPlaying, PlayerSignals, CloseOrFail, SignalBoth, Rings
  <2> QED
    BY <1>0, <1>c, <2>1, <2>2, <2>3
<1>6. CASE ReadBuffer
  <2>1. UNCHANGED <<reader, outcome>>
    BY <1>6 DEF ReadBuffer
  <2>2. player' \in PlayerStates /\ player'.at \notin {"open", "direct_read"}
    BY <1>0, <1>6 DEF ReadBuffer, PlayerGoes, PlayerFails, PlayerStates, PlayerAt
  <2>3. CASE UNCHANGED <<ring, played>>
    BY <1>0, <1>c, <2>1, <2>2, <2>3
  <2>4. CASE ring.fill > 0 /\ played' = Nth(Smaller(ReadSize, ring.fill))
             /\ ring' = CopyOut(Smaller(ReadSize, ring.fill))
    <3> DEFINE k == Smaller(ReadSize, ring.fill)
    <3>1. k \in 1..ring.fill
      BY <1>0, <2>4, ReadTakes
    <3>2. played' = Nth(k) /\ ring' = CopyOut(k)
      BY <2>4
    <3> HIDE DEF k
    <3>3. ring' \in Rings /\ played' \in 0..Units
      BY <1>0, <3>1, <3>2, CopyOutTyped
    <3> QED
      BY <1>0, <1>c, <2>1, <2>2, <3>3
  <2> QED
    BY <1>6, <2>3, <2>4 DEF ReadBuffer
<1>7. CASE JoinReader \/ DirectEnd
  <2>1. UNCHANGED <<reader, played>> /\ outcome' \in {"ok", "failed"}
    BY <1>7 DEF JoinReader, DirectEnd
  <2>2. player' \in PlayerStates /\ player'.at \notin {"open", "direct_read"}
    BY <1>0, <1>7 DEF JoinReader, DirectEnd, PlayerGoes, PlayerStates, PlayerAt
  <2>3. ring' \in Rings
    BY <1>0, <1>7 DEF JoinReader, DirectEnd, Rings
  <2> QED
    BY <1>0, <1>c, <2>1, <2>2, <2>3
<1>8. CASE DirectBegin
  <2>1. CASE PlayerGoes("gone") /\ outcome' = "failed" /\ UNCHANGED <<reader, played>>
    <3>1. player' \in PlayerStates /\ player'.at \notin {"open", "direct_read"} /\ ring' = ring
      BY <1>0, <1>8, <2>1 DEF DirectBegin, PlayerGoes, PlayerStates, PlayerAt
    <3> QED
      BY <1>0, <1>c, <2>1, <3>1
  <2>2. CASE /\ player' = [player EXCEPT !.at = "direct_read", !.begun = TRUE]
             /\ played' = reader.seen
             /\ reader' = [reader EXCEPT !.owed = 0]
             /\ UNCHANGED outcome
    <3>1. player' \in PlayerStates /\ player'.at = "direct_read" /\ ring' = ring
      BY <1>0, <1>8, <2>2 DEF DirectBegin, PlayerStates, PlayerAt
    <3>2. reader' \in ReaderStates /\ reader'.seen = reader.seen /\ reader'.owed = 0
          /\ reader.seen \in 0..Units
      BY <1>0, <2>2 DEF ReaderStates
    <3>3. StreamTypeOK'
      BY <1>0, <1>a, <2>2, <3>1, <3>2 DEF StreamTypeOK, Sources, Rings, PlayerStates, ReaderStates
    <3> QED
      BY <1>a, <1>b, <2>2, <3>1, <3>2, <3>3 DEF Counted, Left
  <2> QED
    BY <1>8, <2>1, <2>2 DEF DirectBegin
<1>9. CASE DirectRead
  <2>1. UNCHANGED <<ring, outcome>> /\ player.at = "direct_read" /\ played = reader.seen
    BY <1>9 DEF DirectRead, Counted
  <2>2. CASE /\ UNCHANGED <<reader, played>>
             /\ \/ player' = [player EXCEPT !.at = "direct_end", !.err = TRUE]
                \/ player' = [player EXCEPT !.at = "direct_end", !.over = TRUE]
    <3>1. player' \in PlayerStates /\ player'.at \notin {"open", "direct_read"}
      BY <1>0, <2>2 DEF PlayerStates, PlayerAt
    <3> QED
      BY <1>0, <1>c, <2>1, <2>2, <3>1
  <2>3. CASE UNCHANGED player
             /\ \E k \in 1..Smaller(ReadSize, Left) :
                  played' = played + k /\ reader' = [reader EXCEPT !.seen = @ + k]
    <3>1. PICK k \in 1..Smaller(ReadSize, Left) :
                 played' = played + k /\ reader' = [reader EXCEPT !.seen = @ + k]
      BY <2>3
    <3>2. k \in Nat /\ k <= Left
      BY <1>0, <1>b, <3>1 DEF Smaller
    <3>3. reader.seen + k \in 0..Units
      BY <1>0, <1>b, <3>2
    <3>4. /\ reader' \in ReaderStates /\ reader'.seen = reader.seen + k
          /\ reader'.owed = reader.owed /\ played' \in 0..Units /\ played' = reader'.seen
      BY <1>0, <2>1, <3>1, <3>3 DEF ReaderStates
    <3>5. StreamTypeOK'
      BY <1>0, <1>a, <2>1, <2>3, <3>4 DEF StreamTypeOK, Sources, Rings, PlayerStates, ReaderStates
    <3>6. Left' = Left - k
      <4>1. source.length \in {Unknown} \cup 1..Units
        BY <1>0 DEF Sources
      <4> QED
        BY <1>0, <1>a, <1>b, <3>2, <3>4, <4>1 DEF Left, Unknown
    <3> QED
      BY <1>b, <2>1, <2>3, <3>2, <3>4, <3>5, <3>6 DEF Counted
  <2> QED
    BY <1>9, <2>2, <2>3 DEF DirectRead
<1> QED
  BY <1>1, <1>2, <1>3, <1>4, <1>5, <1>6, <1>7, <1>8, <1>9 DEF StreamPlayer

LEMMA ReaderKeepsTypes ==
  ASSUME StreamTypeOK, Counted, StreamInv, StreamReader \/ AbortStream
  PROVE  StreamTypeOK' /\ Counted'
<1>0. /\ aborted \in BOOLEAN /\ source \in Sources
      /\ ring \in Rings /\ player \in PlayerStates /\ reader \in ReaderStates
      /\ played \in 0..Units /\ outcome \in {"none", "ok", "failed"}
      /\ Units \in Nat /\ Capacity \in Nat /\ MaxHeader \in Nat /\ ReadSize \in Nat
      /\ RingShape
  BY StreamTypesAre, StreamAssumption DEF StreamInv, Shape
<1>a. aborted' \in BOOLEAN /\ UNCHANGED <<source, player, played, outcome>>
  BY <1>0 DEF StreamReader, ReaderLoop, HttpRead, WriteBuffer, WriterWaits, FinishReading,
              ReaderSignals, ReaderDone, NotifyPlayer, AbortStream
<1>b. /\ Left \in Int /\ reader.seen + Left <= Units /\ Left >= 0
      /\ reader.seen \in Nat /\ reader.owed \in Nat /\ reader.owed <= reader.seen
  BY <1>0, LeftIsInt DEF Counted, ReaderStates
<1>c. ASSUME ring' \in Rings, reader' \in ReaderStates, reader'.owed <= reader'.seen,
             Left' >= 0, reader'.seen = reader.seen \/ player.at \in Buffered
      PROVE  StreamTypeOK' /\ Counted'
  <2>1. StreamTypeOK'
    BY <1>0, <1>a, <1>c DEF StreamTypeOK, Sources, Rings, PlayerStates, ReaderStates
  <2> QED
    BY <2>1, <1>a, <1>c DEF Counted, Buffered
<1>d. Left' = Left + reader.seen - reader'.seen \/ reader'.seen \notin Int
  <2>1. source.length \in {Unknown} \cup 1..Units
    BY <1>0 DEF Sources
  <2> QED
    BY <1>0, <1>a, <1>b, <2>1 DEF Left, Unknown
<1>1. CASE HttpRead
  <2>1. ring' = ring
    BY <1>1 DEF HttpRead
  <2>2. CASE ReaderGoes("finish") \/ ReaderFails
    <3>1. reader' \in ReaderStates /\ reader'.seen = reader.seen /\ reader'.owed = reader.owed
      BY <1>0, <2>2 DEF ReaderGoes, ReaderFails, ReaderStates, ReaderAt
    <3> QED
      BY <1>0, <1>b, <1>c, <1>d, <2>1, <3>1
  <2>3. CASE \E k \in 1..Smaller(ReadSize, Left) :
               reader' = [reader EXCEPT !.at = "write", !.seen = @ + k, !.owed = k]
    <3>1. PICK k \in 1..Smaller(ReadSize, Left) :
                 reader' = [reader EXCEPT !.at = "write", !.seen = @ + k, !.owed = k]
      BY <2>3
    <3>2. k \in Nat /\ k <= Left
      BY <1>0, <1>b, <3>1 DEF Smaller
    <3>3. reader.seen + k \in 0..Units /\ k \in 0..Units
      BY <1>0, <1>b, <3>2
    <3>4. reader' \in ReaderStates /\ reader'.seen = reader.seen + k /\ reader'.owed = k
      BY <1>0, <3>1, <3>3 DEF ReaderStates, ReaderAt
    <3>5. player.at \in Buffered
      BY <1>1 DEF HttpRead, StreamInv, Control
    <3> QED
      BY <1>0, <1>b, <1>c, <1>d, <2>1, <3>2, <3>4, <3>5
  <2> QED
    BY <1>1, <2>2, <2>3 DEF HttpRead
<1>2. CASE WriteBuffer
  <2> DEFINE k == Smaller(reader.owed, Capacity - ring.fill)
  <2>0. k \in 0..(Capacity - ring.fill) /\ k <= reader.owed
    BY <1>2, WriteFits DEF WriteBuffer
  <2>1. \/ ReaderFails /\ UNCHANGED ring
        \/ /\ ring' = CopyIn(k)
           /\ reader' = [reader EXCEPT !.at = IF k = reader.owed THEN "loop" ELSE "wait",
                                       !.owed = @ - k]
    BY <1>2 DEF WriteBuffer
  <2> HIDE DEF k
  <2>2. CASE ReaderFails /\ UNCHANGED ring
    <3>1. reader' \in ReaderStates /\ reader'.seen = reader.seen /\ reader'.owed = reader.owed
      BY <1>0, <2>2 DEF ReaderFails, ReaderStates, ReaderAt
    <3> QED
      BY <1>0, <1>b, <1>c, <1>d, <2>2, <3>1
  <2>3. CASE /\ ring' = CopyIn(k)
             /\ reader' = [reader EXCEPT !.at = IF k = reader.owed THEN "loop" ELSE "wait",
                                         !.owed = @ - k]
    <3>1. ring' \in Rings
      BY <1>0, <1>b, <2>0, <2>3, CopyInTyped
    <3>2. ring.fill \in Nat /\ k \in Nat
      BY <1>0, <2>0 DEF RingShape
    <3>3. reader.owed - k \in 0..Units /\ reader.owed - k <= reader.seen
      BY <1>0, <1>b, <2>0, <3>2 DEF ReaderStates
    <3>4. reader' \in ReaderStates /\ reader'.seen = reader.seen
          /\ reader'.owed = reader.owed - k
      BY <1>0, <2>3, <3>3 DEF ReaderStates, ReaderAt
    <3> QED
      BY <1>b, <1>c, <1>d, <3>1, <3>3, <3>4
  <2> QED
    BY <2>1, <2>2, <2>3
<1>3. CASE ReaderLoop \/ ReaderDone \/ NotifyPlayer \/ AbortStream
  <2>1. ring' = ring
    BY <1>3 DEF ReaderLoop, ReaderDone, NotifyPlayer, AbortStream
  <2>2. reader' \in ReaderStates /\ reader'.seen = reader.seen /\ reader'.owed = reader.owed
    <3>1. CASE ReaderLoop
      BY <1>0, <3>1 DEF ReaderLoop, ReaderGoes, ReaderStates, ReaderAt
    <3>2. CASE ReaderDone \/ NotifyPlayer \/ AbortStream
      BY <1>0, <3>2 DEF ReaderDone, NotifyPlayer, AbortStream, ReaderGoes, ReaderStates, ReaderAt
    <3> QED
      BY <1>3, <3>1, <3>2
  <2> QED
    BY <1>0, <1>b, <1>c, <1>d, <2>1, <2>2
<1>4. CASE WriterWaits \/ FinishReading \/ ReaderSignals
  <2>1. ring' \in Rings
    BY <1>0, <1>4 DEF WriterWaits, FinishReading, ReaderSignals, CloseOrFail, SignalBoth, Rings
  <2>2. reader' \in ReaderStates /\ reader'.seen = reader.seen /\ reader'.owed = reader.owed
    BY <1>0, <1>4
    DEF WriterWaits, FinishReading, ReaderSignals, ReaderGoes, ReaderStates, ReaderAt
  <2> QED
    BY <1>0, <1>b, <1>c, <1>d, <2>1, <2>2
<1> QED
  BY <1>1, <1>2, <1>3, <1>4 DEF StreamReader

(* main/playback.c: indices, fill and counters of a download stay within   *)
(* the buffer and the file, whatever the sizes: no unit bears a number     *)
(* beyond the file's end.                                                  *)
THEOREM StreamTypeCorrect == StreamSpec => []StreamTypeOK
<1>1. StreamInit => StreamInv /\ StreamTypeOK /\ Counted
  BY StreamInitInv, StreamStartsTyped
<1>2. StreamInv /\ StreamTypeOK /\ Counted /\ [StreamNext]_streaming
        => (StreamInv /\ StreamTypeOK /\ Counted)'
  <2> SUFFICES ASSUME StreamInv, StreamTypeOK, Counted, [StreamNext]_streaming
               PROVE  StreamInv' /\ StreamTypeOK' /\ Counted'
    OBVIOUS
  <2>1. CASE UNCHANGED streaming
    BY <2>1, StreamInvKept DEF streaming, StreamTypeOK, Counted, Left
  <2> QED
    BY <2>1, StreamInvKept, PlayerKeepsTypes, ReaderKeepsTypes DEF StreamNext
<1> QED
  BY <1>1, <1>2, PTL DEF StreamSpec

-----------------------------------------------------------------------------
(* The download as a channel. *)

MQueue == [k \in 1..ring.fill |-> Nth(k)]
MPut == IF source.kind = "wav" /\ ring.memory # "live" /\ reader.at = "none"
        THEN played ELSE reader.seen - reader.owed
MClosed == ring.eof \/ player.over

Rests == UNCHANGED <<MQueue, MPut, played, MClosed, outcome>>

LEMMA QueueIsFunction ==
  RingShape => MQueue \in [1..ring.fill -> Int] /\ ring.fill \in Nat
<1> SUFFICES ASSUME RingShape
             PROVE  MQueue \in [1..ring.fill -> Int] /\ ring.fill \in Nat
  OBVIOUS
<1>1. Capacity \in Nat \ {0} /\ ring.fill \in 0..Capacity
  BY StreamAssumption DEF RingShape
<1>2. ASSUME NEW k \in 1..ring.fill PROVE Nth(k) \in Int
  <2>1. ring.read + k - 1 \in Int
    BY <1>1 DEF RingShape
  <2>2. Rem(ring.read + k - 1, Capacity) \in 0..(Capacity - 1)
    BY <1>1, <2>1, Remainder
  <2> QED
    BY <2>2 DEF Nth, Rem, RingShape
<1> QED
  BY <1>1, <1>2 DEF MQueue

LEMMA SameQueue ==
  ASSUME ring'.fill = ring.fill, \A i \in 1..ring.fill : Nth(i)' = Nth(i)
  PROVE  MQueue' = MQueue
  BY DEF MQueue

LEMMA QueueUntouched ==
  ASSUME ring'.fill = ring.fill, ring'.cells = ring.cells, ring'.read = ring.read
  PROVE  MQueue' = MQueue
  BY DEF MQueue, Nth

(* CopyIn appends to the queue. *)
LEMMA QueueAppends ==
  ASSUME StreamInv, NEW k \in 0..(Capacity - ring.fill), ring' = CopyIn(k)
  PROVE  MQueue' = MQueue \o [i \in 1..k |-> reader.seen - reader.owed + i]
<1>1. RingShape /\ reader.seen \in Int /\ reader.owed \in Int
  BY DEF StreamInv, Shape
<1>2. /\ RingShape' /\ ring'.fill = ring.fill + k
      /\ \A i \in 1..ring.fill : Nth(i)' = Nth(i)
      /\ \A i \in (ring.fill + 1)..(ring.fill + k) :
           Nth(i)' = reader.seen - reader.owed + (i - ring.fill)
  BY <1>1, CopyInAppends
<1>3. ring.fill \in Nat /\ k \in Nat
  BY <1>1, StreamAssumption DEF RingShape
<1> DEFINE f == MQueue
           h == MQueue'
           g == [i \in 1..k |-> reader.seen - reader.owed + i]
<1>4. f \in [1..ring.fill -> Int] /\ h \in [1..(ring.fill + k) -> Int]
      /\ g \in [1..k -> Int]
  <2>1. MQueue \in [1..ring.fill -> Int]
    BY <1>1, QueueIsFunction
  <2>2. (MQueue \in [1..ring.fill -> Int] /\ ring.fill \in Nat)'
    <3>1. RingShape'
      BY <1>2
    <3> QED
      BY <3>1, QueueIsFunction, PTL
  <2> QED
    BY <1>1, <1>2, <2>1, <2>2
<1>5. \A i \in 1..ring.fill : h[i] = f[i]
  BY <1>2, <1>3 DEF MQueue
<1>6. \A i \in 1..k : h[ring.fill + i] = g[i]
  <2> TAKE i \in 1..k
  <2> DEFINE j == ring.fill + i
  <2>1. j \in (ring.fill + 1)..(ring.fill + k) /\ j - ring.fill = i /\ j \in 1..ring'.fill
    BY <1>2, <1>3
  <2>2. \A n \in 1..ring'.fill : h[n] = Nth(n)'
    BY DEF MQueue
  <2>3. \A n \in (ring.fill + 1)..(ring.fill + k) :
          h[n] = reader.seen - reader.owed + (n - ring.fill)
    BY <1>2, <1>3, <2>2
  <2> HIDE DEF h
  <2> QED
    BY <2>1, <2>3
<1> HIDE DEF f, g, h
<1>7. h = f \o g
  BY <1>3, <1>4, <1>5, <1>6, JoinOfFunctions
<1> QED
  BY <1>7 DEF f, g, h

(* CopyOut takes from the queue. *)
LEMMA QueueShrinks ==
  ASSUME StreamInv, NEW k \in 1..ring.fill, ring' = CopyOut(k)
  PROVE  MQueue' = SubSeq(MQueue, k + 1, Len(MQueue)) /\ Len(MQueue) = ring.fill
<1>1. RingShape
  BY DEF StreamInv, Shape
<1>2. /\ RingShape' /\ ring'.fill = ring.fill - k
      /\ \A i \in 1..(ring.fill - k) : Nth(i)' = Nth(k + i)
  BY <1>1, CopyOutRemoves
<1>3. ring.fill \in Nat /\ MQueue \in [1..ring.fill -> Int]
  BY <1>1, QueueIsFunction
<1>4. MQueue' \in [1..(ring.fill - k) -> Int]
  <2>1. (MQueue \in [1..ring.fill -> Int] /\ ring.fill \in Nat)'
    <3>1. RingShape'
      BY <1>2
    <3> QED
      BY <3>1, QueueIsFunction, PTL
  <2> QED
    BY <1>2, <2>1
<1>5. \A i \in 1..(ring.fill - k) : MQueue'[i] = MQueue[k + i]
  BY <1>2, <1>3 DEF MQueue
<1> DEFINE f == MQueue
           h == MQueue'
<1> HIDE DEF f, h
<1>6. h = SubSeq(f, k + 1, Len(f))
  BY <1>3, <1>4, <1>5, RestOfFunction DEF f, h
<1>7. Len(f) = ring.fill
  BY <1>3, FunctionIsSeq DEF f
<1> QED
  BY <1>6, <1>7 DEF f, h

LEMMA EmptyQueue ==
  ASSUME ring.fill = 0
  PROVE  MQueue = <<>>
  BY DEF MQueue

-----------------------------------------------------------------------------
(* The five steps of the channel, over the mapping. *)

LEMMA IsPut ==
  ASSUME StreamInv, NEW k \in 1..Capacity, ~MClosed, ring.fill + k <= Capacity,
         MQueue' = MQueue \o [i \in 1..k |-> MPut + i], MPut' = MPut + k,
         UNCHANGED <<played, MClosed, outcome>>
  PROVE  Channel!ChannelNext
<1>1. Len(MQueue) = ring.fill
  BY QueueIsFunction, FunctionIsSeq DEF StreamInv, Shape
<1>2. Channel!Put(k)
  BY <1>1 DEF Channel!Put, MQueue, MPut, MClosed
<1> QED
  BY <1>2 DEF Channel!ChannelNext

LEMMA IsTake ==
  ASSUME NEW k \in 1..Capacity, outcome = "none", k <= ring.fill, Len(MQueue) = ring.fill,
         played' = MQueue[k], MQueue' = SubSeq(MQueue, k + 1, Len(MQueue)),
         UNCHANGED <<MPut, MClosed, outcome>>
  PROVE  Channel!ChannelNext
<1>1. Channel!Take(k)
  BY DEF Channel!Take, MQueue, MPut, MClosed
<1> QED
  BY <1>1 DEF Channel!ChannelNext

LEMMA IsHand ==
  ASSUME NEW k \in 1..Capacity, ~MClosed, outcome = "none", MQueue = <<>>,
         MPut' = MPut + k, played' = MPut', UNCHANGED <<MQueue, MClosed, outcome>>
  PROVE  Channel!ChannelNext
<1>1. Channel!Hand(k)
  BY DEF Channel!Hand, MQueue, MPut, MClosed
<1> QED
  BY <1>1 DEF Channel!ChannelNext

LEMMA IsClose ==
  ASSUME ~MClosed, MClosed' = TRUE, UNCHANGED <<MQueue, MPut, played, outcome>>
  PROVE  Channel!ChannelNext
<1>1. Channel!Close
  BY DEF Channel!Close, MQueue, MPut, MClosed
<1> QED
  BY <1>1 DEF Channel!ChannelNext

LEMMA IsFinish ==
  ASSUME outcome = "none", outcome' \in {"ok", "failed"},
         outcome' = "ok" => MClosed /\ MQueue = <<>>,
         UNCHANGED <<MQueue, MPut, played, MClosed>>
  PROVE  Channel!ChannelNext
<1>1. PICK r \in {"ok", "failed"} : r = outcome'
  OBVIOUS
<1>2. Channel!Finish(r)
  BY <1>1 DEF Channel!Finish, MQueue, MPut, MClosed
<1> QED
  BY <1>2 DEF Channel!ChannelNext

-----------------------------------------------------------------------------
(* Every step of the playback task is one of them, or none. *)

LEMMA PlayerSteps ==
  ASSUME StreamInv, StreamPlayer
  PROVE  Channel!ChannelNext \/ Rests
<1> USE DEF Buffered, Plain
<1>0. Shape /\ RingShape /\ Control /\ Ending
  BY DEF StreamInv, Shape
<1>1. CASE OpenStream
  <2>1. player.at = "open" /\ UNCHANGED <<source, ring, played>>
        /\ player'.over = player.over /\ outcome = "none"
        /\ (outcome' = outcome \/ outcome' = "failed")
    BY <1>0, <1>1 DEF OpenStream, PlayerGoes, Shape, Ending
  <2>2. MPut = 0 /\ MQueue' = MQueue /\ MClosed' = MClosed /\ played = 0
    BY <1>0, <2>1, QueueUntouched DEF Control, MPut, MClosed, Shape
  <2>3. MPut' = 0
    <3>1. CASE UNCHANGED reader
      BY <2>1, <2>2, <3>1 DEF MPut
    <3>2. CASE \E n \in (IF source.kind = "codec" THEN 1 ELSE 0)..Smaller(MaxHeader, Left) :
                 reader' = [reader EXCEPT !.seen = n, !.owed = n]
      <4>1. PICK n \in (IF source.kind = "codec" THEN 1 ELSE 0)..Smaller(MaxHeader, Left) :
                   reader' = [reader EXCEPT !.seen = n, !.owed = n]
        BY <3>2
      <4>2. n \in Int
        BY <1>0, <4>1, StreamAssumption DEF Smaller, Left, Shape
      <4>3. reader'.seen = n /\ reader'.owed = n
        BY <1>0, <4>1 DEF Shape
      <4> QED
        BY <2>1, <2>2, <4>2, <4>3 DEF MPut
    <3> QED
      BY <1>1, <3>1, <3>2 DEF OpenStream
  <2> QED
    BY <2>1, <2>2, <2>3, IsFinish DEF Rests
<1>2. CASE MakeBuffer
  <2>1. player.at = "init" /\ UNCHANGED <<source, reader, played>>
        /\ player'.over = player.over /\ outcome = "none"
        /\ (outcome' = outcome \/ outcome' = "failed")
        /\ ring'.fill = ring.fill /\ ring'.cells = ring.cells /\ ring'.read = ring.read
        /\ ring'.eof = ring.eof
    BY <1>0, <1>2 DEF MakeBuffer, PlayerGoes, Shape, RingShape, Ending
  <2>2. MQueue' = MQueue /\ MClosed' = MClosed
    BY <2>1, QueueUntouched DEF MClosed
  <2>3. MPut' = MPut
    BY <1>0, <2>1 DEF MPut, Control, Shape
  <2> QED
    BY <2>1, <2>2, <2>3, IsFinish DEF Rests
<1>3. CASE FirstWrite
  <2>0. player.at = "first" /\ UNCHANGED <<source, played, outcome>> /\ ~MClosed
        /\ ring.fill = 0 /\ reader.at = "none" /\ ring.memory = "live"
        /\ played = 0 /\ reader.owed = reader.seen /\ reader.seen <= Capacity
        /\ reader.seen \in Nat
    BY <1>0, <1>3, FirstWriteCases DEF Control, Ending, MClosed, Shape
  <2>1. player'.over = player.over
    <3>1. \/ player' = [player EXCEPT !.at = "prebuffer"]
          \/ player' = [player EXCEPT !.at = "end", !.err = TRUE]
          \/ player' = [player EXCEPT !.at = "direct"]
      BY <1>3, FirstWriteCases
    <3> QED
      BY <1>0, <3>1 DEF Shape
  <2>2. MPut = 0
    BY <2>0 DEF MPut
  <2>3. ASSUME ring' = CopyIn(reader.owed), reader'.seen = reader.seen, reader'.owed = 0
        PROVE  Channel!ChannelNext \/ Rests
    <3> DEFINE k == reader.owed
    <3>1. k \in 0..(Capacity - ring.fill)
      BY <2>0, StreamAssumption
    <3> HIDE DEF k
    <3>2. /\ ring'.fill = ring.fill + k /\ ring'.eof = ring.eof /\ ring'.memory = ring.memory
          /\ \A i \in 1..ring.fill : Nth(i)' = Nth(i)
      BY <1>0, <2>3, <3>1, WriteFits, CopyInAppends DEF k
    <3>3. MClosed' = MClosed
      BY <2>1, <3>2 DEF MClosed
    <3>4. MPut' = MPut + k
      BY <2>0, <2>2, <2>3, <3>2 DEF MPut, k
    <3>5. MQueue' = MQueue \o [i \in 1..k |-> MPut + i]
      <4>1. MQueue' = MQueue \o [i \in 1..k |-> reader.seen - reader.owed + i]
        BY <2>3, <3>1, QueueAppends DEF k
      <4>2. reader.seen - reader.owed = MPut
        BY <2>0, <2>2
      <4> QED
        BY <4>1, <4>2
    <3>6. CASE k > 0
      <4>1. k \in 1..Capacity /\ ring.fill + k <= Capacity
        BY <2>0, <3>1, <3>6, StreamAssumption
      <4> QED
        BY <2>0, <3>3, <3>4, <3>5, <4>1, IsPut
    <3>7. CASE k = 0
      <4>1. ring'.fill = ring.fill /\ MPut' = MPut
        BY <2>0, <2>2, <3>2, <3>4, <3>7
      <4> QED
        BY <2>0, <3>2, <3>3, <4>1, SameQueue DEF Rests
    <3> QED
      BY <2>0, <3>1, <3>6, <3>7 DEF k
  <2>4. CASE reader' = [reader EXCEPT !.at = "loop", !.owed = 0] /\ ring' = CopyIn(reader.owed)
    <3>1. reader'.seen = reader.seen /\ reader'.owed = 0
      BY <1>0, <2>4 DEF Shape
    <3> QED
      BY <2>3, <2>4, <3>1
  <2>5. CASE ring' = CopyIn(reader.owed) /\ reader' = [reader EXCEPT !.owed = 0]
    <3>1. reader'.seen = reader.seen /\ reader'.owed = 0
      BY <1>0, <2>5 DEF Shape
    <3> QED
      BY <2>3, <2>5, <3>1
  <2>6. CASE ring' = ring /\ reader' = [reader EXCEPT !.owed = reader.owed]
    <3>1. reader'.seen = reader.seen /\ reader'.owed = reader.owed /\ reader'.at = reader.at
      BY <1>0, <2>6 DEF Shape
    <3>2. MPut' = MPut /\ MClosed' = MClosed /\ MQueue' = MQueue
      BY <2>0, <2>1, <2>6, <3>1, QueueUntouched DEF MPut, MClosed
    <3> QED
      BY <2>0, <3>2 DEF Rests
  <2>7. CASE /\ source.kind = "wav" /\ reader' = reader
             /\ ring' = [EmptyRing EXCEPT !.memory = "freed"]
    <3>1. ring'.fill = 0 /\ ring'.memory = "freed" /\ ~ring'.eof
      BY <2>7, EmptyRingShape
    <3>2. MPut' = 0
      BY <2>0, <2>7, <3>1 DEF MPut
    <3>3. MClosed' = MClosed
      BY <1>0, <2>0, <2>1, <3>1 DEF MClosed, Ending
    <3>4. MQueue' = MQueue
      BY <2>0, <3>1, SameQueue
    <3> QED
      BY <2>0, <2>2, <3>2, <3>3, <3>4 DEF Rests
  <2> QED
    BY <1>3, <2>4, <2>5, <2>6, <2>7, FirstWriteCases
<1>4. CASE WaitPrebuffer \/ BeginPlaying \/ Feed \/ FlushPcm
  <2>1. UNCHANGED <<source, ring, reader, played, outcome>> /\ player'.over = player.over
    BY <1>0, <1>4 DEF WaitPrebuffer, BeginPlaying, Feed, FlushPcm, PlayerGoes, PlayerFails, Shape
  <2>2. MPut' = MPut /\ MClosed' = MClosed /\ MQueue' = MQueue
    BY <2>1, QueueUntouched DEF MPut, MClosed
  <2> QED
    BY <2>1, <2>2 DEF Rests
<1>5. CASE PlayerWaits \/ PlayerSignals
  <2>1. UNCHANGED <<source, reader, played, outcome>> /\ player'.over = player.over
        /\ ring'.fill = ring.fill /\ ring'.cells = ring.cells /\ ring'.read = ring.read
        /\ ring'.eof = ring.eof /\ ring'.memory = ring.memory
    BY <1>0, <1>5 DEF PlayerWaits, PlayerSignals, SignalBoth, PlayerGoes, Shape, RingShape
  <2>2. MPut' = MPut /\ MClosed' = MClosed /\ MQueue' = MQueue
    BY <2>1, QueueUntouched DEF MPut, MClosed
  <2> QED
    BY <2>1, <2>2 DEF Rests
<1>6. CASE ReadBuffer
  <2>1. player.at = "read" /\ UNCHANGED <<source, reader, outcome>> /\ outcome = "none"
        /\ ring.memory = "live"
    BY <1>0, <1>6 DEF ReadBuffer, Ending, Control
  <2>2. CASE /\ ring.fill > 0 /\ played' = Nth(Smaller(ReadSize, ring.fill))
             /\ ring' = CopyOut(Smaller(ReadSize, ring.fill))
             /\ player' = [player EXCEPT !.at = "feed",
                             !.eos = (ring.eof /\ ring.fill = Smaller(ReadSize, ring.fill))]
    <3> DEFINE k == Smaller(ReadSize, ring.fill)
    <3>1. k \in 1..ring.fill
      BY <1>0, <2>2, ReadTakes
    <3>2. player'.over = player.over
      BY <1>0, <2>2 DEF Shape
    <3> HIDE DEF k
    <3>3. ring'.eof = ring.eof /\ ring'.memory = ring.memory
      BY <1>0, <2>2, <3>1, CopyOutRemoves DEF k
    <3>4. MQueue' = SubSeq(MQueue, k + 1, Len(MQueue)) /\ Len(MQueue) = ring.fill
      BY <2>2, <3>1, QueueShrinks DEF k
    <3>5. k \in 1..Capacity /\ k <= ring.fill /\ played' = MQueue[k]
      BY <1>0, <2>2, <3>1, StreamAssumption DEF RingShape, MQueue, k
    <3>6. MClosed' = MClosed /\ MPut' = MPut
      BY <2>1, <3>2, <3>3 DEF MClosed, MPut
    <3> QED
      BY <2>1, <3>4, <3>5, <3>6, IsTake
  <2>3. CASE UNCHANGED <<ring, played>> /\ player'.over = player.over
    <3>1. MPut' = MPut /\ MClosed' = MClosed /\ MQueue' = MQueue
      BY <2>1, <2>3, QueueUntouched DEF MPut, MClosed
    <3> QED
      BY <2>1, <2>3, <3>1 DEF Rests
  <2> QED
    BY <1>0, <1>6, <2>2, <2>3 DEF ReadBuffer, PlayerFails, PlayerGoes, Shape
<1>7. CASE EndPlaying
  <2>1. UNCHANGED <<source, reader, played, outcome>> /\ player'.over = player.over
        /\ ring'.fill = ring.fill /\ ring'.cells = ring.cells /\ ring'.read = ring.read
        /\ ring'.memory = ring.memory /\ ring'.eof = ring.eof
    BY <1>0, <1>7 DEF EndPlaying, CloseOrFail, PlayerGoes, Shape, RingShape, Ending
  <2>2. MPut' = MPut /\ MClosed' = MClosed /\ MQueue' = MQueue
    BY <2>1, QueueUntouched DEF MPut, MClosed
  <2> QED
    BY <2>1, <2>2 DEF Rests
<1>8. CASE JoinReader
  <2>1. player.at = "join" /\ UNCHANGED <<source, reader, played>> /\ player'.over = player.over
        /\ ring'.fill = ring.fill /\ ring'.cells = ring.cells /\ ring'.read = ring.read
        /\ ring'.eof = ring.eof /\ outcome = "none" /\ ring.memory = "live"
    BY <1>0, <1>8 DEF JoinReader, PlayerGoes, Shape, RingShape, Ending, Control
  <2>2. MPut' = MPut /\ MClosed' = MClosed /\ MQueue' = MQueue
    BY <1>0, <2>1, QueueUntouched DEF MPut, MClosed, Control
  <2>3. outcome' \in {"ok", "failed"} /\ (outcome' = "ok" => ~player.err)
    BY <1>8 DEF JoinReader
  <2>4. outcome' = "ok" => MClosed /\ MQueue = <<>>
    BY <1>0, <2>1, <2>3, EmptyQueue DEF Ending, MClosed
  <2> QED
    BY <2>1, <2>2, <2>3, <2>4, IsFinish
<1>9. CASE DirectBegin
  <2>0. player.at = "direct" /\ UNCHANGED <<source, ring>> /\ player'.over = player.over
        /\ reader.at = "none" /\ ring.memory # "live" /\ source.kind = "wav"
        /\ ring.fill = 0 /\ played = 0 /\ ~MClosed /\ outcome = "none"
        /\ reader.seen \in Nat /\ reader.seen <= Capacity
    BY <1>0, <1>9 DEF DirectBegin, PlayerGoes, Shape, Control, Ending, MClosed
  <2>1. MQueue' = MQueue /\ MQueue = <<>> /\ MClosed' = MClosed /\ MPut = played
    BY <2>0, QueueUntouched, EmptyQueue DEF MClosed, MPut
  <2>2. CASE outcome' = "failed" /\ UNCHANGED <<reader, played>>
    <3>1. MPut' = MPut
      BY <2>0, <2>2 DEF MPut
    <3> QED
      BY <2>0, <2>1, <2>2, <3>1, IsFinish
  <2>3. CASE played' = reader.seen /\ reader' = [reader EXCEPT !.owed = 0]
             /\ UNCHANGED outcome
    <3>1. MPut' = played'
      BY <1>0, <2>0, <2>3 DEF MPut, Shape
    <3>2. CASE reader.seen = 0
      BY <2>0, <2>1, <2>3, <3>1, <3>2 DEF Rests
    <3>3. CASE reader.seen > 0
      <4>1. reader.seen \in 1..Capacity /\ MPut' = MPut + reader.seen
        BY <2>0, <2>1, <2>3, <3>1, <3>3, StreamAssumption
      <4> QED
        BY <2>0, <2>1, <2>3, <3>1, <4>1, IsHand
    <3> QED
      BY <2>0, <3>2, <3>3
  <2> QED
    BY <1>9, <2>2, <2>3 DEF DirectBegin
<1>10. CASE DirectRead
  <2>0. player.at = "direct_read" /\ UNCHANGED <<source, ring, outcome>>
        /\ reader.at = "none" /\ ring.memory # "live" /\ source.kind = "wav"
        /\ ring.fill = 0 /\ ~MClosed /\ outcome = "none" /\ played \in Int
    BY <1>0, <1>10 DEF DirectRead, Shape, Control, Ending, MClosed
  <2>1. MQueue' = MQueue /\ MQueue = <<>> /\ MPut = played
    BY <2>0, QueueUntouched, EmptyQueue DEF MPut
  <2>2. CASE \E k \in 1..Smaller(ReadSize, Left) :
               played' = played + k /\ reader' = [reader EXCEPT !.seen = @ + k]
    <3>1. PICK k \in 1..Smaller(ReadSize, Left) :
                 played' = played + k /\ reader' = [reader EXCEPT !.seen = @ + k]
      BY <2>2
    <3>2. k \in 1..Capacity
      <4>1. Smaller(ReadSize, Left) \in Int /\ Smaller(ReadSize, Left) <= Capacity
        BY <1>0, StreamAssumption DEF Smaller, Left, Shape
      <4> QED
        BY <3>1, <4>1, StreamAssumption
    <3>3. reader'.at = "none" /\ MPut' = played'
      BY <1>0, <2>0, <3>1 DEF MPut, Shape
    <3>4. CASE UNCHANGED player
      <4>1. MClosed' = MClosed
        BY <2>0, <3>4 DEF MClosed
      <4> QED
        BY <2>0, <2>1, <3>1, <3>2, <3>3, <4>1, IsHand
    <3>5. CASE UNCHANGED played
      BY <2>0, <3>1, <3>2, <3>5
    <3> QED
      BY <1>10, <3>4, <3>5 DEF DirectRead
  <2>3. CASE UNCHANGED <<reader, played>>
    <3>1. MPut' = MPut
      BY <2>0, <2>3 DEF MPut
    <3>2. MClosed' \in BOOLEAN /\ (MClosed' = MClosed \/ MClosed' = TRUE)
      BY <2>0 DEF MClosed
    <3> QED
      BY <2>0, <2>1, <2>3, <3>1, <3>2, IsClose DEF Rests
  <2> QED
    BY <1>10, <2>2, <2>3 DEF DirectRead
<1>11. CASE DirectEnd
  <2>0. player.at = "direct_end" /\ UNCHANGED <<source, ring, reader, played>>
        /\ player'.over = player.over /\ ring.fill = 0 /\ outcome = "none"
        /\ outcome' \in {"ok", "failed"} /\ (outcome' = "ok" => player.over)
    BY <1>0, <1>11 DEF DirectEnd, PlayerGoes, Shape, Control, Ending
  <2>1. MQueue' = MQueue /\ MQueue = <<>> /\ MClosed' = MClosed /\ MPut' = MPut
    BY <2>0, QueueUntouched, EmptyQueue DEF MPut, MClosed
  <2> QED
    BY <2>0, <2>1, IsFinish DEF MClosed
<1> QED
  BY <1>1, <1>2, <1>3, <1>4, <1>5, <1>6, <1>7, <1>8, <1>9, <1>10, <1>11 DEF StreamPlayer

(* The reader moves nothing while it goes from one step to the next. *)
LEMMA ReaderRests ==
  ASSUME UNCHANGED <<source, player, played, outcome>>,
         reader.at # "none", reader'.at # "none",
         reader'.seen = reader.seen, reader'.owed = reader.owed,
         ring'.fill = ring.fill, ring'.cells = ring.cells, ring'.read = ring.read,
         ring'.eof = ring.eof
  PROVE  Rests
<1>1. MQueue' = MQueue /\ MPut' = MPut /\ MClosed' = MClosed
  BY QueueUntouched DEF MPut, MClosed
<1> QED
  BY <1>1 DEF Rests

(* Every step of the reader task, and a stop, is one of them or none. *)
LEMMA ReaderSteps ==
  ASSUME StreamInv, StreamReader \/ AbortStream
  PROVE  Channel!ChannelNext \/ Rests
<1> USE DEF Buffered, Plain
<1>0. Shape /\ RingShape /\ Control /\ Ending
  BY DEF StreamInv, Shape
<1>1. CASE ReaderLoop \/ ReaderDone \/ NotifyPlayer
  <2>1. UNCHANGED <<source, ring, player, played, outcome>> /\ reader.at # "none"
        /\ reader'.at # "none" /\ reader'.seen = reader.seen /\ reader'.owed = reader.owed
    BY <1>0, <1>1 DEF ReaderLoop, ReaderDone, NotifyPlayer, ReaderGoes, Shape
  <2> QED
    BY <2>1, ReaderRests
<1>2. CASE WriterWaits \/ ReaderSignals
  <2>1. UNCHANGED <<source, player, played, outcome>> /\ reader.at # "none"
        /\ reader'.at # "none" /\ reader'.seen = reader.seen /\ reader'.owed = reader.owed
        /\ ring'.fill = ring.fill /\ ring'.cells = ring.cells /\ ring'.read = ring.read
        /\ ring'.eof = ring.eof
    BY <1>0, <1>2 DEF WriterWaits, ReaderSignals, SignalBoth, ReaderGoes, Shape, RingShape
  <2> QED
    BY <2>1, ReaderRests
<1>3. CASE AbortStream
  <2>1. UNCHANGED <<source, ring, player, reader, played, outcome>>
    BY <1>3 DEF AbortStream
  <2>2. MQueue' = MQueue /\ MPut' = MPut /\ MClosed' = MClosed
    BY <2>1, QueueUntouched DEF MPut, MClosed
  <2> QED
    BY <2>1, <2>2 DEF Rests
<1>4. CASE HttpRead
  <2>1. reader.at = "http" /\ UNCHANGED <<source, ring, player, played, outcome>>
        /\ reader.owed = 0
    BY <1>0, <1>4 DEF HttpRead, Control
  <2>2. ASSUME NEW k \in 1..Smaller(ReadSize, Left),
               reader' = [reader EXCEPT !.at = "write", !.seen = @ + k, !.owed = k]
        PROVE  Rests
    <3>1. k \in Int /\ reader.seen \in Int
      BY <1>0, StreamAssumption DEF Shape, Smaller, Left
    <3>2. reader'.at = "write" /\ reader'.seen = reader.seen + k /\ reader'.owed = k
      BY <1>0, <2>2 DEF Shape
    <3>3. MPut' = MPut
      BY <2>1, <3>1, <3>2 DEF MPut
    <3>4. MQueue' = MQueue /\ MClosed' = MClosed
      BY <2>1, QueueUntouched DEF MClosed
    <3> QED
      BY <2>1, <3>3, <3>4 DEF Rests
  <2>3. CASE ReaderGoes("finish") \/ ReaderFails
    <3>1. reader'.at # "none" /\ reader'.seen = reader.seen /\ reader'.owed = reader.owed
      BY <1>0, <2>3 DEF ReaderGoes, ReaderFails, Shape
    <3> QED
      BY <2>1, <3>1, ReaderRests
  <2> QED
    BY <1>4, <2>2, <2>3 DEF HttpRead
<1>5. CASE WriteBuffer
  <2>1. reader.at = "write" /\ UNCHANGED <<source, player, played, outcome>>
    BY <1>5, WriteBufferCases
  <2>2. CASE ReaderFails /\ UNCHANGED ring
    <3>1. reader'.at # "none" /\ reader'.seen = reader.seen /\ reader'.owed = reader.owed
      BY <1>0, <2>2 DEF ReaderFails, Shape
    <3> QED
      BY <2>1, <2>2, <3>1, ReaderRests
  <2>3. ASSUME NEW k \in 0..(Capacity - ring.fill), ring' = CopyIn(k),
               \/ k = reader.owed
                  /\ reader' = [reader EXCEPT !.at = "loop", !.owed = reader.owed - k]
               \/ reader' = [reader EXCEPT !.at = "wait", !.owed = reader.owed - k]
        PROVE  Channel!ChannelNext \/ Rests
    <3>1. /\ ring'.fill = ring.fill + k /\ ring'.eof = ring.eof
          /\ \A i \in 1..ring.fill : Nth(i)' = Nth(i)
      BY <1>0, <2>3, WriteFits, CopyInAppends
    <3>2. reader'.at # "none" /\ reader'.seen = reader.seen /\ reader'.owed = reader.owed - k
      BY <1>0, <2>3 DEF Shape
    <3>3. k \in Nat /\ Capacity \in Nat /\ ring.fill \in Nat
          /\ reader.seen \in Nat /\ reader.owed \in Nat
      BY <1>0, StreamAssumption DEF RingShape, Shape
    <3>4. MPut = reader.seen - reader.owed /\ MPut' = MPut + k
      BY <2>1, <3>2, <3>3 DEF MPut
    <3>5. ~MClosed /\ MClosed' = MClosed
      BY <1>0, <2>1, <3>1 DEF MClosed, Ending
    <3>6. CASE k > 0
      <4>1. MQueue' = MQueue \o [i \in 1..k |-> MPut + i]
        BY <2>3, <3>4, QueueAppends
      <4>2. k \in 1..Capacity /\ ring.fill + k <= Capacity
        BY <3>3, <3>6
      <4> QED
        BY <2>1, <3>4, <3>5, <4>1, <4>2, IsPut
    <3>7. CASE k = 0
      <4>1. ring'.fill = ring.fill /\ MPut' = MPut
        BY <3>1, <3>3, <3>4, <3>7
      <4>2. MQueue' = MQueue
        BY <3>1, <4>1, SameQueue
      <4> QED
        BY <2>1, <3>5, <4>1, <4>2 DEF Rests
    <3> QED
      BY <3>3, <3>6, <3>7
  <2> QED
    BY <1>5, <2>2, <2>3, WriteBufferCases
<1>6. CASE FinishReading
  <2>1. reader.at = "finish" /\ UNCHANGED <<source, player, played, outcome>>
        /\ reader'.at # "none" /\ reader'.seen = reader.seen /\ reader'.owed = reader.owed
        /\ ring'.fill = ring.fill /\ ring'.cells = ring.cells /\ ring'.read = ring.read
        /\ (ring'.eof = ring.eof \/ ring'.eof = TRUE)
    BY <1>0, <1>6 DEF FinishReading, CloseOrFail, ReaderGoes, Shape, RingShape
  <2>2. CASE ring'.eof = ring.eof
    BY <2>1, <2>2, ReaderRests
  <2>3. CASE ring'.eof = TRUE
    <3>1. MQueue' = MQueue /\ MPut' = MPut /\ MClosed' = TRUE
      BY <2>1, <2>3, QueueUntouched DEF MPut, MClosed
    <3>2. ~MClosed
      BY <1>0, <2>1 DEF MClosed, Ending
    <3> QED
      BY <2>1, <3>1, <3>2, IsClose
  <2> QED
    BY <2>1, <2>2, <2>3
<1> QED
  BY <1>1, <1>2, <1>3, <1>4, <1>5, <1>6 DEF StreamReader

LEMMA ChannelInitially == StreamInit => Channel!ChannelInit
<1> SUFFICES ASSUME StreamInit PROVE Channel!ChannelInit
  OBVIOUS
<1>1. ring.fill = 0 /\ ring.memory = "none" /\ ~ring.eof /\ ~player.over /\ outcome = "none"
      /\ played = 0 /\ reader.seen = 0 /\ reader.owed = 0
  BY DEF StreamInit, EmptyRing
<1>2. MQueue = <<>> /\ MPut = 0 /\ MClosed = FALSE
  BY <1>1, EmptyQueue DEF MPut, MClosed
<1> QED
  BY <1>1, <1>2 DEF Channel!ChannelInit, MQueue, MPut, MClosed

LEMMA ChannelSteps ==
  StreamInv /\ [StreamNext]_streaming => [Channel!ChannelNext]_(Channel!channel)
<1> SUFFICES ASSUME StreamInv, [StreamNext]_streaming
             PROVE  [Channel!ChannelNext]_(Channel!channel)
  OBVIOUS
<1>1. Rests => UNCHANGED Channel!channel
  BY DEF Rests, Channel!channel, MQueue, MPut, MClosed
<1>2. CASE UNCHANGED streaming
  BY <1>1, <1>2, QueueUntouched DEF streaming, Rests, MPut, MClosed
<1> QED
  BY <1>1, <1>2, PlayerSteps, ReaderSteps DEF StreamNext

(* main/playback.c: whatever the sizes of the buffer, of the reads and of  *)
(* the file, the clip comes out of the download as a FIFO gives it, and    *)
(* "played" is answered only when all of it was.                           *)
THEOREM DownloadIsChannel == StreamSpec => StreamIsChannel
  BY ChannelInitially, ChannelSteps, StreamInvAlways, PTL
  DEF StreamSpec, StreamIsChannel, Channel!ChannelSpec

-----------------------------------------------------------------------------
(* The scene's ring.                                                       *)

(* The cells of a piece that goes in before the end of the memory: they    *)
(* follow one another, and none of what is in the ring is among them.      *)
PieceFits(C, r, f, k, w) ==
  /\ w \in 0..(C - 1) /\ Rem(w + k, C) = Rem(r + (f + k), C)
  /\ \A i \in 1..f : Rem(r + i - 1, C) \notin w..(w + k - 1)
  /\ \A i \in 1..k : Rem(r + (f + i) - 1, C) = w + i - 1

LEMMA PieceOfRing ==
  ASSUME NEW C \in Nat \ {0}, NEW r \in 0..(C - 1), NEW f \in 0..C, NEW k \in 0..(C - f),
         NEW w \in Int, w = Rem(r + f, C), w + k <= C
  PROVE  PieceFits(C, r, f, k, w)
<1>1. w \in 0..(C - 1) /\ k \in Nat /\ k <= C /\ f + k <= C
  <2>1. r + f \in Int
    OBVIOUS
  <2> QED
    BY <2>1, Remainder
<1>2. ASSUME NEW n \in 1..(f + k)
      PROVE  /\ Rem(r + n - 1, C) \in 0..(C - 1)
             /\ Rem(Rem(r + n - 1, C) - w + C, C) = IF n <= f THEN C - f + n - 1 ELSE n - 1 - f
  <2>1. r + n - 1 \in Int
    BY <1>1
  <2> QED
    BY <2>1, CellsOfRing, Remainder
<1>3. ASSUME NEW c \in 0..(C - 1)
      PROVE  Rem(c - w + C, C) = IF c < w THEN c - w + C ELSE c - w
  <2>1. c - w + C \in 0..(2 * C - 1)
    BY <1>1
  <2>2. Rem(c - w + C, C) = IF c - w + C < C THEN c - w + C ELSE c - w + C - C
    BY <2>1, Wraps
  <2> DEFINE d == Rem(c - w + C, C)
  <2> HIDE DEF d
  <2>3. d = IF c < w THEN c - w + C ELSE c - w
    BY <1>1, <2>2 DEF d
  <2> QED
    BY <2>3 DEF d
<1>4. ASSUME NEW i \in 1..f PROVE Rem(r + i - 1, C) \notin w..(w + k - 1)
  <2> DEFINE c == Rem(r + i - 1, C)
             d == Rem(c - w + C, C)
  <2>1. i \in 1..(f + k) /\ i <= f
    BY <1>1
  <2>2. c \in 0..(C - 1) /\ d = C - f + i - 1
    BY <1>2, <2>1
  <2>3. d = IF c < w THEN c - w + C ELSE c - w
    BY <1>3, <2>2
  <2> HIDE DEF c, d
  <2>4. c \notin w..(w + k - 1)
    BY <1>1, <2>2, <2>3
  <2> QED
    BY <2>4 DEF c
<1>5. ASSUME NEW i \in 1..k PROVE Rem(r + (f + i) - 1, C) = w + i - 1
  <2> DEFINE c == Rem(r + (f + i) - 1, C)
             d == Rem(c - w + C, C)
  <2>1. f + i \in 1..(f + k) /\ ~(f + i <= f) /\ (f + i) - 1 - f = i - 1
    BY <1>1
  <2>2. c \in 0..(C - 1) /\ d = i - 1
    BY <1>2, <2>1
  <2>3. d = IF c < w THEN c - w + C ELSE c - w
    BY <1>3, <2>2
  <2> HIDE DEF c, d
  <2>4. c = w + i - 1
    BY <1>1, <2>2, <2>3
  <2> QED
    BY <2>4 DEF c
<1>6. Rem(w + k, C) = Rem(r + (f + k), C)
  BY CellsOfRing
<1> QED
  BY <1>1, <1>4, <1>5, <1>6 DEF PieceFits

PcmShape ==
  /\ {"cells", "write", "read", "fill", "closed", "failed", "stop", "memory"} \subseteq DOMAIN pcm
  /\ pcm.cells \in [0..(RingFrames - 1) -> Int]
  /\ pcm.read \in 0..(RingFrames - 1) /\ pcm.fill \in 0..RingFrames
  /\ pcm.write = Rem(pcm.read + pcm.fill, RingFrames)

SceneShape ==
  /\ {"at", "mixes", "left", "fade", "waited", "err"} \subseteq DOMAIN scene
  /\ {"at", "given", "owed", "err", "done"} \subseteq DOMAIN back
  /\ scene.left \in Nat /\ scene.fade \in Nat
  /\ back.given \in Int /\ back.owed \in Nat

(* Where the background is, and what the scene may have done by then. *)
Lasting ==
  /\ scene.at = "setup" => back.at = "none"
  /\ back.done => back.at \in {"notify", "gone"}
  /\ pcm.closed => back.at \in {"done", "notify", "gone"}
  /\ back.at \in {"none", "begin", "stream", "again"} => back.owed = 0
  /\ RingInUse

SceneInv == PcmShape /\ SceneShape /\ Lasting

LEMMA RingSize == RingFrames \in Nat \ {0} /\ PieceFrames \in Nat \ {0}
  BY SceneAssumption

LEMMA SceneStarts == SceneInit => SceneInv
<1> SUFFICES ASSUME SceneInit PROVE SceneInv
  OBVIOUS
<1>1. Rem(0, RingFrames) = 0
  <2>1. 0 \in 0..(2 * RingFrames - 1) /\ 0 < RingFrames
    BY RingSize
  <2> QED
    BY <2>1, Wraps, RingSize
<1>2. PcmShape
  BY <1>1, RingSize DEF SceneInit, PcmShape
<1>3. SceneShape
  BY SceneAssumption DEF SceneInit, SceneShape
<1>4. Lasting
  BY DEF SceneInit, Lasting, RingInUse
<1> QED
  BY <1>2, <1>3, <1>4 DEF SceneInv

(* A read takes the oldest frames, if there are any. *)
LEMMA FramesTaken ==
  ASSUME PcmShape, NEW n \in Nat \ {0}, TakeFrames(n)
  PROVE  /\ PcmShape' /\ pcm'.memory = pcm.memory /\ pcm'.closed = pcm.closed
         /\ \/ UNCHANGED mixed /\ pcm.fill = 0 /\ pcm'.fill = 0
            \/ \E k \in 1..pcm.fill :
                 /\ mixed' = NthFrame(k) /\ pcm'.fill = pcm.fill - k
                 /\ \A i \in 1..(pcm.fill - k) : NthFrame(i)' = NthFrame(k + i)
<1> DEFINE k == AtMost(n, pcm.fill)
<1>0. RingFrames \in Nat \ {0} /\ pcm.read \in 0..(RingFrames - 1) /\ pcm.fill \in 0..RingFrames
  BY RingSize DEF PcmShape
<1>1. k \in 0..pcm.fill /\ (k = 0 <=> pcm.fill = 0)
  BY <1>0 DEF AtMost
<1>2. /\ mixed' = IF k = 0 THEN mixed ELSE NthFrame(k)
      /\ pcm' = [pcm EXCEPT !.read = Rem(@ + k, RingFrames), !.fill = @ - k]
  BY DEF TakeFrames, Rem
<1> HIDE DEF k
<1>3. /\ DOMAIN pcm' = DOMAIN pcm /\ pcm'.cells = pcm.cells /\ pcm'.write = pcm.write
      /\ pcm'.read = Rem(pcm.read + k, RingFrames) /\ pcm'.fill = pcm.fill - k
      /\ pcm'.memory = pcm.memory /\ pcm'.closed = pcm.closed
  BY <1>2 DEF PcmShape
<1>4. CASE k = 0
  <2>1. Rem(pcm.read + k, RingFrames) = pcm.read
    <3>1. pcm.read + k \in 0..(2 * RingFrames - 1) /\ pcm.read + k < RingFrames
          /\ pcm.read + k = pcm.read
      BY <1>0, <1>4
    <3> QED
      BY <1>0, <3>1, Wraps
  <2>2. pcm'.read = pcm.read /\ pcm'.fill = pcm.fill /\ pcm.fill = 0
    BY <1>0, <1>1, <1>3, <1>4, <2>1
  <2>3. PcmShape'
    BY <1>3, <2>2 DEF PcmShape
  <2> QED
    BY <1>2, <1>3, <1>4, <2>2, <2>3
<1>5. CASE k # 0
  <2>1. k \in 1..pcm.fill
    BY <1>0, <1>1, <1>5
  <2>2. /\ Rem(pcm.read + pcm.fill, RingFrames)
             = Rem(Rem(pcm.read + k, RingFrames) + (pcm.fill - k), RingFrames)
        /\ \A i \in 1..(pcm.fill - k) :
             Rem(Rem(pcm.read + k, RingFrames) + i - 1, RingFrames)
               = Rem(pcm.read + (k + i) - 1, RingFrames)
    BY <1>0, <2>1, RestOfRing
  <2>3. PcmShape'
    <3>1. Rem(pcm.read + k, RingFrames) \in 0..(RingFrames - 1)
      <4>1. pcm.read + k \in Int
        BY <1>0, <2>1
      <4> QED
        BY <1>0, <4>1, Remainder
    <3>2. pcm.fill - k \in 0..RingFrames
      BY <1>0, <2>1
    <3>3. pcm'.write = Rem(pcm'.read + pcm'.fill, RingFrames)
      BY <1>3, <2>2 DEF PcmShape
    <3> QED
      BY <1>3, <3>1, <3>2, <3>3 DEF PcmShape
  <2>4. \A i \in 1..(pcm.fill - k) : NthFrame(i)' = NthFrame(k + i)
    BY <1>3, <2>2 DEF NthFrame, Rem
  <2> QED
    BY <1>2, <1>3, <1>5, <2>1, <2>3, <2>4
<1> QED
  BY <1>4, <1>5

(* A turn of a write puts its frames behind those in the ring. *)
LEMMA FramesWritten ==
  ASSUME PcmShape, SceneShape, WriteRing, ~RingRefuses, back.at = "write"
  PROVE  \E k \in 0..(RingFrames - pcm.fill) :
           /\ PcmShape' /\ pcm'.memory = pcm.memory /\ pcm'.closed = pcm.closed
           /\ pcm'.fill = pcm.fill + k
           /\ \A i \in 1..pcm.fill : NthFrame(i)' = NthFrame(i)
           /\ \A i \in (pcm.fill + 1)..(pcm.fill + k) :
                NthFrame(i)' = (back.given - back.owed) + (i - pcm.fill)
           /\ k \in 0..back.owed
           /\ back' = [back EXCEPT !.at = IF k = back.owed THEN "stream" ELSE "wait",
                                   !.owed = @ - k]
<1> DEFINE k == WriteFrames
           next == back.given - back.owed + 1
<1>0. /\ RingFrames \in Nat \ {0} /\ pcm.read \in 0..(RingFrames - 1)
      /\ pcm.fill \in 0..RingFrames /\ back.given \in Int /\ back.owed \in Nat
      /\ pcm.cells \in [0..(RingFrames - 1) -> Int]
  BY RingSize DEF PcmShape, SceneShape
<1>1. pcm.write \in 0..(RingFrames - 1)
  <2>1. pcm.read + pcm.fill \in Int
    BY <1>0
  <2> QED
    BY <1>0, <2>1, Remainder DEF PcmShape
<1>m. /\ RingFrames \in Nat /\ pcm.fill \in Nat /\ pcm.fill <= RingFrames
      /\ back.owed \in Nat /\ back.given \in Int /\ pcm.write \in Nat /\ pcm.write < RingFrames
  BY <1>0, <1>1
<1>2. k \in 0..(RingFrames - pcm.fill) /\ k <= back.owed /\ pcm.write + k <= RingFrames
  <2> DEFINE m == AtMost(back.owed, RingFrames - pcm.fill)
  <2>1. m \in 0..(RingFrames - pcm.fill) /\ m <= back.owed
    BY <1>m DEF AtMost
  <2>2. k = AtMost(m, RingFrames - pcm.write)
    BY DEF WriteFrames
  <2> HIDE DEF m, k
  <2>3. m \in Nat /\ RingFrames - pcm.write \in Nat
    BY <1>m, <2>1
  <2>4. k \in Nat /\ k <= m /\ k <= RingFrames - pcm.write
    BY <2>2, <2>3 DEF AtMost
  <2> QED
    BY <1>m, <2>1, <2>3, <2>4
<1>3. /\ pcm' = [pcm EXCEPT
                   !.cells = [i \in DOMAIN @ |->
                                IF i \in pcm.write..pcm.write + k - 1
                                THEN next + i - pcm.write ELSE @[i]],
                   !.write = Rem(@ + k, RingFrames),
                   !.fill = @ + k]
      /\ back' = [back EXCEPT !.at = IF k = back.owed THEN "stream" ELSE "wait",
                              !.owed = @ - k]
  BY DEF WriteRing, Rem
<1> HIDE DEF k
<1>k. k \in Nat /\ k <= RingFrames - pcm.fill
  BY <1>m, <1>2
<1> DEFINE cells == [i \in 0..(RingFrames - 1) |->
                       IF i \in pcm.write..(pcm.write + k - 1)
                       THEN next + i - pcm.write ELSE pcm.cells[i]]
<1>4. /\ DOMAIN pcm' = DOMAIN pcm /\ pcm'.read = pcm.read
      /\ pcm'.write = Rem(pcm.write + k, RingFrames) /\ pcm'.fill = pcm.fill + k
      /\ pcm'.memory = pcm.memory /\ pcm'.closed = pcm.closed
  BY <1>3 DEF PcmShape
<1>5. pcm'.cells = cells
  <2>1. DOMAIN pcm.cells = 0..(RingFrames - 1)
    BY <1>0
  <2> QED
    BY <1>3, <2>1 DEF PcmShape
<1>6. next \in Int /\ (\A i \in 0..(RingFrames - 1) : next + i - pcm.write \in Int)
  BY <1>0, <1>1
<1>7. cells \in [0..(RingFrames - 1) -> Int]
  <2> HIDE DEF next
  <2> QED
    BY <1>0, <1>6
<1> DEFINE w == pcm.write
<1>8. /\ Rem(w + k, RingFrames) = Rem(pcm.read + (pcm.fill + k), RingFrames)
      /\ \A i \in 1..pcm.fill : Rem(pcm.read + i - 1, RingFrames) \notin w..(w + k - 1)
      /\ \A i \in 1..k : Rem(pcm.read + (pcm.fill + i) - 1, RingFrames) = w + i - 1
  <2>1. w = Rem(pcm.read + pcm.fill, RingFrames)
    BY DEF PcmShape
  <2>2. w \in Int /\ w + k <= RingFrames
    BY <1>m, <1>2
  <2>3. pcm.read \in 0..(RingFrames - 1) /\ pcm.fill \in 0..RingFrames
        /\ RingFrames \in Nat \ {0}
    BY <1>0
  <2>4. k \in 0..(RingFrames - pcm.fill)
    BY <1>2
  <2> HIDE DEF w
  <2>5. PieceFits(RingFrames, pcm.read, pcm.fill, k, w)
    BY <2>1, <2>2, <2>3, <2>4, PieceOfRing
  <2> QED
    BY <2>5 DEF PieceFits
<1>9. PcmShape'
  <2>1. pcm.fill + k \in 0..RingFrames
    BY <1>0, <1>2
  <2> HIDE DEF cells, w
  <2> QED
    BY <1>0, <1>4, <1>5, <1>7, <1>8, <2>1 DEF PcmShape, w
<1>10. ASSUME NEW i \in 1..pcm.fill PROVE NthFrame(i)' = NthFrame(i)
  <2> DEFINE c == Rem(pcm.read + i - 1, RingFrames)
  <2>1. c \in 0..(RingFrames - 1)
    <3>1. pcm.read + i - 1 \in Int
      BY <1>0
    <3> QED
      BY <1>0, <3>1, Remainder
  <2>2. c \notin w..(w + k - 1)
    BY <1>8
  <2> HIDE DEF c
  <2>3. pcm'.cells[c] = pcm.cells[c]
    BY <1>5, <2>1, <2>2
  <2> QED
    BY <1>4, <2>3 DEF NthFrame, Rem, c
<1>11. ASSUME NEW i \in (pcm.fill + 1)..(pcm.fill + k)
       PROVE  NthFrame(i)' = (back.given - back.owed) + (i - pcm.fill)
  <2> DEFINE n == i - pcm.fill
             c == w + n - 1
  <2>1. n \in 1..k /\ i = pcm.fill + n
    BY <1>m, <1>k
  <2>2. c \in 0..(RingFrames - 1) /\ c \in w..(w + k - 1)
    <3> HIDE DEF n
    <3> QED
      BY <1>m, <1>k, <1>2, <2>1
  <2>3. next + c - w = (back.given - back.owed) + n
    <3> HIDE DEF n
    <3> QED
      BY <1>m, <1>k, <1>2, <2>1
  <2>4. Rem(pcm'.read + i - 1, RingFrames) = c
    <3> HIDE DEF n, w
    <3> QED
      BY <1>4, <1>8, <2>1
  <2> HIDE DEF c, n
  <2>5. pcm'.cells[c] = next + c - w
    BY <1>5, <2>2
  <2>6. NthFrame(i)' = (back.given - back.owed) + n
    BY <2>3, <2>4, <2>5 DEF NthFrame, Rem
  <2> QED
    BY <2>6 DEF n
<1>12. k \in 0..back.owed
  BY <1>0, <1>2
<1> QED
  BY <1>2, <1>3, <1>4, <1>9, <1>10, <1>11, <1>12

LEMMA ShapeStays ==
  ASSUME PcmShape, DOMAIN pcm' = DOMAIN pcm, pcm'.cells = pcm.cells, pcm'.write = pcm.write,
         pcm'.read = pcm.read, pcm'.fill = pcm.fill
  PROVE  PcmShape'
  BY DEF PcmShape

LEMMA SceneTaskKeeps ==
  ASSUME SceneInv, SceneTask
  PROVE  SceneInv'
<1>0. PcmShape /\ SceneShape /\ Lasting
  BY DEF SceneInv
<1>1. CASE SetUp
  <2>1. /\ DOMAIN pcm' = DOMAIN pcm /\ pcm'.cells = pcm.cells /\ pcm'.write = pcm.write
        /\ pcm'.read = pcm.read /\ pcm'.fill = pcm.fill /\ pcm'.closed = pcm.closed
    BY <1>0, <1>1 DEF SetUp, PcmShape
  <2>2. PcmShape'
    BY <1>0, <2>1, ShapeStays
  <2>3. SceneShape'
    BY <1>0, <1>1 DEF SetUp, SceneGoes, BackGoes, SceneShape
  <2>4. Lasting'
    <3>1. scene'.at \in {"prebuffer", "begin"} /\ scene.at = "setup" /\ back.at = "none"
      BY <1>0, <1>1 DEF SetUp, SceneGoes, SceneShape, Lasting
    <3>2. ~back.done /\ ~pcm.closed
      BY <1>0, <3>1 DEF Lasting
    <3>3. CASE pcm' = [pcm EXCEPT !.memory = "live"] /\ BackGoes("begin")
      <4>1. /\ back'.at = "begin" /\ back'.done = back.done /\ back'.owed = 0
            /\ pcm'.memory = "live" /\ pcm'.closed = pcm.closed
        <5>1. back'.at = "begin" /\ back'.done = back.done /\ back'.owed = back.owed
          BY <1>0, <3>3 DEF BackGoes, SceneShape
        <5>2. back.owed = 0
          BY <1>0, <3>1 DEF Lasting
        <5>3. pcm'.memory = "live" /\ pcm'.closed = pcm.closed
          BY <1>0, <3>3 DEF PcmShape
        <5> QED
          BY <5>1, <5>2, <5>3
      <4> QED
        BY <3>1, <3>2, <4>1 DEF Lasting, RingInUse
    <3>4. CASE UNCHANGED back
      <4>1. back.owed = 0
        BY <1>0, <3>1 DEF Lasting
      <4> QED
        BY <2>1, <3>1, <3>2, <3>4, <4>1 DEF Lasting, RingInUse
    <3> QED
      BY <1>1, <3>3, <3>4 DEF SetUp
  <2> QED
    BY <2>2, <2>3, <2>4 DEF SceneInv
<1>2. CASE AwaitBackground \/ WaitsForBackground \/ BeginForeground \/ ForegroundOver
  <2>1. UNCHANGED <<pcm, back>>
    BY <1>2 DEF AwaitBackground, WaitsForBackground, BeginForeground, ForegroundOver
  <2>2. SceneShape' /\ scene'.at # "setup"
    <3>1. CASE AwaitBackground
      <4>1. \/ scene' = [scene EXCEPT !.at = "prewait"]
            \/ \E b \in BOOLEAN : scene' = [scene EXCEPT !.at = "begin", !.mixes = b]
        BY <3>1 DEF AwaitBackground
      <4> QED
        BY <1>0, <2>1, <4>1 DEF SceneShape
    <3>2. CASE WaitsForBackground
      BY <1>0, <2>1, <3>2 DEF WaitsForBackground, SceneShape
    <3>3. CASE BeginForeground
      BY <1>0, <2>1, <3>3 DEF BeginForeground, SceneGoes, SceneShape
    <3>4. CASE ForegroundOver
      BY <1>0, <2>1, <3>4 DEF ForegroundOver, SceneGoes, SceneShape
    <3> QED
      BY <1>2, <3>1, <3>2, <3>3, <3>4
  <2>3. PcmShape'
    BY <1>0, <2>1 DEF PcmShape
  <2>4. Lasting'
    BY <1>0, <2>1, <2>2 DEF Lasting, RingInUse
  <2> QED
    BY <2>2, <2>3, <2>4 DEF SceneInv
<1>3. CASE MixPiece
  <2>1. UNCHANGED back /\ scene.at # "setup"
    BY <1>3 DEF MixPiece
  <2>2. CASE scene' = [scene EXCEPT !.at = "fade", !.err = TRUE] /\ UNCHANGED pcm
    <3>1. SceneShape' /\ scene'.at # "setup"
      BY <1>0, <2>1, <2>2 DEF SceneShape
    <3>2. PcmShape' /\ Lasting'
      BY <1>0, <2>1, <2>2, <3>1 DEF PcmShape, Lasting, RingInUse
    <3> QED
      BY <3>1, <3>2 DEF SceneInv
  <2>3. ASSUME NEW n \in 1..AtMost(PieceFrames, scene.left),
               scene' = [scene EXCEPT !.left = @ - n],
               IF scene.mixes /\ ~cut THEN TakeFrames(n) ELSE UNCHANGED <<pcm, mixed>>
        PROVE  SceneInv'
    <3>1. n \in Nat \ {0} /\ n <= scene.left
      BY <1>0, <2>3, RingSize DEF AtMost, SceneShape
    <3>2. SceneShape' /\ scene'.at = scene.at
      BY <1>0, <2>1, <2>3, <3>1 DEF SceneShape
    <3>3. PcmShape' /\ pcm'.memory = pcm.memory /\ pcm'.closed = pcm.closed
      <4>1. CASE TakeFrames(n)
        BY <1>0, <3>1, <4>1, FramesTaken
      <4>2. CASE UNCHANGED pcm
        BY <1>0, <4>2 DEF PcmShape
      <4> QED
        BY <2>3, <4>1, <4>2
    <3>4. Lasting'
      BY <1>0, <2>1, <3>2, <3>3 DEF Lasting, RingInUse
    <3> QED
      BY <3>2, <3>3, <3>4 DEF SceneInv
  <2> QED
    BY <1>3, <2>2, <2>3 DEF MixPiece
<1>4. CASE FadeOut
  <2>1. UNCHANGED back /\ scene.at # "setup"
    BY <1>4 DEF FadeOut
  <2>2. CASE SceneGoes("stop") /\ UNCHANGED pcm
    <3>1. SceneShape' /\ scene'.at # "setup"
      BY <1>0, <2>1, <2>2 DEF SceneShape, SceneGoes
    <3>2. PcmShape' /\ Lasting'
      BY <1>0, <2>1, <2>2, <3>1 DEF PcmShape, Lasting, RingInUse
    <3> QED
      BY <3>1, <3>2 DEF SceneInv
  <2>3. CASE /\ scene.fade > 0 /\ pcm.fill > 0 /\ TakeFrames(AtMost(PieceFrames, scene.fade))
             /\ scene' = [scene EXCEPT !.fade =
                            @ - AtMost(AtMost(PieceFrames, scene.fade), pcm.fill)]
    <3> DEFINE n == AtMost(PieceFrames, scene.fade)
               k == AtMost(n, pcm.fill)
    <3>1. n \in Nat \ {0} /\ n <= scene.fade
      BY <1>0, <2>3, RingSize DEF AtMost, SceneShape
    <3>2. k \in Nat /\ k <= n
      <4>1. pcm.fill \in Nat
        BY <1>0, RingSize DEF PcmShape
      <4> HIDE DEF n
      <4> QED
        BY <3>1, <4>1 DEF AtMost
    <3> HIDE DEF n, k
    <3>3. scene.fade - k \in Nat
      BY <1>0, <3>1, <3>2 DEF SceneShape
    <3>4. SceneShape' /\ scene'.at = scene.at
      BY <1>0, <2>1, <2>3, <3>3 DEF SceneShape, n, k
    <3>5. PcmShape' /\ pcm'.memory = pcm.memory /\ pcm'.closed = pcm.closed
      BY <1>0, <2>3, <3>1, FramesTaken DEF n
    <3>6. Lasting'
      BY <1>0, <2>1, <3>4, <3>5 DEF Lasting, RingInUse
    <3> QED
      BY <3>4, <3>5, <3>6 DEF SceneInv
  <2> QED
    BY <1>4, <2>2, <2>3 DEF FadeOut
<1>5. CASE StopRing \/ FinishScene
  <2>1. /\ DOMAIN pcm' = DOMAIN pcm /\ pcm'.cells = pcm.cells /\ pcm'.write = pcm.write
        /\ pcm'.read = pcm.read /\ pcm'.fill = pcm.fill /\ pcm'.closed = pcm.closed
    BY <1>0, <1>5 DEF StopRing, FinishScene, PcmShape
  <2>2. PcmShape'
    BY <1>0, <2>1, ShapeStays
  <2>3. SceneShape' /\ scene'.at # "setup" /\ UNCHANGED back
    BY <1>0, <1>5 DEF StopRing, FinishScene, SceneGoes, SceneShape
  <2>4. pcm'.memory = pcm.memory \/ back.at \in {"none", "notify", "gone"}
    BY <1>0, <1>5 DEF StopRing, FinishScene, BackgroundJoined, PcmShape, Lasting
  <2>5. Lasting'
    BY <1>0, <2>1, <2>3, <2>4 DEF Lasting, RingInUse
  <2> QED
    BY <2>2, <2>3, <2>5 DEF SceneInv
<1> QED
  BY <1>1, <1>2, <1>3, <1>4, <1>5 DEF SceneTask

LEMMA BackgroundKeeps ==
  ASSUME SceneInv, BackgroundTask \/ CutScene \/ UNCHANGED mixing
  PROVE  SceneInv'
<1>0. PcmShape /\ SceneShape /\ Lasting
  BY DEF SceneInv
<1>1. CASE UNCHANGED <<pcm, scene, back>>
  BY <1>0, <1>1 DEF SceneInv, PcmShape, SceneShape, Lasting, RingInUse
<1>2. CASE BeginBackground \/ RingWriterWaits \/ PlayAgain \/ BackgroundDone \/ NotifyScene
  <2>1. UNCHANGED <<pcm, scene>>
    BY <1>2 DEF BeginBackground, RingWriterWaits, PlayAgain, BackgroundDone, NotifyScene
  <2>2. PcmShape'
    BY <1>0, <2>1 DEF PcmShape
  <2>3. SceneShape' /\ Lasting'
    BY <1>0, <1>2, <2>1 DEF BeginBackground, RingWriterWaits, PlayAgain, BackgroundDone,
       NotifyScene, BackGoes, BackFails, SceneShape, Lasting, RingInUse
  <2> QED
    BY <2>2, <2>3 DEF SceneInv
<1>3. CASE StreamBackground
  <2>1. UNCHANGED <<pcm, scene>> /\ back.at = "stream"
    BY <1>3 DEF StreamBackground
  <2>2. PcmShape'
    BY <1>0, <2>1 DEF PcmShape
  <2>3. ASSUME NEW k \in 1..AtMost(PieceFrames, MaxBackground - back.given),
               back' = [back EXCEPT !.at = "write", !.given = @ + k, !.owed = k]
        PROVE  SceneShape' /\ Lasting'
    <3>1. k \in Nat
      OBVIOUS
    <3> QED
      BY <1>0, <2>1, <2>3, <3>1 DEF SceneShape, Lasting, RingInUse
  <2>4. ASSUME back'.at \in {"again", "finish"},
               DOMAIN back' = DOMAIN back, back'.given = back.given,
               back'.owed = back.owed, back'.done = back.done
        PROVE  SceneShape' /\ Lasting'
    <3>1. ~back.done /\ ~pcm.closed /\ pcm.memory = "live" /\ scene.at # "setup"
          /\ back.owed = 0
      BY <1>0, <2>1 DEF Lasting, RingInUse
    <3>2. SceneShape'
      BY <1>0, <2>1, <2>4 DEF SceneShape
    <3> QED
      BY <2>1, <2>4, <3>1, <3>2 DEF Lasting, RingInUse
  <2>5. CASE BackGoes("again")
    <3>1. back'.at = "again" /\ DOMAIN back' = DOMAIN back /\ back'.given = back.given
          /\ back'.owed = back.owed /\ back'.done = back.done
      BY <1>0, <2>5 DEF BackGoes, SceneShape
    <3> QED
      BY <2>2, <2>4, <3>1 DEF SceneInv
  <2>6. CASE BackFails
    <3>1. back'.at = "finish" /\ DOMAIN back' = DOMAIN back /\ back'.given = back.given
          /\ back'.owed = back.owed /\ back'.done = back.done
      BY <1>0, <2>6 DEF BackFails, SceneShape
    <3> QED
      BY <2>2, <2>4, <3>1 DEF SceneInv
  <2>7. CASE \E k \in 1..AtMost(PieceFrames, MaxBackground - back.given) :
               back' = [back EXCEPT !.at = "write", !.given = @ + k, !.owed = k]
    <3>1. PICK k \in 1..AtMost(PieceFrames, MaxBackground - back.given) :
                 back' = [back EXCEPT !.at = "write", !.given = @ + k, !.owed = k]
      BY <2>7
    <3> QED
      BY <2>2, <2>3, <3>1 DEF SceneInv
  <2> QED
    BY <1>3, <2>5, <2>6, <2>7 DEF StreamBackground
<1>4. CASE WriteRing
  <2>1. UNCHANGED scene /\ back.at = "write"
    BY <1>4 DEF WriteRing
  <2>2. CASE BackFails /\ UNCHANGED pcm
    BY <1>0, <2>1, <2>2 DEF BackFails, SceneInv, PcmShape, SceneShape, Lasting, RingInUse
  <2>3. CASE ~RingRefuses
    <3>1. PICK k \in 0..(RingFrames - pcm.fill) :
            /\ PcmShape' /\ pcm'.memory = pcm.memory /\ pcm'.closed = pcm.closed
            /\ k \in 0..back.owed
            /\ back' = [back EXCEPT !.at = IF k = back.owed THEN "stream" ELSE "wait",
                                    !.owed = @ - k]
      BY <1>0, <1>4, <2>1, <2>3, FramesWritten
    <3>2. back.owed - k \in Nat /\ (k = back.owed => back.owed - k = 0)
      BY <1>0, <3>1 DEF SceneShape
    <3>3. SceneShape' /\ Lasting'
      BY <1>0, <2>1, <3>1, <3>2 DEF SceneShape, Lasting, RingInUse
    <3> QED
      BY <3>1, <3>3 DEF SceneInv
  <2> QED
    BY <1>4, <2>2, <2>3 DEF WriteRing
<1>5. CASE FinishRing
  <2>1. /\ DOMAIN pcm' = DOMAIN pcm /\ pcm'.cells = pcm.cells /\ pcm'.write = pcm.write
        /\ pcm'.read = pcm.read /\ pcm'.fill = pcm.fill /\ pcm'.memory = pcm.memory
    BY <1>0, <1>5 DEF FinishRing, PcmShape
  <2>2. PcmShape'
    BY <1>0, <2>1, ShapeStays
  <2>3. SceneShape' /\ Lasting'
    BY <1>0, <1>5, <2>1 DEF FinishRing, BackGoes, SceneShape, Lasting, RingInUse
  <2> QED
    BY <2>2, <2>3 DEF SceneInv
<1> QED
  BY <1>1, <1>2, <1>3, <1>4, <1>5 DEF BackgroundTask, CutScene, mixing

LEMMA SceneInvAlways == SceneSpec => []SceneInv
<1>1. SceneInit => SceneInv
  BY SceneStarts
<1>2. SceneInv /\ [SceneNext]_mixing => SceneInv'
  BY SceneTaskKeeps, BackgroundKeeps DEF SceneNext
<1> QED
  BY <1>1, <1>2, PTL DEF SceneSpec

(* main/playback.c: the ring is there for as long as the background may    *)
(* use it, however the scene ends.                                         *)
THEOREM RingOutlivesUse == SceneSpec => []RingInUse
<1>1. SceneInv => RingInUse
  BY DEF SceneInv, Lasting
<1> QED
  BY <1>1, SceneInvAlways, PTL

-----------------------------------------------------------------------------
(* The types of the scene.                                                 *)

PcmRings ==
  [cells : [0..(RingFrames - 1) -> 0..MaxBackground], write : 0..(RingFrames - 1),
   read : 0..(RingFrames - 1), fill : 0..RingFrames, closed : BOOLEAN, failed : BOOLEAN,
   stop : BOOLEAN, memory : {"none", "live", "freed"}]
SceneStates ==
  [at : SceneAt, mixes : BOOLEAN, left : 0..Foreground, fade : 0..FadeFrames,
   waited : BOOLEAN, err : BOOLEAN]
BackStates ==
  [at : BackAt, given : 0..MaxBackground, owed : 0..PieceFrames, err : BOOLEAN, done : BOOLEAN]

LEMMA SceneTypesAre ==
  SceneTypeOK <=>
    /\ cut \in BOOLEAN /\ loops \in BOOLEAN
    /\ pcm \in PcmRings /\ scene \in SceneStates /\ back \in BackStates
    /\ mixed \in 0..MaxBackground
  BY DEF SceneTypeOK, PcmRings, SceneStates, BackStates

LEMMA SceneSizes ==
  /\ RingFrames \in Nat \ {0} /\ PieceFrames \in Nat \ {0} /\ Foreground \in Nat
  /\ FadeFrames \in Nat /\ MaxBackground \in Nat
  BY SceneAssumption

LEMMA SceneStartsTyped == SceneInit => SceneTypeOK /\ back.owed <= back.given
<1> SUFFICES ASSUME SceneInit PROVE SceneTypeOK /\ back.owed <= back.given
  OBVIOUS
<1>1. pcm \in PcmRings
  BY SceneSizes DEF SceneInit, PcmRings
<1>2. scene \in SceneStates /\ back \in BackStates
  BY SceneSizes DEF SceneInit, SceneStates, BackStates, SceneAt, BackAt
<1>3. cut \in BOOLEAN /\ loops \in BOOLEAN
  <2>1. cut = FALSE /\ loops \in BOOLEAN
    BY DEF SceneInit
  <2> QED
    BY <2>1
<1>4. mixed \in 0..MaxBackground /\ back.owed <= back.given
  <2>1. mixed = 0 /\ back.owed = 0 /\ back.given = 0
    BY DEF SceneInit
  <2> QED
    BY <2>1, SceneSizes
<1> QED
  BY <1>1, <1>2, <1>3, <1>4, SceneTypesAre

LEMMA FramesTakenTyped ==
  ASSUME SceneTypeOK, NEW n \in Nat \ {0}, TakeFrames(n)
  PROVE  pcm' \in PcmRings /\ mixed' \in 0..MaxBackground /\ AtMost(n, pcm.fill) \in 0..n
<1> DEFINE k == AtMost(n, pcm.fill)
<1>0. pcm \in PcmRings /\ mixed \in 0..MaxBackground /\ RingFrames \in Nat \ {0}
  BY SceneTypesAre, SceneSizes
<1>1. pcm.fill \in 0..RingFrames /\ pcm.read \in 0..(RingFrames - 1)
  BY <1>0 DEF PcmRings
<1>2. k \in 0..pcm.fill /\ k <= n /\ k \in Nat
  BY <1>0, <1>1 DEF AtMost
<1>3. /\ mixed' = IF k = 0 THEN mixed ELSE NthFrame(k)
      /\ pcm' = [pcm EXCEPT !.read = Rem(pcm.read + k, RingFrames), !.fill = pcm.fill - k]
  BY DEF TakeFrames, Rem
<1> HIDE DEF k
<1>4. /\ Rem(pcm.read + k, RingFrames) \in 0..(RingFrames - 1)
      /\ Rem(pcm.read + k - 1, RingFrames) \in 0..(RingFrames - 1)
  BY <1>0, <1>1, <1>2, Remainder
<1>5. pcm.fill - k \in 0..RingFrames
  BY <1>0, <1>1, <1>2
<1>6. NthFrame(k) \in 0..MaxBackground
  BY <1>0, <1>4 DEF NthFrame, Rem, PcmRings
<1>7. pcm' \in PcmRings
  BY <1>0, <1>3, <1>4, <1>5 DEF PcmRings
<1>8. k \in 0..n
  BY <1>2
<1> QED
  BY <1>0, <1>3, <1>6, <1>7, <1>8 DEF k

LEMMA SceneTaskTyped ==
  ASSUME SceneTypeOK, back.owed <= back.given, SceneTask
  PROVE  SceneTypeOK' /\ back'.owed <= back'.given
<1>0. /\ cut \in BOOLEAN /\ loops \in BOOLEAN
      /\ pcm \in PcmRings /\ scene \in SceneStates /\ back \in BackStates
      /\ mixed \in 0..MaxBackground
  BY SceneTypesAre
<1>a. UNCHANGED <<cut, loops>>
  BY DEF SceneTask, SetUp, AwaitBackground, WaitsForBackground, BeginForeground, MixPiece,
         ForegroundOver, FadeOut, StopRing, FinishScene
<1>b. ASSUME pcm' \in PcmRings, scene' \in SceneStates, back' \in BackStates,
             back'.given = back.given, back'.owed = back.owed, mixed' \in 0..MaxBackground
      PROVE  SceneTypeOK' /\ back'.owed <= back'.given
  BY <1>0, <1>a, <1>b DEF SceneTypeOK, PcmRings, SceneStates, BackStates
<1>1. CASE SetUp
  <2>1. pcm' \in PcmRings /\ mixed' = mixed
    BY <1>0, <1>1 DEF SetUp, PcmRings
  <2>2. scene' \in SceneStates
    BY <1>0, <1>1 DEF SetUp, SceneGoes, SceneStates, SceneAt
  <2>3. back' \in BackStates /\ back'.given = back.given /\ back'.owed = back.owed
    BY <1>0, <1>1 DEF SetUp, BackGoes, BackStates, BackAt
  <2> QED
    BY <1>0, <1>b, <2>1, <2>2, <2>3
<1>2. CASE AwaitBackground
  <2> DEFINE ready == ~cut /\ (pcm.fill >= ReadyFrames \/ (PcmEnded /\ pcm.fill > 0))
  <2>1. \/ scene' = [scene EXCEPT !.at = "begin", !.mixes = ready]
        \/ scene' = [scene EXCEPT !.at = "prewait"]
    BY <1>2 DEF AwaitBackground
  <2>2. ready \in BOOLEAN
    OBVIOUS
  <2> HIDE DEF ready
  <2>3. scene' \in SceneStates
    BY <1>0, <2>1, <2>2 DEF SceneStates, SceneAt
  <2> QED
    BY <1>0, <1>2, <1>b, <2>3 DEF AwaitBackground
<1>3. CASE WaitsForBackground \/ BeginForeground \/ ForegroundOver
  <2>1. UNCHANGED <<pcm, back, mixed>>
    BY <1>3 DEF WaitsForBackground, BeginForeground, ForegroundOver
  <2>2. scene' \in SceneStates
    BY <1>0, <1>3
    DEF WaitsForBackground, BeginForeground, ForegroundOver, SceneGoes, SceneStates, SceneAt
  <2> QED
    BY <1>0, <1>b, <2>1, <2>2
<1>4. CASE MixPiece
  <2>1. back' = back
    BY <1>4 DEF MixPiece
  <2>2. CASE scene' = [scene EXCEPT !.at = "fade", !.err = TRUE] /\ UNCHANGED <<pcm, mixed>>
    <3>1. scene' \in SceneStates
      BY <1>0, <2>2 DEF SceneStates, SceneAt
    <3> QED
      BY <1>0, <1>b, <2>1, <2>2, <3>1
  <2>3. CASE \E n \in 1..AtMost(PieceFrames, scene.left) :
               /\ scene' = [scene EXCEPT !.left = @ - n]
               /\ IF scene.mixes /\ ~cut THEN TakeFrames(n) ELSE UNCHANGED <<pcm, mixed>>
    <3>1. PICK n \in 1..AtMost(PieceFrames, scene.left) :
                 /\ scene' = [scene EXCEPT !.left = @ - n]
                 /\ IF scene.mixes /\ ~cut THEN TakeFrames(n) ELSE UNCHANGED <<pcm, mixed>>
      BY <2>3
    <3>2. scene.left \in 0..Foreground /\ scene.left - n \in 0..Foreground /\ n \in Nat \ {0}
      <4>1. scene.left \in 0..Foreground
        BY <1>0 DEF SceneStates
      <4> QED
        BY <3>1, <4>1, SceneSizes DEF AtMost
    <3>3. scene' \in SceneStates
      BY <1>0, <3>1, <3>2 DEF SceneStates
    <3>4. pcm' \in PcmRings /\ mixed' \in 0..MaxBackground
      BY <1>0, <3>1, <3>2, FramesTakenTyped
    <3> QED
      BY <1>0, <1>b, <2>1, <3>3, <3>4
  <2> QED
    BY <1>4, <2>2, <2>3 DEF MixPiece
<1>5. CASE FadeOut
  <2>1. back' = back
    BY <1>5 DEF FadeOut
  <2>2. CASE SceneGoes("stop") /\ UNCHANGED <<pcm, mixed>>
    <3>1. scene' \in SceneStates
      BY <1>0, <2>2 DEF SceneGoes, SceneStates, SceneAt
    <3> QED
      BY <1>0, <1>b, <2>1, <2>2, <3>1
  <2>3. CASE /\ scene.fade > 0 /\ TakeFrames(AtMost(PieceFrames, scene.fade))
             /\ scene' = [scene EXCEPT
                            !.fade = @ - AtMost(AtMost(PieceFrames, scene.fade), pcm.fill)]
    <3> DEFINE n == AtMost(PieceFrames, scene.fade)
    <3>1. scene.fade \in 0..FadeFrames
      BY <1>0 DEF SceneStates
    <3>2. n \in Nat \ {0} /\ n <= scene.fade
      BY <2>3, <3>1, SceneSizes DEF AtMost
    <3>3. TakeFrames(n) /\ scene' = [scene EXCEPT !.fade = @ - AtMost(n, pcm.fill)]
      BY <2>3
    <3> HIDE DEF n
    <3>4. pcm' \in PcmRings /\ mixed' \in 0..MaxBackground /\ AtMost(n, pcm.fill) \in 0..n
      BY <3>2, <3>3, FramesTakenTyped
    <3>5. scene.fade - AtMost(n, pcm.fill) \in 0..FadeFrames
      BY <3>1, <3>2, <3>4, SceneSizes
    <3>6. scene' \in SceneStates
      BY <1>0, <3>3, <3>5 DEF SceneStates
    <3> QED
      BY <1>0, <1>b, <2>1, <3>4, <3>6
  <2> QED
    BY <1>5, <2>2, <2>3 DEF FadeOut
<1>6. CASE StopRing \/ FinishScene
  <2>1. UNCHANGED <<back, mixed>>
    BY <1>6 DEF StopRing, FinishScene
  <2>2. scene' \in SceneStates
    BY <1>0, <1>6 DEF StopRing, FinishScene, SceneGoes, SceneStates, SceneAt
  <2>3. pcm' \in PcmRings
    <3>1. CASE StopRing
      <4>1. pcm' = [pcm EXCEPT !.stop = (pcm.memory = "live")] /\ (pcm.memory = "live") \in BOOLEAN
        BY <3>1 DEF StopRing
      <4> QED
        BY <1>0, <4>1 DEF PcmRings
    <3>2. CASE FinishScene
      BY <1>0, <3>2 DEF FinishScene, PcmRings
    <3> QED
      BY <1>6, <3>1, <3>2
  <2> QED
    BY <1>0, <1>b, <2>1, <2>2, <2>3
<1> QED
  BY <1>1, <1>2, <1>3, <1>4, <1>5, <1>6 DEF SceneTask

LEMMA BackgroundTyped ==
  ASSUME SceneTypeOK, back.owed <= back.given, BackgroundTask \/ CutScene
  PROVE  SceneTypeOK' /\ back'.owed <= back'.given
<1>0. /\ cut \in BOOLEAN /\ loops \in BOOLEAN
      /\ pcm \in PcmRings /\ scene \in SceneStates /\ back \in BackStates
      /\ mixed \in 0..MaxBackground
  BY SceneTypesAre
<1>a. cut' \in BOOLEAN /\ UNCHANGED <<loops, scene, mixed>>
  BY <1>0 DEF BackgroundTask, BeginBackground, StreamBackground, WriteRing, RingWriterWaits,
              PlayAgain, FinishRing, BackgroundDone, NotifyScene, CutScene
<1>b. ASSUME pcm' \in PcmRings, back' \in BackStates, back'.owed <= back'.given
      PROVE  SceneTypeOK' /\ back'.owed <= back'.given
  BY <1>0, <1>a, <1>b DEF SceneTypeOK, PcmRings, SceneStates, BackStates
<1>c. ASSUME UNCHANGED pcm, back' \in BackStates, back'.given = back.given, back'.owed = back.owed
      PROVE  SceneTypeOK' /\ back'.owed <= back'.given
  BY <1>0, <1>b, <1>c
<1>n. back.given \in 0..MaxBackground /\ back.owed \in 0..PieceFrames
  BY <1>0 DEF BackStates
<1>1. CASE BeginBackground \/ RingWriterWaits \/ PlayAgain \/ BackgroundDone \/ NotifyScene
           \/ CutScene
  <2>1. pcm' = pcm
    BY <1>1 DEF BeginBackground, RingWriterWaits, PlayAgain, BackgroundDone, NotifyScene, CutScene
  <2>2. back' \in BackStates /\ back'.given = back.given /\ back'.owed = back.owed
    <3>1. CASE BeginBackground
      BY <1>0, <3>1 DEF BeginBackground, BackGoes, BackFails, BackStates, BackAt
    <3>2. CASE RingWriterWaits \/ PlayAgain
      BY <1>0, <3>2 DEF RingWriterWaits, PlayAgain, BackGoes, BackStates, BackAt
    <3>3. CASE BackgroundDone \/ NotifyScene \/ CutScene
      BY <1>0, <3>3 DEF BackgroundDone, NotifyScene, CutScene, BackGoes, BackStates, BackAt
    <3> QED
      BY <1>1, <3>1, <3>2, <3>3
  <2> QED
    BY <1>c, <2>1, <2>2
<1>2. CASE StreamBackground
  <2>1. pcm' = pcm
    BY <1>2 DEF StreamBackground
  <2>2. CASE BackGoes("again") \/ BackFails
    <3>1. back' \in BackStates /\ back'.given = back.given /\ back'.owed = back.owed
      BY <1>0, <2>2 DEF BackGoes, BackFails, BackStates, BackAt
    <3> QED
      BY <1>c, <2>1, <3>1
  <2>3. CASE \E k \in 1..AtMost(PieceFrames, MaxBackground - back.given) :
               back' = [back EXCEPT !.at = "write", !.given = @ + k, !.owed = k]
    <3>1. PICK k \in 1..AtMost(PieceFrames, MaxBackground - back.given) :
                 back' = [back EXCEPT !.at = "write", !.given = @ + k, !.owed = k]
      BY <2>3
    <3>2. k \in 0..PieceFrames /\ back.given + k \in 0..MaxBackground /\ k <= back.given + k
      BY <1>n, <3>1, SceneSizes DEF AtMost
    <3>3. back' \in BackStates /\ back'.given = back.given + k /\ back'.owed = k
      BY <1>0, <3>1, <3>2 DEF BackStates, BackAt
    <3> QED
      BY <1>0, <1>b, <2>1, <3>2, <3>3
  <2> QED
    BY <1>2, <2>2, <2>3 DEF StreamBackground
<1>3. CASE WriteRing
  <2>1. CASE BackFails /\ UNCHANGED pcm
    <3>1. back' \in BackStates /\ back'.given = back.given /\ back'.owed = back.owed
      BY <1>0, <2>1 DEF BackFails, BackStates, BackAt
    <3> QED
      BY <1>c, <2>1, <3>1
  <2>2. CASE ~(BackFails /\ UNCHANGED pcm)
    <3> DEFINE k == WriteFrames
               next == back.given - back.owed + 1
               cells == [i \in 0..(RingFrames - 1) |->
                           IF i \in pcm.write..(pcm.write + k - 1)
                           THEN next + i - pcm.write ELSE pcm.cells[i]]
    <3>0. /\ RingFrames \in Nat \ {0} /\ MaxBackground \in Nat /\ PieceFrames \in Nat
          /\ pcm.fill \in 0..RingFrames /\ pcm.write \in 0..(RingFrames - 1)
          /\ DOMAIN pcm.cells = 0..(RingFrames - 1)
      BY <1>0, SceneSizes DEF PcmRings
    <3>1. /\ pcm' = [pcm EXCEPT
                       !.cells = [i \in DOMAIN pcm.cells |->
                                    IF i \in pcm.write..(pcm.write + k - 1)
                                    THEN next + i - pcm.write ELSE pcm.cells[i]],
                       !.write = Rem(pcm.write + k, RingFrames), !.fill = pcm.fill + k]
          /\ back' = [back EXCEPT !.at = IF k = back.owed THEN "stream" ELSE "wait",
                                  !.owed = @ - k]
      BY <1>3, <2>2 DEF WriteRing, Rem
    <3>2. k \in Nat /\ k <= back.owed /\ k <= RingFrames - pcm.fill
      <4> DEFINE m == AtMost(back.owed, RingFrames - pcm.fill)
      <4>1. m \in Nat /\ m <= back.owed /\ m <= RingFrames - pcm.fill
        BY <1>n, <3>0 DEF AtMost
      <4>2. k = AtMost(m, RingFrames - pcm.write) /\ RingFrames - pcm.write \in Nat
        BY <3>0 DEF WriteFrames
      <4> HIDE DEF m, k
      <4>3. k \in Nat /\ k <= m
        BY <4>1, <4>2 DEF AtMost
      <4> QED
        BY <1>n, <3>0, <4>1, <4>3
    <3>3. pcm' = [pcm EXCEPT !.cells = cells, !.write = Rem(pcm.write + k, RingFrames),
                             !.fill = pcm.fill + k]
      BY <3>0, <3>1
    <3> HIDE DEF k
    <3>4. ASSUME NEW i \in 0..(RingFrames - 1)
          PROVE  (IF i \in pcm.write..(pcm.write + k - 1)
                  THEN next + i - pcm.write ELSE pcm.cells[i]) \in 0..MaxBackground
      <4>1. pcm.cells[i] \in 0..MaxBackground
        BY <1>0 DEF PcmRings
      <4>2. i \in pcm.write..(pcm.write + k - 1) => next + i - pcm.write \in 0..MaxBackground
        <5>1. /\ back.given \in Nat /\ back.owed \in Nat /\ back.owed <= back.given
              /\ back.given <= MaxBackground /\ pcm.write \in Nat
          BY <1>n, <3>0
        <5>2. ASSUME i \in pcm.write..(pcm.write + k - 1)
              PROVE  i - pcm.write \in 0..(k - 1)
          BY <3>2, <5>1, <5>2
        <5>3. ASSUME NEW n \in 0..(k - 1) PROVE next + n \in 0..MaxBackground
          BY <3>0, <3>2, <5>1
        <5>4. i \in Int /\ next \in Int /\ next + i - pcm.write = next + (i - pcm.write)
          BY <5>1
        <5> HIDE DEF next
        <5> QED
          BY <5>2, <5>3, <5>4
      <4> QED
        BY <4>1, <4>2
    <3>5. cells \in [0..(RingFrames - 1) -> 0..MaxBackground]
      BY <3>4
    <3> HIDE DEF cells
    <3>6. /\ Rem(pcm.write + k, RingFrames) \in 0..(RingFrames - 1)
          /\ pcm.fill + k \in 0..RingFrames
      <4>1. pcm.write + k \in Int /\ pcm.fill + k \in 0..RingFrames
        BY <3>0, <3>2
      <4> QED
        BY <3>0, <4>1, Remainder
    <3>7. pcm' \in PcmRings
      BY <1>0, <3>3, <3>5, <3>6 DEF PcmRings
    <3>8. back.owed - k \in 0..PieceFrames /\ back.owed - k <= back.given
      BY <1>n, <3>0, <3>2
    <3>9. back' \in BackStates /\ back'.given = back.given /\ back'.owed = back.owed - k
      <4>1. (IF k = back.owed THEN "stream" ELSE "wait") \in BackAt
        BY DEF BackAt
      <4> QED
        BY <1>0, <3>1, <3>8, <4>1 DEF BackStates
    <3> QED
      BY <1>b, <3>7, <3>8, <3>9
  <2> QED
    BY <2>1, <2>2
<1>4. CASE FinishRing
  <2>1. pcm' \in PcmRings
    <3> DEFINE failed == pcm.failed \/ (back.err /\ ~pcm.stop /\ ~cut)
    <3>1. pcm' = [pcm EXCEPT !.closed = TRUE, !.failed = failed] /\ failed \in BOOLEAN
      BY <1>4 DEF FinishRing
    <3> HIDE DEF failed
    <3> QED
      BY <1>0, <3>1 DEF PcmRings
  <2>2. back' \in BackStates /\ back'.given = back.given /\ back'.owed = back.owed
    BY <1>0, <1>4 DEF FinishRing, BackGoes, BackStates, BackAt
  <2> QED
    BY <1>b, <1>n, <2>1, <2>2
<1> QED
  BY <1>1, <1>2, <1>3, <1>4 DEF BackgroundTask

(* main/playback.c: the ring's indices, its fill and the counters of a     *)
(* scene stay within their bounds, whatever the sizes of ring, pieces and  *)
(* fade.                                                                   *)
THEOREM SceneTypeCorrect == SceneSpec => []SceneTypeOK
<1>1. SceneInit => SceneTypeOK /\ back.owed <= back.given
  BY SceneStartsTyped
<1>2. SceneTypeOK /\ back.owed <= back.given /\ [SceneNext]_mixing
        => (SceneTypeOK /\ back.owed <= back.given)'
  <2> SUFFICES ASSUME SceneTypeOK, back.owed <= back.given, [SceneNext]_mixing
               PROVE  SceneTypeOK' /\ back'.owed <= back'.given
    OBVIOUS
  <2>1. CASE UNCHANGED mixing
    BY <2>1 DEF mixing, SceneTypeOK
  <2> QED
    BY <2>1, SceneTaskTyped, BackgroundTyped DEF SceneNext
<1> QED
  BY <1>1, <1>2, PTL DEF SceneSpec

-----------------------------------------------------------------------------
(* The background as a channel.                                            *)

BQueue == [n \in 1..pcm.fill |-> NthFrame(n)]
BPut == back.given - back.owed

Idles == UNCHANGED <<BQueue, BPut, mixed, pcm.closed>>

LEMMA FramesAreQueue ==
  PcmShape => BQueue \in [1..pcm.fill -> Int] /\ pcm.fill \in Nat
<1> SUFFICES ASSUME PcmShape
             PROVE  BQueue \in [1..pcm.fill -> Int] /\ pcm.fill \in Nat
  OBVIOUS
<1>1. RingFrames \in Nat \ {0} /\ pcm.fill \in 0..RingFrames
  BY RingSize DEF PcmShape
<1>2. ASSUME NEW n \in 1..pcm.fill PROVE NthFrame(n) \in Int
  <2>1. pcm.read + n - 1 \in Int
    BY <1>1 DEF PcmShape
  <2>2. Rem(pcm.read + n - 1, RingFrames) \in 0..(RingFrames - 1)
    BY <1>1, <2>1, Remainder
  <2> QED
    BY <2>2 DEF NthFrame, Rem, PcmShape
<1> QED
  BY <1>1, <1>2 DEF BQueue

LEMMA FramesUntouched ==
  ASSUME pcm'.fill = pcm.fill, pcm'.cells = pcm.cells, pcm'.read = pcm.read
  PROVE  BQueue' = BQueue
  BY DEF BQueue, NthFrame

LEMMA NoFrames == ASSUME pcm.fill = 0 PROVE BQueue = <<>>
  BY DEF BQueue

(* What a read took is taken from the channel. *)
LEMMA TakeIsTake ==
  ASSUME SceneInv, NEW n \in Nat \ {0}, TakeFrames(n), UNCHANGED back
  PROVE  Background!ChannelNext \/ Idles
<1>0. PcmShape
  BY DEF SceneInv
<1>1. /\ PcmShape' /\ pcm'.closed = pcm.closed
      /\ \/ UNCHANGED mixed /\ pcm.fill = 0 /\ pcm'.fill = 0
         \/ \E k \in 1..pcm.fill :
              /\ mixed' = NthFrame(k) /\ pcm'.fill = pcm.fill - k
              /\ \A i \in 1..(pcm.fill - k) : NthFrame(i)' = NthFrame(k + i)
  BY <1>0, FramesTaken
<1>2. BPut' = BPut
  BY DEF BPut
<1>3. CASE UNCHANGED mixed /\ pcm.fill = 0 /\ pcm'.fill = 0
  <2>1. BQueue = <<>>
    BY <1>3, NoFrames
  <2>2. BQueue' = <<>>
    BY <1>3 DEF BQueue
  <2> QED
    BY <1>1, <1>2, <1>3, <2>1, <2>2 DEF Idles
<1>4. ASSUME NEW k \in 1..pcm.fill, mixed' = NthFrame(k), pcm'.fill = pcm.fill - k,
             \A i \in 1..(pcm.fill - k) : NthFrame(i)' = NthFrame(k + i)
      PROVE  Background!ChannelNext
  <2>1. BQueue \in [1..pcm.fill -> Int] /\ pcm.fill \in Nat
    BY <1>0, FramesAreQueue
  <2>2. (BQueue \in [1..pcm.fill -> Int] /\ pcm.fill \in Nat)'
    <3>1. PcmShape'
      BY <1>1
    <3> QED
      BY <3>1, FramesAreQueue, PTL
  <2>3. BQueue' \in [1..(pcm.fill - k) -> Int]
    BY <1>4, <2>2
  <2>4. \A i \in 1..(pcm.fill - k) : BQueue'[i] = BQueue[k + i]
    BY <1>4, <2>1 DEF BQueue
  <2> DEFINE f == BQueue
             h == BQueue'
  <2> HIDE DEF f, h
  <2>5. h = SubSeq(f, k + 1, Len(f))
    BY <2>1, <2>3, <2>4, RestOfFunction DEF f, h
  <2>6. Len(f) = pcm.fill
    BY <2>1, FunctionIsSeq DEF f
  <2>7. k \in 1..RingFrames /\ k <= pcm.fill
    BY <1>0, RingSize DEF PcmShape
  <2>8. mixed' = BQueue[k]
    BY <1>4 DEF BQueue
  <2>9. Background!Take(k)
    BY <1>1, <1>2, <2>5, <2>6, <2>7, <2>8 DEF Background!Take, BQueue, BPut, f, h
  <2> QED
    BY <2>7, <2>9 DEF Background!ChannelNext
<1> QED
  BY <1>1, <1>3, <1>4

(* What a turn of the write copied is put into the channel. *)
LEMMA WriteIsPut ==
  ASSUME SceneInv, WriteRing
  PROVE  Background!ChannelNext \/ Idles
<1>0. PcmShape /\ SceneShape /\ Lasting
  BY DEF SceneInv
<1>1. UNCHANGED mixed /\ back.at = "write"
  BY DEF WriteRing
<1>2. CASE BackFails /\ UNCHANGED pcm
  <2>1. BQueue' = BQueue
    BY <1>2, FramesUntouched
  <2>2. BPut' = BPut
    BY <1>0, <1>2 DEF BackFails, BPut, SceneShape
  <2> QED
    BY <1>1, <1>2, <2>1, <2>2 DEF Idles
<1>3. CASE ~RingRefuses
  <2>1. PICK k \in 0..(RingFrames - pcm.fill) :
           /\ PcmShape' /\ pcm'.closed = pcm.closed
           /\ pcm'.fill = pcm.fill + k
           /\ \A i \in 1..pcm.fill : NthFrame(i)' = NthFrame(i)
           /\ \A i \in (pcm.fill + 1)..(pcm.fill + k) :
                NthFrame(i)' = (back.given - back.owed) + (i - pcm.fill)
           /\ k \in 0..back.owed
           /\ back' = [back EXCEPT !.at = IF k = back.owed THEN "stream" ELSE "wait",
                                   !.owed = @ - k]
    BY <1>0, <1>1, <1>3, FramesWritten
  <2>2. /\ pcm.fill \in Nat /\ k \in Nat /\ RingFrames \in Nat
        /\ pcm.fill + k <= RingFrames /\ BPut \in Int
    BY <1>0, <2>1, RingSize DEF PcmShape, SceneShape, BPut
  <2>3. BPut' = BPut + k
    <3>1. back'.given = back.given /\ back'.owed = back.owed - k
      BY <1>0, <2>1 DEF SceneShape
    <3> QED
      BY <1>0, <2>2, <3>1 DEF BPut, SceneShape
  <2>4. BQueue \in [1..pcm.fill -> Int]
    BY <1>0, FramesAreQueue
  <2>5. (BQueue \in [1..pcm.fill -> Int] /\ pcm.fill \in Nat)'
    <3>1. PcmShape'
      BY <2>1
    <3> QED
      BY <3>1, FramesAreQueue, PTL
  <2> DEFINE f == BQueue
             h == BQueue'
             g == [i \in 1..k |-> BPut + i]
  <2>6. h \in [1..(pcm.fill + k) -> Int]
    BY <2>1, <2>5
  <2>7. \A i \in 1..pcm.fill : h[i] = f[i]
    BY <2>1, <2>2 DEF BQueue
  <2>8. \A i \in 1..k : h[pcm.fill + i] = g[i]
    <3> TAKE i \in 1..k
    <3> DEFINE j == pcm.fill + i
    <3>1. j \in (pcm.fill + 1)..(pcm.fill + k) /\ j - pcm.fill = i
      BY <2>2
    <3>2. \A n \in 1..pcm'.fill : h[n] = NthFrame(n)'
      BY DEF BQueue
    <3>3. \A n \in (pcm.fill + 1)..(pcm.fill + k) : h[n] = BPut + (n - pcm.fill)
      BY <2>1, <2>2, <3>2 DEF BPut
    <3> HIDE DEF h
    <3> QED
      BY <3>1, <3>3
  <2>9. g \in [1..k -> Int]
    BY <2>2
  <2> HIDE DEF f, g, h
  <2>10. h = f \o g
    BY <2>2, <2>4, <2>6, <2>7, <2>8, <2>9, JoinOfFunctions DEF f
  <2>11. ~pcm.closed
    BY <1>0, <1>1 DEF Lasting
  <2>12. Len(f) = pcm.fill
    BY <2>2, <2>4, FunctionIsSeq DEF f
  <2>13. CASE k > 0
    <3>1. Background!Put(k)
      BY <1>1, <2>1, <2>2, <2>3, <2>10, <2>11, <2>12
      DEF Background!Put, BQueue, BPut, f, g, h
    <3>2. k \in 1..RingFrames
      BY <2>2, <2>13
    <3> QED
      BY <3>1, <3>2 DEF Background!ChannelNext
  <2>14. CASE k = 0
    <3>1. pcm'.fill = pcm.fill /\ BPut' = BPut
      BY <2>1, <2>2, <2>3, <2>14
    <3>2. BQueue' = BQueue
      BY <2>1, <3>1 DEF BQueue
    <3> QED
      BY <1>1, <2>1, <3>1, <3>2 DEF Idles
  <2> QED
    BY <2>2, <2>13, <2>14
<1> QED
  BY <1>2, <1>3 DEF WriteRing

(* Every step of the two tasks, and a stop, is a step of the channel or    *)
(* none.                                                                   *)
LEMMA SceneSteps ==
  ASSUME SceneInv, SceneNext
  PROVE  Background!ChannelNext \/ Idles
<1>0. PcmShape /\ SceneShape /\ Lasting
  BY DEF SceneInv
<1>1. ASSUME UNCHANGED <<mixed, back>>,
             pcm'.fill = pcm.fill, pcm'.cells = pcm.cells, pcm'.read = pcm.read,
             pcm'.closed = pcm.closed
      PROVE  Idles
  BY <1>1, FramesUntouched DEF Idles, BPut
<1>2. ASSUME UNCHANGED <<mixed, pcm>>, back'.given = back.given, back'.owed = back.owed
      PROVE  Idles
  BY <1>2, FramesUntouched DEF Idles, BPut
<1>3. CASE SetUp
  <2>1. /\ UNCHANGED mixed /\ back'.given = back.given /\ back'.owed = back.owed
        /\ pcm'.fill = pcm.fill /\ pcm'.cells = pcm.cells /\ pcm'.read = pcm.read
        /\ pcm'.closed = pcm.closed
    BY <1>0, <1>3 DEF SetUp, BackGoes, PcmShape, SceneShape
  <2> QED
    BY <2>1, FramesUntouched DEF Idles, BPut
<1>4. CASE AwaitBackground \/ WaitsForBackground \/ BeginForeground \/ ForegroundOver \/ CutScene
  BY <1>1, <1>4
  DEF AwaitBackground, WaitsForBackground, BeginForeground, ForegroundOver, CutScene
<1>5. CASE StopRing \/ FinishScene
  <2>1. /\ UNCHANGED <<mixed, back>>
        /\ pcm'.fill = pcm.fill /\ pcm'.cells = pcm.cells /\ pcm'.read = pcm.read
        /\ pcm'.closed = pcm.closed
    BY <1>0, <1>5 DEF StopRing, FinishScene, PcmShape
  <2> QED
    BY <1>1, <2>1
<1>6. CASE MixPiece
  <2>1. UNCHANGED back
    BY <1>6 DEF MixPiece
  <2>2. ASSUME NEW n \in 1..AtMost(PieceFrames, scene.left), TakeFrames(n)
        PROVE  Background!ChannelNext \/ Idles
    <3>1. n \in Nat \ {0}
      BY <2>2, RingSize DEF AtMost, SceneShape
    <3> QED
      BY <2>1, <2>2, <3>1, TakeIsTake
  <2>3. CASE UNCHANGED <<pcm, mixed>>
    BY <1>1, <2>1, <2>3
  <2> QED
    BY <1>6, <2>2, <2>3 DEF MixPiece
<1>7. CASE FadeOut
  <2>1. UNCHANGED back
    BY <1>7 DEF FadeOut
  <2>2. CASE scene.fade > 0 /\ TakeFrames(AtMost(PieceFrames, scene.fade))
    <3>1. AtMost(PieceFrames, scene.fade) \in Nat \ {0}
      BY <1>0, <2>2, RingSize DEF AtMost, SceneShape
    <3> QED
      BY <2>1, <2>2, <3>1, TakeIsTake
  <2>3. CASE UNCHANGED <<pcm, mixed>>
    BY <1>1, <2>1, <2>3
  <2> QED
    BY <1>7, <2>2, <2>3 DEF FadeOut
<1>8. CASE BeginBackground \/ RingWriterWaits \/ PlayAgain \/ BackgroundDone \/ NotifyScene
  <2>1. UNCHANGED <<mixed, pcm>> /\ back'.given = back.given /\ back'.owed = back.owed
    BY <1>0, <1>8 DEF BeginBackground, RingWriterWaits, PlayAgain, BackgroundDone, NotifyScene,
       BackGoes, BackFails, SceneShape
  <2> QED
    BY <1>2, <2>1
<1>9. CASE StreamBackground
  <2>1. UNCHANGED <<mixed, pcm>> /\ back.at = "stream" /\ back.owed = 0
    BY <1>0, <1>9 DEF StreamBackground, Lasting
  <2>2. CASE BackGoes("again") \/ BackFails
    <3>1. back'.given = back.given /\ back'.owed = back.owed
      BY <1>0, <2>2 DEF BackGoes, BackFails, SceneShape
    <3> QED
      BY <1>2, <2>1, <3>1
  <2>3. ASSUME NEW k \in 1..AtMost(PieceFrames, MaxBackground - back.given),
               back' = [back EXCEPT !.at = "write", !.given = @ + k, !.owed = k]
        PROVE  Idles
    <3>1. k \in Int /\ back.given \in Int
      BY <1>0 DEF SceneShape
    <3>2. back'.given = back.given + k /\ back'.owed = k
      BY <1>0, <2>3 DEF SceneShape
    <3>3. BPut' = BPut
      BY <2>1, <3>1, <3>2 DEF BPut
    <3>4. BQueue' = BQueue
      BY <2>1, FramesUntouched
    <3> QED
      BY <2>1, <3>3, <3>4 DEF Idles
  <2> QED
    BY <1>9, <2>2, <2>3 DEF StreamBackground
<1>10. CASE FinishRing
  <2>1. /\ UNCHANGED mixed /\ back.at = "finish"
        /\ back'.given = back.given /\ back'.owed = back.owed
        /\ pcm'.fill = pcm.fill /\ pcm'.cells = pcm.cells /\ pcm'.read = pcm.read
        /\ pcm'.closed = TRUE
    BY <1>0, <1>10 DEF FinishRing, BackGoes, PcmShape, SceneShape
  <2>2. BQueue' = BQueue /\ BPut' = BPut
    BY <2>1, FramesUntouched DEF BPut
  <2>3. ~pcm.closed
    BY <1>0, <2>1 DEF Lasting
  <2>4. Background!Close
    BY <2>1, <2>2, <2>3 DEF Background!Close, BQueue, BPut
  <2> QED
    BY <2>4 DEF Background!ChannelNext
<1> QED
  BY <1>3, <1>4, <1>5, <1>6, <1>7, <1>8, <1>9, <1>10, WriteIsPut
  DEF SceneNext, SceneTask, BackgroundTask

(* main/playback.c: for every size of the ring and of the pieces, what is  *)
(* mixed under the foreground is the background as it was written: in      *)
(* order, each frame once, none after the ring was closed.                 *)
THEOREM SceneIsChannel == SceneSpec => RingIsChannel
<1>1. SceneInit => Background!ChannelInit
  <2> SUFFICES ASSUME SceneInit PROVE Background!ChannelInit
    OBVIOUS
  <2>1. /\ pcm.fill = 0 /\ ~pcm.closed /\ pcm.closed = FALSE /\ mixed = 0
        /\ back.given = 0 /\ back.owed = 0
    BY DEF SceneInit
  <2>2. BQueue = <<>> /\ BPut = 0
    BY <2>1, NoFrames DEF BPut
  <2> QED
    BY <2>1, <2>2 DEF Background!ChannelInit, BQueue, BPut
<1>2. SceneInv /\ [SceneNext]_mixing => [Background!ChannelNext]_(Background!channel)
  <2> SUFFICES ASSUME SceneInv, [SceneNext]_mixing
               PROVE  [Background!ChannelNext]_(Background!channel)
    OBVIOUS
  <2>1. Idles => UNCHANGED Background!channel
    BY DEF Idles, Background!channel, BQueue, BPut
  <2>2. CASE UNCHANGED mixing
    BY <2>1, <2>2, FramesUntouched DEF mixing, Idles, BPut
  <2> QED
    BY <2>1, <2>2, SceneSteps
<1> QED
  BY <1>1, <1>2, SceneInvAlways, PTL DEF SceneSpec, RingIsChannel, Background!ChannelSpec

-----------------------------------------------------------------------------
(* The watchdog.                                                           *)

(* How long ago t was, if that is less than a word.                        *)
Age(t) == IF t <= now THEN now - t ELSE now + TickWord - t

(* What the two tasks have read is not older than a tick, and of now where *)
(* they are not late.                                                      *)
Fresh(who, look) == Age(look.time) = 0 \/ (Age(look.time) = 1 /\ who \in late)

(* While the output stands where it was noted, that was not before it came *)
(* to stand there.                                                         *)
Watched ==
  /\ recovery.tracking => started
  /\ recovery.tracking /\ frames = recovery.last =>
       still = StallTicks \/ Age(recovery.progress) <= still + 1

RecoveryInv ==
  /\ RecoveryTypeOK /\ Watched
  /\ output.at = "note" => Fresh("output", output)
  /\ watchdog.at = "looked" => Fresh("watchdog", watchdog)
  /\ "output" \in late => output.at = "note"
  /\ output.at \in {"idle", "end"} => ~started

LEMMA WordTimes ==
  /\ StallTicks \in Nat \ {0} /\ TickWord \in Nat /\ TickWord > 2
  /\ \A t \in Ticks : t \in 0..(TickWord - 1) /\ t \in Nat
BY RecoveryAssumption DEF Ticks

LEMMA NextTick ==
  ASSUME NEW t \in Ticks
  PROVE  /\ (t + 1) % TickWord = IF t = TickWord - 1 THEN 0 ELSE t + 1
         /\ (t + 1) % TickWord \in Ticks
<1>1. t \in 0..(TickWord - 1) /\ TickWord \in Nat \ {0} /\ t + 1 \in 0..(2 * TickWord - 1)
  BY WordTimes
<1>2. (t + 1) % TickWord = IF t + 1 < TickWord THEN t + 1 ELSE (t + 1) - TickWord
  BY <1>1, Wraps DEF Rem
<1> QED
  BY <1>1, <1>2 DEF Ticks

LEMMA Elapsed ==
  ASSUME NEW s \in Ticks, NEW t \in Ticks
  PROVE  (s + TickWord - t) % TickWord = IF t <= s THEN s - t ELSE s + TickWord - t
<1>1. /\ s \in 0..(TickWord - 1) /\ t \in 0..(TickWord - 1) /\ TickWord \in Nat \ {0}
      /\ s + TickWord - t \in 0..(2 * TickWord - 1)
  BY WordTimes
<1> DEFINE x == s + TickWord - t
<1>2. x % TickWord = IF x < TickWord THEN x ELSE x - TickWord
  BY <1>1, Wraps DEF Rem
<1> QED
  BY <1>1, <1>2

(* The clock moves to a value that nobody compares with.                   *)
LEMMA MovesElsewhere == OutputMoves => frames' \in Counts /\ frames' # recovery.last
<1> SUFFICES ASSUME OutputMoves PROVE frames' \in Counts /\ frames' # recovery.last
  OBVIOUS
<1> DEFINE Free(n) == n \notin {recovery.last, output.frames, watchdog.frames}
<1>1. frames' = CHOOSE n \in Counts : Free(n)
  BY DEF OutputMoves
<1>2. \E n \in Counts : Free(n)
  <2>1. 0 \in Counts /\ 1 \in Counts /\ 2 \in Counts /\ 3 \in Counts
    BY DEF Counts
  <2> QED
    BY <2>1
<1> HIDE DEF Free
<1>3. frames' \in Counts /\ Free(frames')
  BY <1>1, <1>2
<1> QED
  BY <1>3 DEF Free

LEMMA RecoveryStarts == RecoveryInit => RecoveryInv
<1> SUFFICES ASSUME RecoveryInit PROVE RecoveryInv
  OBVIOUS
<1>1. 0 \in Ticks /\ 0 \in Counts /\ 0 \in 0..StallTicks
  BY WordTimes DEF Ticks, Counts
<1>2. RecoveryTypeOK
  BY <1>1 DEF RecoveryInit, RecoveryTypeOK, Looks
<1> QED
  BY <1>2 DEF RecoveryInit, RecoveryInv, Watched

LEMMA LooksAre ==
  ASSUME RecoveryTypeOK
  PROVE  /\ now \in Ticks /\ frames \in Counts /\ still \in 0..StallTicks /\ started \in BOOLEAN
         /\ recovery.progress \in Ticks /\ recovery.last \in Counts
         /\ recovery.tracking \in BOOLEAN /\ recovery.fired \in BOOLEAN
         /\ output.time \in Ticks /\ output.frames \in Counts
         /\ watchdog.time \in Ticks /\ watchdog.frames \in Counts
         /\ late \subseteq {"output", "watchdog"}
BY DEF RecoveryTypeOK, Looks

LEMMA PlaybackNotes == RecoveryInv /\ PlaybackSteps => RecoveryInv'
<1> SUFFICES ASSUME RecoveryInv, PlaybackSteps PROVE RecoveryInv'
  OBVIOUS
<1>0. RecoveryTypeOK /\ 0 \in Ticks /\ 0 \in Counts /\ 0 \in 0..StallTicks
  BY WordTimes DEF RecoveryInv, Ticks, Counts
<1>t. RecoveryTypeOK'
  <2> USE <1>0 DEF RecoveryTypeOK, Looks
  <2>1. CASE BeginSession
    BY <2>1 DEF BeginSession, NewSession
  <2>2. CASE WriteOutput
    BY <2>2 DEF WriteOutput
  <2>3. CASE NoteOutput
    BY <2>3 DEF NoteOutput
  <2>4. CASE StopOutput
    BY <2>4 DEF StopOutput
  <2>5. CASE StopRunning
    BY <2>5 DEF StopRunning
  <2>6. CASE FinishSession
    BY <2>6 DEF FinishSession
  <2> QED
    BY <2>1, <2>2, <2>3, <2>4, <2>5, <2>6 DEF PlaybackSteps
<1> USE LooksAre, WordTimes
<1>1. CASE BeginSession
  BY <1>0, <1>t, <1>1 DEF BeginSession, NewSession, RecoveryInv, Watched, Fresh, Age,
                         RecoveryTypeOK, Looks
<1>2. CASE WriteOutput
  BY <1>0, <1>t, <1>2 DEF WriteOutput, RecoveryInv, Watched, Fresh, Age
<1>3. CASE NoteOutput
  <2>1. Age(output.time) \in 0..1 /\ output'.at = "open" /\ started' = TRUE
    BY <1>0, <1>3 DEF NoteOutput, RecoveryInv, Fresh
  <2>2. UNCHANGED <<now, frames, still, watchdog>> /\ late' = late \ {"output"}
    BY <1>3 DEF NoteOutput
  <2>3. \/ recovery' = recovery
        \/ recovery'.tracking /\ recovery'.last = output.frames /\ recovery'.progress = output.time
    BY <1>0, <1>3 DEF NoteOutput, RecoveryTypeOK
  <2>4. Watched'
    BY <1>0, <2>1, <2>2, <2>3 DEF RecoveryInv, Watched, Age
  <2>5. watchdog'.at = "looked" => Fresh("watchdog", watchdog)'
    BY <2>2 DEF RecoveryInv, Fresh, Age
  <2> QED
    BY <1>t, <2>1, <2>2, <2>4, <2>5 DEF RecoveryInv
<1>4. CASE StopOutput
  BY <1>0, <1>t, <1>4 DEF StopOutput, RecoveryInv, Watched, Fresh, Age, RecoveryTypeOK, Looks
<1>5. CASE StopRunning
  BY <1>0, <1>t, <1>5 DEF StopRunning, RecoveryInv, Watched, Fresh, Age
<1>6. CASE FinishSession
  BY <1>0, <1>t, <1>6 DEF FinishSession, RecoveryInv, Watched, Fresh, Age, RecoveryTypeOK, Looks
<1> QED
  BY <1>1, <1>2, <1>3, <1>4, <1>5, <1>6 DEF PlaybackSteps

LEMMA WatchdogLooks == RecoveryInv /\ WatchdogTask => RecoveryInv'
<1> SUFFICES ASSUME RecoveryInv, WatchdogTask PROVE RecoveryInv'
  OBVIOUS
<1>0. RecoveryTypeOK /\ 0 \in Ticks /\ 0 \in Counts
  BY WordTimes DEF RecoveryInv, Ticks, Counts
<1> USE LooksAre, WordTimes
<1>1. CASE Look
  <2>1. RecoveryTypeOK'
    BY <1>0, <1>1 DEF Look, RecoveryTypeOK, Looks
  <2> QED
    BY <1>0, <2>1, <1>1 DEF Look, RecoveryInv, Watched, Fresh, Age, RecoveryTypeOK, Looks
<1>2. CASE Observe
  <2>1. /\ watchdog.at = "looked" /\ watchdog'.at # "looked"
        /\ UNCHANGED <<now, frames, running, output, late, started, still>>
        /\ watchdog' \in Looks
    BY <1>0, <1>2 DEF Observe, Looks
  <2>2. \/ recovery' = [recovery EXCEPT !.fired = TRUE]
        \/ recovery.tracking
           /\ recovery' = [recovery EXCEPT !.last = watchdog.frames, !.progress = watchdog.time]
        \/ recovery' = recovery
    BY <1>2 DEF Observe
  <2>3. RecoveryTypeOK'
    BY <1>0, <2>1, <2>2 DEF RecoveryTypeOK
  <2>4. \/ /\ recovery'.tracking = recovery.tracking /\ recovery'.last = recovery.last
           /\ recovery'.progress = recovery.progress
        \/ recovery.tracking /\ recovery'.progress = watchdog.time
    BY <1>0, <2>2 DEF RecoveryTypeOK
  <2>5. Age(watchdog.time) \in 0..1
    BY <1>0, <2>1 DEF RecoveryInv, Fresh
  <2>6. Watched'
    BY <1>0, <2>1, <2>4, <2>5 DEF RecoveryInv, Watched, Age
  <2> QED
    BY <2>1, <2>3, <2>6 DEF RecoveryInv, Fresh, Age
<1>3. CASE RaiseAbort
  <2>1. RecoveryTypeOK' /\ watchdog'.at = "wait"
    BY <1>0, <1>3 DEF RaiseAbort, RecoveryTypeOK, Looks
  <2> QED
    BY <2>1, <1>3 DEF RaiseAbort, RecoveryInv, Watched, Fresh, Age
<1> QED
  BY <1>1, <1>2, <1>3 DEF WatchdogTask

LEMMA TimeGoesOn == RecoveryInv /\ (OutputMoves \/ Tick) => RecoveryInv'
<1> SUFFICES ASSUME RecoveryInv, OutputMoves \/ Tick PROVE RecoveryInv'
  OBVIOUS
<1>0. RecoveryTypeOK
  BY DEF RecoveryInv
<1> USE LooksAre, WordTimes
<1>1. CASE OutputMoves
  <2>1. frames' \in Counts /\ frames' # recovery.last
    BY <1>1, MovesElsewhere
  <2> QED
    BY <1>0, <1>1, <2>1 DEF OutputMoves, RecoveryInv, RecoveryTypeOK, Watched, Fresh, Age
<1>2. CASE Tick
  <2>1. now' \in Ticks /\ now' = IF now = TickWord - 1 THEN 0 ELSE now + 1
    BY <1>0, <1>2, NextTick DEF Tick
  <2> DEFINE NextAge(t) == IF t <= now' THEN now' - t ELSE now' + TickWord - t
  <2>2. \A t \in Ticks : /\ Age(t) \in Nat /\ NextAge(t) \in Nat
                         /\ NextAge(t) <= Age(t) + 1 /\ (Age(t) = 0 => NextAge(t) = 1)
    <3>1. now \in 0..(TickWord - 1) /\ TickWord \in Nat /\ TickWord > 2
      BY <1>0
    <3>2. TAKE t \in Ticks
    <3>3. t \in 0..(TickWord - 1)
      BY DEF Ticks
    <3>4. CASE now = TickWord - 1
      BY <2>1, <3>1, <3>3, <3>4 DEF Age
    <3>5. CASE now # TickWord - 1
      BY <2>1, <3>1, <3>3, <3>5 DEF Age
    <3> QED
      BY <3>4, <3>5
  <2>3. /\ late = {} /\ UNCHANGED <<frames, recovery, running, output, watchdog, started>>
        /\ still' = IF started /\ still < StallTicks THEN still + 1 ELSE still
        /\ late' = (IF watchdog.at = "log" THEN {} ELSE {"watchdog"})
                   \cup (IF output.at = "note" THEN {"output"} ELSE {})
    BY <1>2 DEF Tick
  <2>4. RecoveryTypeOK'
    BY <1>0, <2>1, <2>3 DEF RecoveryTypeOK
  <2>5. Watched'
    <3>1. Age(recovery.progress)' = NextAge(recovery.progress)
      BY <2>3 DEF Age
    <3> HIDE DEF NextAge
    <3> QED
      BY <1>0, <2>2, <2>3, <3>1 DEF RecoveryInv, Watched
  <2>6. /\ output'.at = "note" => Fresh("output", output)'
        /\ watchdog'.at = "looked" => Fresh("watchdog", watchdog)'
    <3>1. /\ Age(output.time)' = NextAge(output.time)
          /\ Age(watchdog.time)' = NextAge(watchdog.time)
      BY <2>3 DEF Age
    <3> HIDE DEF NextAge
    <3> QED
      BY <1>0, <2>2, <2>3, <3>1 DEF RecoveryInv, Fresh
  <2> QED
    BY <2>3, <2>4, <2>5, <2>6 DEF RecoveryInv
<1> QED
  BY <1>1, <1>2

LEMMA RecoveryInvariant == RecoverySpec => []RecoveryInv
<1>1. RecoveryInv /\ [RecoveryNext]_watching => RecoveryInv'
  <2>1. ASSUME RecoveryInv, UNCHANGED watching PROVE RecoveryInv'
    BY <2>1 DEF watching, RecoveryInv, RecoveryTypeOK, Watched, Fresh, Age
  <2> QED
    BY <2>1, PlaybackNotes, WatchdogLooks, TimeGoesOn DEF RecoveryNext
<1> QED
  BY <1>1, RecoveryStarts, PTL DEF RecoverySpec

(* The watchdog and what is noted for it keep their types.                 *)
THEOREM RecoveryTypeCorrect == RecoverySpec => []RecoveryTypeOK
<1>1. RecoveryInv => RecoveryTypeOK
  BY DEF RecoveryInv
<1> QED
  BY <1>1, RecoveryInvariant, PTL

(* tater_playback_recovery_observe_output, for every word of milliseconds  *)
(* and every limit: of an output that has not been still for so long only  *)
(* a note that was entered after the look, with a later time, makes a      *)
(* stalled one.                                                            *)
THEOREM OnlyOvertakenAlarms == RecoverySpec => OnlyNotesMislead
<1>1. ASSUME RecoveryInv, [RecoveryNext]_watching, Raised, frames = watchdog.frames, ~NotedLater
      PROVE  still + 1 >= StallTicks
  <2> USE LooksAre, WordTimes
  <2>0. RecoveryTypeOK
    BY <1>1 DEF RecoveryInv
  <2>1. Observe
    <3>1. UNCHANGED watchdog \/ Observe \/ watchdog'.at = "wait" \/ watchdog.at = "wait"
      BY <1>1, <2>0 DEF RecoveryNext, PlaybackSteps, BeginSession, WriteOutput, NoteOutput,
           StopOutput, StopRunning, FinishSession, WatchdogTask, Look, RaiseAbort, OutputMoves,
           Tick, watching, RecoveryTypeOK, Looks
    <3> QED
      BY <1>1, <3>1 DEF Raised
  <2>2. /\ recovery.tracking /\ watchdog.frames = recovery.last
        /\ (watchdog.time + TickWord - recovery.progress) % TickWord >= StallTicks
    BY <1>1, <2>1 DEF Observe, Raised
  <2>3. still = StallTicks \/ Age(recovery.progress) <= still + 1
    BY <1>1, <2>2 DEF RecoveryInv, Watched
  <2>4. Age(watchdog.time) \in 0..1
    BY <1>1 DEF RecoveryInv, Fresh, Raised
  <2>5. (IF recovery.progress <= watchdog.time THEN watchdog.time - recovery.progress
         ELSE watchdog.time + TickWord - recovery.progress) >= StallTicks
    BY <2>0, <2>2, Elapsed
  <2>6. recovery.progress # (IF watchdog.time = TickWord - 1 THEN 0 ELSE watchdog.time + 1)
    BY <1>1, <2>0, NextTick DEF NotedLater
  <2> QED
    BY <2>0, <2>3, <2>4, <2>5, <2>6 DEF Age
<1>2. RecoveryInv /\ [RecoveryNext]_watching =>
        (Raised /\ frames = watchdog.frames => still + 1 >= StallTicks \/ NotedLater)
  BY <1>1
<1> QED
  BY <1>2, RecoveryInvariant, PTL DEF RecoverySpec, OnlyNotesMislead

=============================================================================
