-------------------------- MODULE OtaUpdateProofs --------------------------
(***************************************************************************)
(* What OtaFamily and OtaUpdate guarantee for every marker, image, chunk   *)
(* size and number of updates.  The scanner: what it has matched is the    *)
(* longest prefix of the marker that the image ends with, or, while a byte *)
(* is at hand, no longer one goes on with that byte.                       *)
(***************************************************************************)
EXTENDS OtaUpdate, TLAPS

(* The bytes end with the first k of the marker. *)
Ends(bytes, k) ==
  k <= Len(bytes) /\ \A i \in 1..k : bytes[Len(bytes) - k + i] = Marker[i]

FamilyInv ==
  /\ found => byte = NoByte /\ Contains(image)
  /\ ~found => matched < Len(Marker) /\ ~Contains(image) /\ Ends(image, matched)
  /\ ~found /\ byte = NoByte =>
       \A k \in 0..(Len(Marker) - 1) : Ends(image, k) => k <= matched
  /\ byte # NoByte =>
       \A k \in 0..(Len(Marker) - 1) : Ends(image, k) /\ Marker[k + 1] = byte => k <= matched

-----------------------------------------------------------------------------
(* One more byte.                                                          *)

LEMMA EndsAppend ==
  ASSUME NEW s \in Seq(Bytes), NEW b \in Bytes, NEW k \in 0..(Len(Marker) - 1)
  PROVE  Ends(Append(s, b), k + 1) <=> Ends(s, k) /\ b = Marker[k + 1]
<1> DEFINE t == Append(s, b)
<1>0. Len(Marker) \in Nat /\ Len(s) \in Nat /\ Len(t) = Len(s) + 1
  BY FamilyAssumption
<1>1. \A i \in 1..Len(s) : t[i] = s[i]
  OBVIOUS
<1>2. t[Len(s) + 1] = b
  OBVIOUS
<1> HIDE DEF t
<1>3. ASSUME Ends(t, k + 1) PROVE Ends(s, k) /\ b = Marker[k + 1]
  <2>1. k <= Len(s) /\ \A i \in 1..(k + 1) : t[Len(t) - (k + 1) + i] = Marker[i]
    BY <1>0, <1>3 DEF Ends
  <2>2. t[Len(t) - (k + 1) + (k + 1)] = Marker[k + 1]
    <3>1. k + 1 \in 1..(k + 1)
      OBVIOUS
    <3> QED BY <2>1, <3>1
  <2>3. b = Marker[k + 1]
    <3>1. Len(t) - (k + 1) + (k + 1) = Len(s) + 1
      BY <1>0
    <3> QED BY <1>2, <2>2, <3>1
  <2>4. ASSUME NEW i \in 1..k PROVE s[Len(s) - k + i] = Marker[i]
    <3>1. t[Len(t) - (k + 1) + i] = Marker[i]
      BY <2>1
    <3>2. Len(t) - (k + 1) + i = Len(s) - k + i /\ Len(s) - k + i \in 1..Len(s)
      BY <1>0, <2>1
    <3> QED BY <1>1, <3>1, <3>2
  <2> QED BY <2>1, <2>3, <2>4 DEF Ends
<1>4. ASSUME Ends(s, k), b = Marker[k + 1] PROVE Ends(t, k + 1)
  <2>1. k <= Len(s) /\ \A i \in 1..k : s[Len(s) - k + i] = Marker[i]
    BY <1>4 DEF Ends
  <2>2. ASSUME NEW i \in 1..(k + 1) PROVE t[Len(t) - (k + 1) + i] = Marker[i]
    <3>1. CASE i = k + 1
      <4>1. Len(t) - (k + 1) + i = Len(s) + 1
        BY <1>0, <3>1
      <4> QED BY <1>2, <1>4, <3>1, <4>1
    <3>2. CASE i \in 1..k
      <4>1. Len(t) - (k + 1) + i = Len(s) - k + i /\ Len(s) - k + i \in 1..Len(s)
        BY <1>0, <2>1, <3>2
      <4> QED BY <1>1, <2>1, <3>2, <4>1
    <3>3. i = k + 1 \/ i \in 1..k
      OBVIOUS
    <3> QED BY <3>1, <3>2, <3>3
  <2>3. k + 1 <= Len(t)
    BY <1>0, <2>1
  <2> QED BY <2>2, <2>3 DEF Ends
<1> QED BY <1>3, <1>4 DEF t

LEMMA ContainsAppend ==
  ASSUME NEW s \in Seq(Bytes), NEW b \in Bytes
  PROVE  Contains(Append(s, b)) <=> Contains(s) \/ Ends(Append(s, b), Len(Marker))
<1> DEFINE t == Append(s, b)
           L == Len(Marker)
           Fits(u, i) == i + L <= Len(u) /\ \A k \in 1..L : u[i + k] = Marker[k]
<1>0. L \in Nat \ {0} /\ Len(s) \in Nat /\ Len(t) = Len(s) + 1
  BY FamilyAssumption
<1>1. \A i \in 1..Len(s) : t[i] = s[i]
  OBVIOUS
<1> HIDE DEF t
<1>2. ASSUME NEW i \in 0..Len(s), i + L <= Len(s) PROVE Fits(s, i) <=> Fits(t, i)
  <2>1. \A k \in 1..L : i + k \in 1..Len(s)
    BY <1>0, <1>2
  <2> QED BY <1>0, <1>1, <1>2, <2>1
<1>3. ASSUME NEW i \in 0..Len(t), i + L = Len(t) PROVE Fits(t, i) <=> Ends(t, L)
  <2>1. \A k \in 1..L : Len(t) - L + k = i + k
    BY <1>0, <1>3
  <2>2. L <= Len(t) /\ i + L <= Len(t)
    BY <1>0, <1>3
  <2>3. \A k \in 1..L : t[Len(t) - L + k] = t[i + k]
    BY <2>1
  <2>4. Fits(t, i) <=> \A k \in 1..L : t[i + k] = Marker[k]
    BY <2>2
  <2>5. Ends(t, L) <=> \A k \in 1..L : t[Len(t) - L + k] = Marker[k]
    BY <2>2 DEF Ends
  <2> HIDE DEF Fits
  <2> QED BY <2>3, <2>4, <2>5
<1>4. Contains(s) <=> \E i \in 0..Len(s) : Fits(s, i)
  BY DEF Contains
<1>5. Contains(t) <=> \E i \in 0..Len(t) : Fits(t, i)
  BY DEF Contains
<1>6. ASSUME NEW i \in 0..Len(t), Fits(t, i) PROVE Contains(s) \/ Ends(t, L)
  <2>1. CASE i + L = Len(t)
    BY <1>3, <1>6, <2>1
  <2>2. CASE i + L <= Len(s)
    <3>1. i \in 0..Len(s)
      BY <1>0, <2>2
    <3> HIDE DEF Fits
    <3> QED BY <1>2, <1>4, <1>6, <2>2, <3>1
  <2> QED BY <1>0, <1>6, <2>1, <2>2
<1>7. ASSUME NEW i \in 0..Len(s), Fits(s, i) PROVE Contains(t)
  <2>1. i + L <= Len(s) /\ i \in 0..Len(t)
    BY <1>0, <1>7
  <2> HIDE DEF Fits
  <2> QED BY <1>2, <1>5, <1>7, <2>1
<1>8. ASSUME Ends(t, L) PROVE Contains(t)
  <2>1. L <= Len(t)
    BY <1>8 DEF Ends
  <2>2. Len(t) - L \in 0..Len(t) /\ (Len(t) - L) + L = Len(t)
    BY <1>0, <2>1
  <2> HIDE DEF Fits
  <2> QED BY <1>3, <1>5, <1>8, <2>2
<1> HIDE DEF Fits
<1> QED BY <1>4, <1>5, <1>6, <1>7, <1>8 DEF t

(* The shorter prefixes the bytes end with are the borders of a longer one. *)
LEMMA BorderEnds ==
  ASSUME NEW s \in Seq(Bytes), NEW m \in 0..Len(Marker), NEW j \in 0..m, Ends(s, m)
  PROVE  Ends(s, j) <=> Border(j, m)
<1>0. Len(s) \in Nat /\ Len(Marker) \in Nat
  BY FamilyAssumption
<1>1. m <= Len(s) /\ \A i \in 1..m : s[Len(s) - m + i] = Marker[i]
  BY DEF Ends
<1>2. ASSUME NEW i \in 1..j PROVE s[Len(s) - j + i] = Marker[m - j + i]
  <2>1. m - j + i \in 1..m /\ Len(s) - m + (m - j + i) = Len(s) - j + i
    BY <1>0
  <2> QED BY <1>1, <2>1
<1>3. j <= Len(s)
  BY <1>0, <1>1
<1> QED BY <1>2, <1>3 DEF Ends, Border

LEMMA EmptyImage == ~Contains(<<>>) /\ \A k \in Nat : Ends(<<>>, k) => k <= 0
BY FamilyAssumption DEF Contains, Ends

-----------------------------------------------------------------------------
(* The scanner.                                                            *)

LEMMA FamilyStarts == ScanInit => FamilyTypeOK /\ FamilyInv
<1> SUFFICES ASSUME ScanInit PROVE FamilyTypeOK /\ FamilyInv
  OBVIOUS
<1>1. matched = 0 /\ found = FALSE /\ byte = NoByte /\ image = <<>>
  BY DEF ScanInit
<1>2. ~Contains(image) /\ \A k \in Nat : Ends(image, k) => k <= 0
  BY <1>1, EmptyImage
<1>3. Len(Marker) \in Nat \ {0} /\ Ends(image, 0)
  BY <1>1, FamilyAssumption DEF Ends
<1>4. FamilyTypeOK
  <2>1. image \in Seq(Bytes)
    BY <1>1
  <2>2. 0 \in 0..Len(Marker)
    BY <1>3
  <2> QED BY <1>1, <2>1, <2>2 DEF FamilyTypeOK
<1> QED BY <1>1, <1>2, <1>3, <1>4 DEF FamilyInv

LEMMA FamilyStep ==
  ASSUME FamilyTypeOK, FamilyInv, FamilyNext \/ ScanAgain \/ UNCHANGED family
  PROVE  FamilyTypeOK' /\ FamilyInv'
<1> DEFINE L == Len(Marker)
<1> USE FamilyAssumption
<1>0. L \in Nat \ {0} /\ matched \in 0..L /\ image \in Seq(Bytes)
  BY DEF FamilyTypeOK
<1>1. ASSUME NEW b \in Bytes, Feed(b) PROVE FamilyTypeOK' /\ FamilyInv'
  BY <1>1 DEF Feed, FamilyTypeOK, FamilyInv, Ends, Contains
<1>2. ASSUME NEW b \in Bytes, Skip(b) PROVE FamilyTypeOK' /\ FamilyInv'
  <2>1. Contains(image')
    BY <1>0, <1>2, ContainsAppend DEF Skip, FamilyInv
  <2>2. image' \in Seq(Bytes)
    BY <1>0, <1>2 DEF Skip
  <2>3. FamilyTypeOK'
    BY <1>2, <2>2 DEF Skip, FamilyTypeOK
  <2>4. found' /\ byte' = NoByte
    BY <1>2 DEF Skip
  <2>5. Contains(image)'
    BY <2>1 DEF Contains
  <2> QED BY <2>3, <2>4, <2>5 DEF FamilyInv
<1>3. ASSUME FallBack PROVE FamilyTypeOK' /\ FamilyInv'
  <2>1. PICK j \in 0..(matched - 1) :
          /\ Border(j, matched) /\ \A k \in (j + 1)..(matched - 1) : ~Border(k, matched)
          /\ matched' = j
    BY <1>3 DEF FallBack
  <2>2. /\ byte # NoByte /\ byte # Marker[matched + 1] /\ UNCHANGED <<found, byte, image>>
        /\ ~found /\ matched < L /\ ~Contains(image) /\ Ends(image, matched)
    BY <1>3 DEF FallBack, FamilyInv
  <2>3. j \in 0..matched /\ j < L
    BY <1>0, <2>1, <2>2
  <2>4. Ends(image, j)
    BY <1>0, <2>1, <2>2, <2>3, BorderEnds
  <2>5. ASSUME NEW k \in 0..(L - 1), Ends(image, k), Marker[k + 1] = byte PROVE k <= j
    <3>1. k <= matched
      BY <2>2, <2>5 DEF FamilyInv
    <3>2. k # matched
      BY <2>2, <2>5
    <3>3. Border(k, matched)
      BY <1>0, <2>2, <2>5, <3>1, BorderEnds
    <3> QED BY <1>0, <2>1, <3>1, <3>2, <3>3
  <2>6. FamilyTypeOK'
    BY <2>1, <2>2, <2>3, <1>0 DEF FamilyTypeOK
  <2> QED BY <2>1, <2>2, <2>3, <2>4, <2>5, <2>6 DEF FamilyInv, Ends, Contains
<1>4. ASSUME Match PROVE FamilyTypeOK' /\ FamilyInv'
  <2>1. /\ byte \in Bytes /\ byte # NoByte /\ byte = Marker[matched + 1]
        /\ matched' = matched + 1 /\ found' = (matched + 1 = L)
        /\ byte' = NoByte /\ image' = Append(image, byte)
    BY <1>4 DEF Match, Done, FamilyTypeOK
  <2>2. ~found /\ matched < L /\ ~Contains(image) /\ Ends(image, matched)
    BY <2>1 DEF FamilyInv
  <2>3. image' \in Seq(Bytes) /\ matched + 1 \in 0..L /\ matched \in 0..(L - 1)
    BY <1>0, <2>1, <2>2
  <2>4. FamilyTypeOK'
    BY <2>1, <2>3 DEF FamilyTypeOK
  <2>5. Ends(image', matched + 1)
    BY <1>0, <2>1, <2>2, <2>3, EndsAppend
  <2>6. ASSUME NEW k \in 1..L, Ends(image', k) PROVE k <= matched + 1
    <3> DEFINE j == k - 1
    <3>1. j \in 0..(Len(Marker) - 1) /\ j + 1 = k
      BY <1>0
    <3> HIDE DEF j
    <3>2. Ends(Append(image, byte), j + 1) <=> Ends(image, j) /\ byte = Marker[j + 1]
      <4>1. byte \in Bytes /\ image \in Seq(Bytes)
        BY <1>0, <2>1
      <4> QED BY <3>1, <4>1, EndsAppend
    <3>3. Ends(image, j) /\ Marker[j + 1] = byte
      BY <2>1, <2>6, <3>1, <3>2
    <3>4. j <= matched
      BY <2>1, <3>1, <3>3 DEF FamilyInv
    <3> QED BY <1>0, <3>1, <3>4
  <2>7. CASE matched + 1 = L
    <3>1. Contains(image')
      BY <1>0, <2>1, <2>5, <2>7, ContainsAppend
    <3> QED BY <2>1, <2>4, <2>7, <3>1 DEF FamilyInv, Contains
  <2>8. CASE matched + 1 # L
    <3>1. ~Ends(image', L)
      BY <1>0, <2>2, <2>3, <2>6, <2>8
    <3>2. ~Contains(image')
      BY <1>0, <2>1, <2>2, <3>1, ContainsAppend
    <3>3. \A k \in 0..(L - 1) : Ends(image', k) => k <= matched'
      BY <1>0, <2>1, <2>3, <2>6
    <3>4. matched' < L /\ Ends(image', matched')
      BY <1>0, <2>1, <2>2, <2>5, <2>8
    <3>5. ~found' /\ byte' = NoByte
      BY <2>1, <2>8
    <3> HIDE DEF L
    <3> QED BY <2>4, <3>2, <3>3, <3>4, <3>5 DEF FamilyInv, Ends, Contains, L
  <2> QED BY <2>7, <2>8
<1>5. ASSUME Mismatch PROVE FamilyTypeOK' /\ FamilyInv'
  <2>1. /\ byte \in Bytes /\ byte # NoByte /\ byte # Marker[1] /\ matched = 0
        /\ matched' = matched /\ found' = found /\ byte' = NoByte /\ image' = Append(image, byte)
    BY <1>5 DEF Mismatch, Done, FamilyTypeOK
  <2>2. ~found /\ ~Contains(image)
    BY <2>1 DEF FamilyInv
  <2>3. image' \in Seq(Bytes)
    BY <1>0, <2>1
  <2>4. FamilyTypeOK'
    BY <1>0, <2>1, <2>3 DEF FamilyTypeOK
  <2>5. ASSUME NEW k \in 1..L PROVE ~Ends(image', k)
    <3>1. k - 1 \in 0..(L - 1) /\ (k - 1) + 1 = k
      BY <1>0
    <3>2. SUFFICES ASSUME Ends(image', k) PROVE FALSE
      OBVIOUS
    <3>3. Ends(image, k - 1) /\ byte = Marker[k]
      BY <1>0, <2>1, <3>1, <3>2, EndsAppend
    <3>4. k - 1 <= 0
      BY <1>0, <2>1, <3>1, <3>3 DEF FamilyInv
    <3> QED BY <2>1, <3>3, <3>4
  <2>6. ~Contains(image')
    BY <1>0, <2>1, <2>2, <2>5, ContainsAppend
  <2>7. Ends(image', 0)
    BY <2>3 DEF Ends
  <2>8. \A k \in 0..(L - 1) : Ends(image', k) => k <= matched'
    BY <1>0, <2>1, <2>5
  <2> QED BY <1>0, <2>1, <2>2, <2>4, <2>6, <2>7, <2>8 DEF FamilyInv, Ends, Contains
<1>6. ASSUME ScanAgain PROVE FamilyTypeOK' /\ FamilyInv'
  <2>1. ~Contains(image') /\ \A k \in Nat : Ends(image', k) => k <= 0
    BY <1>6, EmptyImage DEF ScanAgain
  <2>2. Ends(image', 0)
    BY <1>6 DEF ScanAgain, Ends
  <2>3. FamilyTypeOK'
    <3>1. image' = <<>> /\ <<>> \in Seq(Bytes)
      BY <1>6 DEF ScanAgain
    <3>2. matched' \in 0..L /\ found' \in BOOLEAN /\ byte' = NoByte
      <4>1. matched' = 0 /\ ~found' /\ found' = FALSE /\ byte' = NoByte
        BY <1>6 DEF ScanAgain
      <4>2. 0 \in 0..L
        BY <1>0
      <4> QED BY <4>1, <4>2
    <3> QED BY <3>1, <3>2 DEF FamilyTypeOK
  <2> QED BY <1>0, <1>6, <2>1, <2>2, <2>3 DEF ScanAgain, FamilyInv, Ends, Contains
<1>7. ASSUME UNCHANGED family PROVE FamilyTypeOK' /\ FamilyInv'
  BY <1>7 DEF family, FamilyTypeOK, FamilyInv, Ends, Contains
<1> QED BY <1>1, <1>2, <1>3, <1>4, <1>5, <1>6, <1>7 DEF FamilyNext, Scan

-----------------------------------------------------------------------------
(* The update.  Busy says that the task has a request in hand, Streaming   *)
(* that it holds a handle.                                                 *)

Busy == updater \notin {"wait", "clear", "report"}

Streaming == updater \in {"read", "scan", "verify", "end"}

(* What is known of the image that is about to boot. *)
ImageInv ==
  /\ updater \in {"end", "boot", "restart", "gone"} => found
  /\ updater \in {"boot", "restart", "gone"} => whole
  /\ boot = "new" => updater \in {"restart", "gone"}

(* Who owns the handle, the client and the context. *)
HandleInv ==
  /\ slot # "twice"
  /\ Streaming => ota
  /\ Busy => (ota <=> slot = "open")
  /\ ~Busy => slot # "open"
  /\ updater \in {"wait", "open", "clear", "report"} => ~http

ContextInv ==
  /\ context <=> asker \in {"create", "notify"} \/ handed
  /\ contexts = (IF context THEN 1 ELSE 0) + (IF Busy THEN 1 ELSE 0)

(* One request at a time, and each counted once. *)
RequestInv ==
  /\ handed => asker = "idle"
  /\ handed \/ asker = "notify" => created
  /\ updating <=> asker # "idle" \/ handed \/ updater \notin {"wait", "report"}
  /\ updater \notin {"wait", "report"} => asker = "idle" /\ ~handed
  /\ asker # "idle" => accepted < MaxUpdates
  /\ accepted = failed + (IF handed THEN 1 ELSE 0) + (IF updater = "wait" THEN 0 ELSE 1)

UpdateInv ==
  UpdateTypeOK /\ FamilyInv /\ ImageInv /\ HandleInv /\ ContextInv /\ RequestInv

LEMMA UpdateStarts == UpdateInit => UpdateInv
<1> SUFFICES ASSUME UpdateInit PROVE UpdateInv
  OBVIOUS
<1>1. FamilyTypeOK /\ FamilyInv
  BY FamilyStarts DEF UpdateInit
<1>2. UpdateTypeOK
  <2>1. /\ updating = FALSE /\ context = FALSE /\ handed = FALSE /\ created = FALSE
        /\ http = FALSE /\ ota = FALSE /\ whole = FALSE
    BY DEF UpdateInit
  <2>2. {updating, context, handed, created, http, ota, whole} \subseteq BOOLEAN
    BY <2>1
  <2>3. /\ contexts = 0 /\ asker = "idle" /\ updater = "wait" /\ slot = "none" /\ chunk = 0
        /\ boot = "old" /\ accepted = 0 /\ failed = 0
    BY DEF UpdateInit
  <2> QED BY <1>1, <2>2, <2>3, UpdateAssumption DEF UpdateTypeOK
<1> QED
  BY <1>1, <1>2 DEF UpdateInit, UpdateInv, ImageInv, HandleInv, ContextInv, RequestInv,
                    Busy, Streaming

(* Each step leaves the scanner alone, starts it again or is one of its own. *)
LEMMA UpdateScans ==
  ASSUME [UpdateNext]_update
  PROVE  FamilyNext \/ ScanAgain \/ UNCHANGED family
<1>1. CASE NextByte
  BY <1>1 DEF NextByte, FamilyNext
<1>2. CASE ScanByte
  BY <1>2 DEF ScanByte, FamilyNext
<1>3. CASE TakeUpdate
  BY <1>3 DEF TakeUpdate
<1>4. CASE UNCHANGED update
  BY <1>4 DEF update
<1>5. CASE Asker
  BY <1>5 DEF Asker, Ask, Allocate, AllocateFailed, CreateUpdater, CreateUpdaterFailed, Notify
<1>6. CASE OpenHttp \/ OpenHttpFailed \/ BeginImage \/ ReadChunk \/ ReadEnd \/ WriteChunk
           \/ StepFailed
  BY <1>6 DEF OpenHttp, OpenHttpFailed, BeginImage, ReadChunk, ReadEnd, WriteChunk, StepFailed
<1>7. CASE Verify \/ EndImage \/ SetBoot \/ Restart \/ Release \/ ClearRunning \/ Report
  BY <1>7 DEF Verify, EndImage, SetBoot, Restart, Release, ClearRunning, Report
<1> QED
  BY <1>1, <1>2, <1>3, <1>4, <1>5, <1>6, <1>7 DEF UpdateNext, Updater

LEMMA UpdateStep ==
  ASSUME UpdateInv, [UpdateNext]_update
  PROVE  UpdateInv'
<1>1. FamilyTypeOK' /\ FamilyInv'
  BY FamilyStep, UpdateScans DEF UpdateInv, UpdateTypeOK
<1> USE UpdateAssumption, <1>1
<1>2. CASE Ask
  BY <1>2 DEF Ask, family, local, Asks, UpdateInv, UpdateTypeOK, ImageInv, HandleInv,
     ContextInv, RequestInv, Busy, Streaming
<1>3. CASE Allocate
  BY <1>3 DEF Allocate, family, local, Asks, UpdateInv, UpdateTypeOK, ImageInv, HandleInv,
     ContextInv, RequestInv, Busy, Streaming
<1>4. CASE AllocateFailed
  BY <1>4 DEF AllocateFailed, family, local, Asks, UpdateInv, UpdateTypeOK, ImageInv,
     HandleInv, ContextInv, RequestInv, Busy, Streaming
<1>5. CASE CreateUpdater
  BY <1>5 DEF CreateUpdater, family, local, Asks, UpdateInv, UpdateTypeOK, ImageInv,
     HandleInv, ContextInv, RequestInv, Busy, Streaming
<1>6. CASE CreateUpdaterFailed
  <2>1. UpdateTypeOK'
    <3>1. context /\ ~Busy /\ contexts = 1
      BY <1>6 DEF CreateUpdaterFailed, Asks, UpdateInv, ContextInv, RequestInv, Busy
    <3>2. {updating, context, handed, created, http, ota, whole}' \subseteq BOOLEAN
      BY <1>6 DEF CreateUpdaterFailed, UpdateInv, UpdateTypeOK, local
    <3>3. contexts' \in 0..2
      BY <1>6, <3>1 DEF CreateUpdaterFailed
    <3> QED BY <1>6, <3>2, <3>3 DEF CreateUpdaterFailed, UpdateInv, UpdateTypeOK, local, Asks
  <2>2. ImageInv'
    BY <1>6 DEF CreateUpdaterFailed, family, local, Asks, UpdateInv, ImageInv
  <2>3. HandleInv'
    BY <1>6 DEF CreateUpdaterFailed, local, Asks, UpdateInv, HandleInv, Busy, Streaming
  <2>4. ContextInv'
    BY <1>6 DEF CreateUpdaterFailed, local, Asks, UpdateInv, ContextInv, RequestInv, Busy
  <2>5. RequestInv'
    BY <1>6 DEF CreateUpdaterFailed, local, Asks, UpdateInv, RequestInv
  <2> QED BY <2>1, <2>2, <2>3, <2>4, <2>5 DEF UpdateInv
<1>7. CASE Notify
  <2>1. UpdateTypeOK'
    BY <1>7 DEF Notify, local, Asks, UpdateInv, UpdateTypeOK, RequestInv
  <2>2. ImageInv'
    BY <1>7 DEF Notify, family, local, Asks, UpdateInv, ImageInv
  <2>3. HandleInv'
    BY <1>7 DEF Notify, local, Asks, UpdateInv, HandleInv, Busy, Streaming
  <2>4. ContextInv'
    BY <1>7 DEF Notify, local, Asks, UpdateInv, ContextInv, RequestInv, Busy
  <2>5. RequestInv'
    <3>1. ~handed /\ handed' /\ created'
      BY <1>7 DEF Notify, Asks, UpdateInv, RequestInv
    <3> QED BY <1>7, <3>1 DEF Notify, Asks, UpdateInv, UpdateTypeOK, RequestInv
  <2> QED BY <2>1, <2>2, <2>3, <2>4, <2>5 DEF UpdateInv
<1>8. CASE TakeUpdate
  <2>1. UpdateTypeOK'
    BY <1>8 DEF TakeUpdate, Updates, ScanAgain, UpdateInv, UpdateTypeOK
  <2>2. ImageInv'
    BY <1>8 DEF TakeUpdate, Updates, ScanAgain, UpdateInv, ImageInv
  <2>3. HandleInv'
    BY <1>8 DEF TakeUpdate, Updates, ScanAgain, UpdateInv, HandleInv, Busy, Streaming
  <2>4. ContextInv'
    BY <1>8 DEF TakeUpdate, Updates, ScanAgain, UpdateInv, ContextInv, RequestInv, Busy
  <2>5. RequestInv'
    <3>1. context /\ asker = "idle" /\ updater = "wait"
      BY <1>8 DEF TakeUpdate, Updates, UpdateInv, ContextInv, RequestInv
    <3>2. ~handed' /\ updater' = "open" /\ updating' /\ asker' = "idle"
      BY <1>8, <3>1 DEF TakeUpdate, Updates
    <3>3. handed /\ created /\ UNCHANGED <<created, accepted, failed>>
      BY <1>8 DEF TakeUpdate
    <3>4. accepted \in Nat /\ failed \in Nat /\ accepted = failed + 1 + 0
      BY <3>1, <3>3 DEF UpdateInv, UpdateTypeOK, RequestInv
    <3>5. accepted' = failed' + 0 + 1
      BY <3>3, <3>4
    <3>6. created'
      BY <3>3
    <3> QED BY <3>2, <3>5, <3>6 DEF RequestInv
  <2> QED BY <2>1, <2>2, <2>3, <2>4, <2>5 DEF UpdateInv
<1>9. CASE OpenHttp
  BY <1>9 DEF OpenHttp, family, Unshared, Updates, UpdateInv, UpdateTypeOK, ImageInv,
     HandleInv, ContextInv, RequestInv, Busy, Streaming
<1>10. CASE OpenHttpFailed
  BY <1>10 DEF OpenHttpFailed, family, Unshared, Updates, UpdateInv, UpdateTypeOK,
     ImageInv, HandleInv, ContextInv, RequestInv, Busy, Streaming
<1>11. CASE BeginImage
  BY <1>11 DEF BeginImage, family, Unshared, Updates, UpdateInv, UpdateTypeOK, ImageInv,
     HandleInv, ContextInv, RequestInv, Busy, Streaming
<1>12. CASE ReadChunk
  BY <1>12 DEF ReadChunk, family, Unshared, Updates, UpdateInv, UpdateTypeOK, ImageInv,
     HandleInv, ContextInv, RequestInv, Busy, Streaming
<1>13. CASE ReadEnd
  BY <1>13 DEF ReadEnd, family, Unshared, Updates, UpdateInv, UpdateTypeOK, ImageInv,
     HandleInv, ContextInv, RequestInv, Busy, Streaming
<1>14. CASE NextByte
  BY <1>14 DEF NextByte, Unshared, Updates, UpdateInv, UpdateTypeOK, ImageInv, HandleInv,
     ContextInv, RequestInv, Busy, Streaming
<1>15. CASE ScanByte
  BY <1>15 DEF ScanByte, local, Unshared, Updates, UpdateInv, UpdateTypeOK, ImageInv,
     HandleInv, ContextInv, RequestInv, Busy, Streaming
<1>16. CASE WriteChunk
  BY <1>16 DEF WriteChunk, family, local, Unshared, Updates, UpdateInv, UpdateTypeOK,
     ImageInv, HandleInv, ContextInv, RequestInv, Busy, Streaming
<1>17. CASE StepFailed
  BY <1>17 DEF StepFailed, family, local, Unshared, Updates, UpdateInv, UpdateTypeOK,
     ImageInv, HandleInv, ContextInv, RequestInv, Busy, Streaming
<1>18. CASE Verify
  BY <1>18 DEF Verify, family, local, Unshared, Updates, UpdateInv, UpdateTypeOK,
     ImageInv, HandleInv, ContextInv, RequestInv, Busy, Streaming
<1>19. CASE EndImage
  <2>1. UpdateTypeOK'
    BY <1>19 DEF EndImage, Unshared, Updates, Close, UpdateInv, UpdateTypeOK
  <2>2. ImageInv'
    BY <1>19 DEF EndImage, family, Unshared, Updates, Close, UpdateInv, ImageInv
  <2>3. HandleInv'
    BY <1>19 DEF EndImage, Unshared, Updates, Close, UpdateInv, HandleInv, Busy, Streaming
  <2>4. ContextInv'
    BY <1>19 DEF EndImage, Unshared, Updates, Close, UpdateInv, ContextInv, RequestInv,
       Busy
  <2>5. RequestInv'
    BY <1>19 DEF EndImage, Unshared, Updates, Close, UpdateInv, RequestInv
  <2> QED BY <2>1, <2>2, <2>3, <2>4, <2>5 DEF UpdateInv
<1>20. CASE SetBoot
  BY <1>20 DEF SetBoot, family, Unshared, Updates, UpdateInv, UpdateTypeOK, ImageInv,
     HandleInv, ContextInv, RequestInv, Busy, Streaming
<1>21. CASE Restart
  BY <1>21 DEF Restart, family, local, Unshared, Updates, UpdateInv, UpdateTypeOK,
     ImageInv, HandleInv, ContextInv, RequestInv, Busy, Streaming
<1>22. CASE Release
  <2>1. UpdateTypeOK'
    <3>1. ~context /\ Busy /\ contexts = 1
      BY <1>22 DEF Release, Updates, UpdateInv, ContextInv, RequestInv, Busy
    <3>2. {updating, context, handed, created, http, ota, whole}' \subseteq BOOLEAN
      BY <1>22 DEF Release, UpdateInv, UpdateTypeOK
    <3>3. contexts' \in 0..2
      BY <1>22, <3>1 DEF Release
    <3> QED BY <1>22, <3>2, <3>3 DEF Release, Close, UpdateInv, UpdateTypeOK, Updates
  <2>2. ImageInv'
    BY <1>22 DEF Release, family, Updates, Close, UpdateInv, ImageInv
  <2>3. HandleInv'
    BY <1>22 DEF Release, Updates, Close, UpdateInv, HandleInv, Busy, Streaming
  <2>4. ContextInv'
    BY <1>22 DEF Release, Updates, Close, UpdateInv, ContextInv, RequestInv, Busy
  <2>5. RequestInv'
    BY <1>22 DEF Release, Updates, Close, UpdateInv, RequestInv
  <2> QED BY <2>1, <2>2, <2>3, <2>4, <2>5 DEF UpdateInv
<1>23. CASE ClearRunning
  BY <1>23 DEF ClearRunning, family, local, Updates, UpdateInv, UpdateTypeOK, ImageInv,
     HandleInv, ContextInv, RequestInv, Busy, Streaming
<1>24. CASE Report
  BY <1>24 DEF Report, family, local, Updates, UpdateInv, UpdateTypeOK, ImageInv,
     HandleInv, ContextInv, RequestInv, Busy, Streaming
<1>25. CASE UNCHANGED update
  BY <1>25 DEF update, UpdateInv, UpdateTypeOK, ImageInv, HandleInv, ContextInv, RequestInv,
         Busy, Streaming, family, local, Unshared, Asks, Updates
<1> QED
  BY <1>2, <1>3, <1>4, <1>5, <1>6, <1>7, <1>8, <1>9, <1>10, <1>11, <1>12, <1>13,
     <1>14, <1>15, <1>16, <1>17, <1>18, <1>19, <1>20, <1>21, <1>22, <1>23, <1>24, <1>25
     DEF UpdateNext, Asker, Updater

LEMMA UpdateInvariant == UpdateSpec => []UpdateInv
BY UpdateStarts, UpdateStep, PTL DEF UpdateSpec

-----------------------------------------------------------------------------

(* The types of update and scanner, for every image and partition size.    *)
THEOREM UpdateTypeCorrect == UpdateSpec => []UpdateTypeOK
<1>1. UpdateInv => UpdateTypeOK
  BY DEF UpdateInv
<1> QED BY <1>1, UpdateInvariant, PTL

(* The scanner by itself and for every marker and image: it has found the  *)
(* marker exactly when the bytes it was given contain it, also where false *)
(* starts overlap the true one (tater_ota_family_scan_feed).               *)
THEOREM ScannerExact == FamilySpec => []ScanExact
<1>2. FamilyTypeOK /\ FamilyInv /\ [FamilyNext]_family => FamilyTypeOK' /\ FamilyInv'
  BY FamilyStep
<1>3. FamilyInv => ScanExact
  BY DEF FamilyInv, ScanExact
<1> QED BY FamilyStarts, <1>2, <1>3, PTL DEF FamilySpec

(* The same while updates follow one another, the stream being cut into    *)
(* chunks and the scanner being started again for each.                    *)
THEOREM UpdateScansExactly == UpdateSpec => []ScanExact
<1>1. UpdateInv => ScanExact
  BY DEF UpdateInv, FamilyInv, ScanExact
<1> QED BY <1>1, UpdateInvariant, PTL

(* A partition that will boot holds a whole image of this board's family   *)
(* (ota_run), for every marker, image and number of updates before.        *)
THEOREM OnlyOwnFamilyBoots == UpdateSpec => []BootsOwnFamily
<1>1. UpdateInv => BootsOwnFamily
  BY DEF UpdateInv, FamilyInv, ImageInv, BootsOwnFamily
<1> QED BY <1>1, UpdateInvariant, PTL

(* Whatever step of an update fails, and in whichever update: the handle,  *)
(* the client and the context are given back, the handle not twice.        *)
THEOREM HandlesGivenBack == UpdateSpec => []GivesBack
<1>1. UpdateInv => GivesBack
  <2> SUFFICES ASSUME UpdateInv PROVE GivesBack
    OBVIOUS
  <2>1. slot # "twice" /\ (updater = "wait" => slot # "open" /\ ~http)
    BY DEF UpdateInv, HandleInv, Busy
  <2>2. updater = "wait" => contexts = IF context THEN 1 ELSE 0
    BY DEF UpdateInv, ContextInv, Busy
  <2> QED BY <2>1, <2>2 DEF GivesBack
<1> QED BY <1>1, UpdateInvariant, PTL

=============================================================================
