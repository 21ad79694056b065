----------------------------- MODULE OtaFamily -----------------------------
(***************************************************************************)
(* The scanner that looks for this board's family marker in an update      *)
(* while it streams by (main/ota_family.c).  It keeps how much of the      *)
(* marker the bytes so far end with; when the next byte does not continue  *)
(* it, it falls back to shorter and shorter prefixes.                      *)
(*                                                                         *)
(* One pass of the while loop is one step.  The state outlives the chunks  *)
(* the image arrives in, so the scanner sees one stream of bytes.          *)
(***************************************************************************)
EXTENDS Naturals, Sequences

CONSTANTS
  Bytes,
  Marker,     \* s_ota_family_marker
  NoByte

ASSUME FamilyAssumption ==
  /\ Marker \in Seq(Bytes) /\ Len(Marker) > 0
  /\ NoByte \notin Bytes

VARIABLES
  matched, found,   \* tater_ota_family_scan_t
  byte,             \* the byte at hand, NoByte between two
  image             \* the bytes so far, without the one at hand

family == <<matched, found, byte, image>>

FamilyTypeOK ==
  /\ matched \in 0..Len(Marker) /\ found \in BOOLEAN
  /\ byte \in Bytes \cup {NoByte}
  /\ image \in Seq(Bytes)

(* tater_ota_family_scan_init *)
ScanInit == matched = 0 /\ found = FALSE /\ byte = NoByte /\ image = <<>>
ScanAgain == matched' = 0 /\ found' = FALSE /\ byte' = NoByte /\ image' = <<>>

Feed(b) ==
  /\ byte = NoByte /\ ~found
  /\ byte' = b
  /\ UNCHANGED <<matched, found, image>>

(* After a find the rest of the image is not looked at. *)
Skip(b) ==
  /\ byte = NoByte /\ found
  /\ image' = Append(image, b)
  /\ UNCHANGED <<matched, found, byte>>

(* The first k bytes of the marker end with its first j bytes. *)
Border(j, k) == \A i \in 1..j : Marker[i] = Marker[k - j + i]

(* Faulty form of FallBack: the scan starts again. *)
FallBackToNothing ==
  /\ byte # NoByte /\ matched > 0 /\ byte # Marker[matched + 1]
  /\ matched' = 0
  /\ UNCHANGED <<found, byte, image>>

(* marker_fallback: the longest shorter prefix that still fits. *)
FallBack ==
  /\ byte # NoByte /\ matched > 0 /\ byte # Marker[matched + 1]
  /\ \E j \in 0..(matched - 1) :
       /\ Border(j, matched) /\ \A k \in (j + 1)..(matched - 1) : ~Border(k, matched)
       /\ matched' = j
  /\ UNCHANGED <<found, byte, image>>

Done == byte' = NoByte /\ image' = Append(image, byte)

Match ==
  /\ byte # NoByte /\ byte = Marker[matched + 1]
  /\ matched' = matched + 1
  /\ found' = (matched + 1 = Len(Marker))
  /\ Done

Mismatch ==
  /\ byte # NoByte /\ matched = 0 /\ byte # Marker[1]
  /\ UNCHANGED <<matched, found>>
  /\ Done

Scan == FallBack \/ Match \/ Mismatch

FamilyNext == Scan \/ \E b \in Bytes : Feed(b) \/ Skip(b)

FamilySpec == ScanInit /\ [][FamilyNext]_family

-----------------------------------------------------------------------------

Contains(bytes) ==
  \E i \in 0..Len(bytes) :
    /\ i + Len(Marker) <= Len(bytes)
    /\ \A k \in 1..Len(Marker) : bytes[i + k] = Marker[k]

(* Whatever the marker and the image, and wherever a false start of the    *)
(* marker runs into the true one, the scanner has found the marker if and  *)
(* only if it is in the bytes that were scanned.                           *)
ScanExact == found <=> Contains(image)

=============================================================================
