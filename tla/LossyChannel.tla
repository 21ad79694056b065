---------------------------- MODULE LossyChannel ----------------------------
(***************************************************************************)
(* What the upload of a voice session promises to the server: a channel    *)
(* that may lose any unit at any moment, on account of its bounds, of a    *)
(* stop or of the link, and never delays one behind a later one, repeats   *)
(* one or brings back what it has lost.  VoiceSession implements it.       *)
(***************************************************************************)
EXTENDS Naturals

VARIABLES
  way,     \* the units on their way
  given,   \* the last unit that the microphone gave
  heard    \* the last unit that the server heard

lossy == <<way, given, heard>>

LossyInit == way = {} /\ given = 0 /\ heard = 0

Give ==
  /\ given' = given + 1
  /\ way' = way \cup {given'}
  /\ UNCHANGED heard

Lose ==
  /\ way' \subseteq way
  /\ UNCHANGED <<given, heard>>

(* The oldest unit arrives; of those behind it some may be lost with it.   *)
Deliver(unit) ==
  /\ unit \in way /\ \A other \in way : unit <= other
  /\ heard' = unit
  /\ way' \subseteq way \ {unit}
  /\ UNCHANGED given

LossyNext == Give \/ Lose \/ \E unit \in way : Deliver(unit)

LossySpec == LossyInit /\ [][LossyNext]_lossy

=============================================================================
