---------------------------- MODULE SpeakerTurns ----------------------------
(***************************************************************************)
(* What the playback lifecycle and the claims promise of the speaker: one  *)
(* playback has its turn at a time, the next one after it is through in    *)
(* every respect; one task sounds at a time, a playback only in its turn   *)
(* or Sendspin; it falls silent before another one sounds, and a playback  *)
(* before its turn is over.  SpeakerOwnership implements it, for as long   *)
(* as nothing that it records as out of step has happened.                 *)
(***************************************************************************)
CONSTANTS Players, Sendspin

VARIABLES
  turn,      \* the playback that has been started and is not through yet
  sounding,  \* the task that has the speaker for itself
  inStep     \* nothing that breaks the promise has happened

turns == <<turn, sounding, inStep>>

TurnsInit == turn = {} /\ sounding = {} /\ inStep = TRUE

Begin ==
  /\ turn = {} /\ \E p \in Players : turn' = {p}
  /\ UNCHANGED <<sounding, inStep>>

Take ==
  /\ sounding = {} /\ \E t \in turn \cup {Sendspin} : sounding' = {t}
  /\ UNCHANGED <<turn, inStep>>

Release ==
  /\ sounding # {} /\ sounding' = {}
  /\ UNCHANGED <<turn, inStep>>

Finish ==
  /\ turn # {} /\ turn' = {} /\ turn \cap sounding = {}
  /\ UNCHANGED <<sounding, inStep>>

(* From here on anything may happen. *)
FallOut ==
  /\ inStep' = FALSE
  /\ turn' \subseteq Players /\ sounding' \subseteq Players \cup {Sendspin}

TurnsNext == Begin \/ Take \/ Release \/ Finish \/ FallOut

TurnsSpec == TurnsInit /\ [][TurnsNext]_turns

=============================================================================
