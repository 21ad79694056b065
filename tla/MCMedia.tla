------------------------------ MODULE MCMedia ------------------------------
(***************************************************************************)
(* Small instances of parts that carry audio side by side: the ownership   *)
(* of the speaker, the upload of a voice session, the playhead of Sendspin *)
(* and the overlay over its music.  A behaviour picks one of them and      *)
(* leaves the others where they start.  The playback tasks of the speaker  *)
(* are interchangeable.                                                    *)
(***************************************************************************)
EXTENDS SpeakerOwnership, VoiceSession, RenderFeedback, OverlayMix, TLC

VARIABLE part   \* the part this behaviour is about

Only(name) == part = name /\ UNCHANGED part

MediaInit ==
  /\ part \in {"speaker", "voice", "render", "overlay"}
  /\ Init /\ VoiceInit /\ RenderInit /\ OverlayInit

MediaNext ==
  \/ Only("speaker") /\ Next /\ UNCHANGED <<voicing, render, overlaying>>
  \/ Only("voice") /\ VoiceNext /\ UNCHANGED <<vars, render, overlaying>>
  \/ Only("render") /\ RenderNext /\ UNCHANGED <<vars, voicing, overlaying>>
  \/ Only("overlay") /\ OverlayNext /\ UNCHANGED <<vars, voicing, render>>

MediaSpec == MediaInit /\ [][MediaNext]_<<part, vars, voicing, render, overlaying>>

Symmetry == Permutations(Players)

=============================================================================
