----------------------------- MODULE MCPlayback -----------------------------
(***************************************************************************)
(* Small instances, side by side, of what plays: the ownership of the      *)
(* speaker, a download, a scene, and the watchdog over a playback.  A      *)
(* behaviour picks one of them and leaves the others where they start.     *)
(***************************************************************************)
EXTENDS SpeakerOwnership, PlaybackStream, SceneMix, PlaybackRecovery

VARIABLE part   \* the part this behaviour is about

Only(name) == part = name /\ UNCHANGED part

PlaybackInit ==
  /\ part \in {"speaker", "stream", "scene", "recovery"}
  /\ Init /\ StreamInit /\ SceneInit /\ RecoveryInit
  /\ part # "stream" => source = [kind |-> "wav", length |-> Unknown]
  /\ part # "scene" => ~loops

PlaybackNext ==
  \/ Only("speaker") /\ Next /\ UNCHANGED <<streaming, mixing, watching>>
  \/ Only("stream") /\ StreamNext /\ UNCHANGED <<vars, mixing, watching>>
  \/ Only("scene") /\ SceneNext /\ UNCHANGED <<vars, streaming, watching>>
  \/ Only("recovery") /\ RecoveryNext /\ UNCHANGED <<vars, streaming, mixing>>

everything == <<vars, streaming, mixing, watching>>

(* The fairness of the parts, of which one runs: a condition on one task   *)
(* of each says the same as one condition on each of these tasks.          *)
PlaybackFair ==
  LET Task(A, B, C, D) ==
        \/ part = "speaker" /\ A /\ UNCHANGED <<streaming, mixing, watching>>
        \/ part = "stream" /\ B /\ UNCHANGED <<vars, mixing, watching>>
        \/ part = "scene" /\ C /\ UNCHANGED <<vars, streaming, watching>>
        \/ part = "recovery" /\ D /\ UNCHANGED <<vars, streaming, mixing>>
      Speaker(A) == Task(A, FALSE, FALSE, FALSE)
  IN /\ \A c \in Callers : WF_everything(Speaker(Start(c)))
     /\ \A p \in Players :
          WF_everything(Task(Player(p), StreamPlayer, SceneTask, WatchdogTask))
     /\ WF_everything(Task(OtaHandler(Server), StreamReader, BackgroundTask, NoteOutput))
     /\ WF_everything(Task(OtaFailed, FALSE, FALSE, Tick))
     /\ WF_everything(Speaker(StreamBegin \/ StreamBegun))
     /\ SF_everything(Speaker(Poll)) /\ WF_everything(Speaker(ClosedStreamEnds))

PlaybackSpec == PlaybackInit /\ [][PlaybackNext]_<<part, everything>> /\ PlaybackFair

(* Whatever plays comes to its end: a download on every path of its        *)
(* failures, a scene with a background that repeats for ever, is slow or   *)
(* has failed.                                                             *)
PlaybacksEnd == StreamEnds /\ SceneEnds

=============================================================================
