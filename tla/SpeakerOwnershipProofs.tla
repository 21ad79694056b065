----------------------- MODULE SpeakerOwnershipProofs -----------------------
(* Theorems about SpeakerOwnership for every set of callers and playback   *)
(* tasks, and every bound of the claims.                                   *)
EXTENDS SpeakerOwnership, FiniteSetTheorems, TLAPS

-----------------------------------------------------------------------------
(* The inductive invariant.                                                *)

TypeInv ==
  /\ TypeOK
  /\ \A c \in Callers : pc[c] \in CallerSteps
  /\ \A p \in Players : pc[p] \in PlayerSteps
  /\ pc[Sendspin] \in StreamSteps

(* Where a caller holds s_lifecycle_lock, and where it does so after the   *)
(* previous playback has ended.                                            *)
Chosen == {"choose", "overlay", "claim", "claimed", "arm", "create", "failed"}
Holding == Chosen \cup {"wait"}
Updating == {"ota_claim", "ota_claimed", "ota_start"}

LockInv ==
  /\ \A c \in Callers : pc[c] \in Holding => lock = c
  /\ \A c \in Callers : pc[c] \in Updating => c = Server

(* One playback at a time, and none beside a start that has passed its     *)
(* wait.                                                                   *)
PlayerInv ==
  /\ \A p, q \in Players : pc[p] # "none" /\ pc[q] # "none" => p = q
  /\ \A p \in Players : Live(p) => task = p /\ playing
  /\ \A c \in Callers : pc[c] \in Chosen => \A p \in Players : pc[p] = "none"
  /\ \A c \in Callers : pc[c] = "create" => playing

OutputInv ==
  mode # "none" => \/ \E c \in Callers : pc[c] \in {"arm", "create", "failed"}
                   \/ \E p \in Players : pc[p] # "none"

(* The claims have room for those about to be added.                       *)
Waiting == \E c \in Callers : pc[c] \in {"wait", "choose", "claim"}
RoomInv == claims + One(Waiting) + One(pc[Server] = "ota_claim") <= TopClaims

CountInv == claims = Cardinality(Claiming) + One(mode = "native") + One(ota # "idle")

SessionInv ==
  /\ \A p \in Players : pc[p] = "play" /\ mode # "overlay" => session = p
  /\ owned => session = Sendspin
  /\ pc[Sendspin] = "begun" => session = Sendspin
  /\ pc[Sendspin] # "loop" => ~owned
  /\ stream = "off" => ~owned /\ pc[Sendspin] = "loop"

Inv ==
  /\ TypeInv
  /\ LockInv
  /\ inStep => PlayerInv /\ OutputInv /\ RoomInv /\ CountInv /\ SessionInv

-----------------------------------------------------------------------------
(* One lemma for each part of the invariant, with a step for each action.  *)
(* A part holds of inStep states only, so it may be assumed before and     *)
(* after the step.                                                         *)

(* The counter stays in its word. *)
LEMMA ClaimTypes ==
  ASSUME claims \in 0..TopClaims
  PROVE  /\ Released \in 0..TopClaims
         /\ ClaimAdd => claims' \in 0..TopClaims
         /\ ClaimBack => claims' \in 0..TopClaims
BY OwnershipAssumption DEF TopClaims, Released, ClaimAdd, ClaimBack

(* Types, and every task at the steps of its kind. *)
LEMMA TypeStep ==
  ASSUME TypeInv, [Next]_vars
  PROVE  TypeInv'
<1> USE OwnershipAssumption DEF TypeInv, TypeOK, CallerSteps, PlayerSteps,
      StreamSteps, Modes, playback, sendspin, TopClaims, Closed
<1>1. ASSUME NEW c \in Callers, StartPlayback(c) PROVE TypeInv'
  BY <1>1 DEF StartPlayback, Goto
<1>2. ASSUME NEW c \in Callers, TakeLock(c) PROVE TypeInv'
  BY <1>2 DEF TakeLock, Goto
<1>3. ASSUME NEW c \in Callers, Stopped(c) PROVE TypeInv'
  BY <1>3 DEF Stopped, Goto
<1>4. ASSUME NEW c \in Callers, NotStopped(c) PROVE TypeInv'
  BY <1>4 DEF NotStopped, Goto
<1>5. ASSUME NEW c \in Callers, ChooseOutput(c) PROVE TypeInv'
  BY <1>5 DEF ChooseOutput, Goto
<1>6. ASSUME NEW c \in Callers, BeginOverlay(c) PROVE TypeInv'
  BY <1>6 DEF BeginOverlay, Goto
<1>7. ASSUME NEW c \in Callers, Claim(c) PROVE TypeInv'
  BY <1>7, ClaimTypes DEF Claim, Goto
<1>8. ASSUME NEW c \in Callers, ClaimGranted(c) PROVE TypeInv'
  BY <1>8 DEF ClaimGranted, Goto
<1>9. ASSUME NEW c \in Callers, ClaimTimeout(c) PROVE TypeInv'
  BY <1>9, ClaimTypes DEF ClaimTimeout, Goto
<1>10. ASSUME NEW c \in Callers, Arm(c) PROVE TypeInv'
  BY <1>10 DEF Arm, Goto
<1>11. ASSUME NEW c \in Callers, CreateTask(c) PROVE TypeInv'
  BY <1>11 DEF CreateTask, Goto
<1>12. ASSUME NEW c \in Callers, StartFailed(c) PROVE TypeInv'
  BY <1>12, ClaimTypes DEF StartFailed, Goto, ReleaseOutput
<1>13. ASSUME NEW p \in Players, Run(p) PROVE TypeInv'
  BY <1>13 DEF Run, Goto
<1>14. ASSUME NEW p \in Players, Open(p) PROVE TypeInv'
  BY <1>14 DEF Open, Goto
<1>15. ASSUME NEW p \in Players, EndSession(p) PROVE TypeInv'
  BY <1>15 DEF EndSession, Goto
<1>16. ASSUME NEW p \in Players, MarkFinished(p) PROVE TypeInv'
  BY <1>16 DEF MarkFinished, Goto
<1>17. ASSUME NEW p \in Players, ClearPlaying(p) PROVE TypeInv'
  BY <1>17 DEF ClearPlaying, Goto
<1>18. ASSUME NEW p \in Players, ReleaseSpeaker(p) PROVE TypeInv'
  BY <1>18, ClaimTypes DEF ReleaseSpeaker, Goto, ReleaseOutput
<1>19. CASE OtaUrl(Server)
  BY <1>19 DEF OtaUrl, Goto
<1>20. CASE OtaClaim(Server)
  BY <1>20, ClaimTypes DEF OtaClaim, Goto
<1>21. CASE OtaClaimed(Server)
  BY <1>21, ClaimTypes DEF OtaClaimed, Goto
<1>22. CASE OtaStart(Server)
  BY <1>22, ClaimTypes DEF OtaStart, Goto
<1>23. CASE StopPlayback
  BY <1>23 DEF StopPlayback, Goto
<1>24. CASE OtaFail
  BY <1>24 DEF OtaFail, Goto
<1>25. CASE OtaFailed
  BY <1>25, ClaimTypes DEF OtaFailed, Goto
<1>26. CASE StreamStart
  BY <1>26 DEF StreamStart, Goto
<1>27. CASE StreamBegin
  BY <1>27 DEF StreamBegin, Goto
<1>28. CASE StreamBegun
  BY <1>28 DEF StreamBegun, Goto
<1>29. CASE StreamEnd
  BY <1>29 DEF StreamEnd, Goto
<1>30. CASE Poll
  BY <1>30 DEF Poll, Goto
<1>31. CASE UNCHANGED vars
  BY <1>31 DEF vars, playback, sendspin
<1> QED
  BY <1>1, <1>2, <1>3, <1>4, <1>5, <1>6, <1>7, <1>8, <1>9, <1>10, <1>11, <1>12,
      <1>13, <1>14, <1>15, <1>16, <1>17, <1>18, <1>19, <1>20, <1>21, <1>22, <1>23,
      <1>24, <1>25, <1>26, <1>27, <1>28, <1>29, <1>30, <1>31
  DEF Next, Start, Player, OtaHandler, SendspinTask, ClosedStreamEnds

(* Two starts do not hold s_lifecycle_lock at once. *)
LEMMA LockStep ==
  ASSUME TypeInv, LockInv, [Next]_vars
  PROVE  LockInv'
<1> USE OwnershipAssumption DEF TypeInv, TypeOK, LockInv, Holding, Chosen, Updating,
      CallerSteps, PlayerSteps, StreamSteps, playback, sendspin
<1>1. ASSUME NEW c \in Callers, StartPlayback(c) PROVE LockInv'
  BY <1>1 DEF StartPlayback, Goto
<1>2. ASSUME NEW c \in Callers, TakeLock(c) PROVE LockInv'
  BY <1>2 DEF TakeLock, Goto
<1>3. ASSUME NEW c \in Callers, Stopped(c) PROVE LockInv'
  BY <1>3 DEF Stopped, Goto
<1>4. ASSUME NEW c \in Callers, NotStopped(c) PROVE LockInv'
  BY <1>4 DEF NotStopped, Goto
<1>5. ASSUME NEW c \in Callers, ChooseOutput(c) PROVE LockInv'
  BY <1>5 DEF ChooseOutput, Goto
<1>6. ASSUME NEW c \in Callers, BeginOverlay(c) PROVE LockInv'
  BY <1>6 DEF BeginOverlay, Goto
<1>7. ASSUME NEW c \in Callers, Claim(c) PROVE LockInv'
  BY <1>7 DEF Claim, Goto
<1>8. ASSUME NEW c \in Callers, ClaimGranted(c) PROVE LockInv'
  BY <1>8 DEF ClaimGranted, Goto
<1>9. ASSUME NEW c \in Callers, ClaimTimeout(c) PROVE LockInv'
  BY <1>9 DEF ClaimTimeout, Goto
<1>10. ASSUME NEW c \in Callers, Arm(c) PROVE LockInv'
  BY <1>10 DEF Arm, Goto
<1>11. ASSUME NEW c \in Callers, CreateTask(c) PROVE LockInv'
  BY <1>11 DEF CreateTask, Goto
<1>12. ASSUME NEW c \in Callers, StartFailed(c) PROVE LockInv'
  BY <1>12 DEF StartFailed, Goto
<1>13. ASSUME NEW p \in Players, Run(p) PROVE LockInv'
  BY <1>13 DEF Run, Goto
<1>14. ASSUME NEW p \in Players, Open(p) PROVE LockInv'
  BY <1>14 DEF Open, Goto
<1>15. ASSUME NEW p \in Players, EndSession(p) PROVE LockInv'
  BY <1>15 DEF EndSession, Goto
<1>16. ASSUME NEW p \in Players, MarkFinished(p) PROVE LockInv'
  BY <1>16 DEF MarkFinished, Goto
<1>17. ASSUME NEW p \in Players, ClearPlaying(p) PROVE LockInv'
  BY <1>17 DEF ClearPlaying, Goto
<1>18. ASSUME NEW p \in Players, ReleaseSpeaker(p) PROVE LockInv'
  BY <1>18 DEF ReleaseSpeaker, Goto
<1>19. CASE OtaUrl(Server)
  BY <1>19 DEF OtaUrl, Goto
<1>20. CASE OtaClaim(Server)
  BY <1>20 DEF OtaClaim, Goto
<1>21. CASE OtaClaimed(Server)
  BY <1>21 DEF OtaClaimed, Goto
<1>22. CASE OtaStart(Server)
  BY <1>22 DEF OtaStart, Goto
<1>23. CASE StopPlayback
  BY <1>23 DEF StopPlayback, Goto
<1>24. CASE OtaFail
  BY <1>24 DEF OtaFail, Goto
<1>25. CASE OtaFailed
  BY <1>25 DEF OtaFailed, Goto
<1>26. CASE StreamStart
  BY <1>26 DEF StreamStart, Goto
<1>27. CASE StreamBegin
  BY <1>27 DEF StreamBegin, Goto
<1>28. CASE StreamBegun
  BY <1>28 DEF StreamBegun, Goto
<1>29. CASE StreamEnd
  BY <1>29 DEF StreamEnd, Goto
<1>30. CASE Poll
  BY <1>30 DEF Poll, Goto
<1>31. CASE UNCHANGED vars
  BY <1>31 DEF vars, playback, sendspin
<1> QED
  BY <1>1, <1>2, <1>3, <1>4, <1>5, <1>6, <1>7, <1>8, <1>9, <1>10, <1>11, <1>12,
      <1>13, <1>14, <1>15, <1>16, <1>17, <1>18, <1>19, <1>20, <1>21, <1>22, <1>23,
      <1>24, <1>25, <1>26, <1>27, <1>28, <1>29, <1>30, <1>31
  DEF Next, Start, Player, OtaHandler, SendspinTask, ClosedStreamEnds

(* Playbacks stay alone and current. *)
LEMMA PlayerStep ==
  ASSUME TypeInv, LockInv, PlayerInv, inStep, inStep', [Next]_vars
  PROVE  PlayerInv'
<1> USE OwnershipAssumption DEF TypeInv, TypeOK, LockInv, PlayerInv, Live,
      Finishing, Holding, Chosen, CallerSteps, PlayerSteps, StreamSteps, playback,
      sendspin
<1>1. ASSUME NEW c \in Callers, StartPlayback(c) PROVE PlayerInv'
  BY <1>1 DEF StartPlayback, Goto
<1>2. ASSUME NEW c \in Callers, TakeLock(c) PROVE PlayerInv'
  BY <1>2 DEF TakeLock, Goto
<1>3. ASSUME NEW c \in Callers, Stopped(c) PROVE PlayerInv'
  <2>1. \A p \in Players : ~Finishing(p)
    BY <1>3 DEF Stopped
  <2>2. \A p \in Players : ~Live(p)
    BY <1>3 DEF Stopped
  <2>3. \A p \in Players : pc[p] = "none"
    BY <2>1, <2>2
  <2> QED BY <1>3, <2>3 DEF Stopped, Goto
<1>4. ASSUME NEW c \in Callers, NotStopped(c) PROVE PlayerInv'
  BY <1>4 DEF NotStopped, Goto
<1>5. ASSUME NEW c \in Callers, ChooseOutput(c) PROVE PlayerInv'
  BY <1>5 DEF ChooseOutput, Goto
<1>6. ASSUME NEW c \in Callers, BeginOverlay(c) PROVE PlayerInv'
  BY <1>6 DEF BeginOverlay, Goto
<1>7. ASSUME NEW c \in Callers, Claim(c) PROVE PlayerInv'
  BY <1>7 DEF Claim, Goto
<1>8. ASSUME NEW c \in Callers, ClaimGranted(c) PROVE PlayerInv'
  BY <1>8 DEF ClaimGranted, Goto
<1>9. ASSUME NEW c \in Callers, ClaimTimeout(c) PROVE PlayerInv'
  BY <1>9 DEF ClaimTimeout, Goto
<1>10. ASSUME NEW c \in Callers, Arm(c) PROVE PlayerInv'
  BY <1>10 DEF Arm, Goto
<1>11. ASSUME NEW c \in Callers, CreateTask(c) PROVE PlayerInv'
  BY <1>11 DEF CreateTask, Goto
<1>12. ASSUME NEW c \in Callers, StartFailed(c) PROVE PlayerInv'
  BY <1>12 DEF StartFailed, Goto
<1>13. ASSUME NEW p \in Players, Run(p) PROVE PlayerInv'
  BY <1>13 DEF Run, Goto
<1>14. ASSUME NEW p \in Players, Open(p) PROVE PlayerInv'
  BY <1>14 DEF Open, Goto
<1>15. ASSUME NEW p \in Players, EndSession(p) PROVE PlayerInv'
  BY <1>15 DEF EndSession, Goto
<1>16. ASSUME NEW p \in Players, MarkFinished(p) PROVE PlayerInv'
  BY <1>16 DEF MarkFinished, Goto
<1>17. ASSUME NEW p \in Players, ClearPlaying(p) PROVE PlayerInv'
  BY <1>17 DEF ClearPlaying, Goto
<1>18. ASSUME NEW p \in Players, ReleaseSpeaker(p) PROVE PlayerInv'
  BY <1>18 DEF ReleaseSpeaker, Goto
<1>19. CASE OtaUrl(Server)
  BY <1>19 DEF OtaUrl, Goto
<1>20. CASE OtaClaim(Server)
  BY <1>20 DEF OtaClaim, Goto
<1>21. CASE OtaClaimed(Server)
  BY <1>21 DEF OtaClaimed, Goto
<1>22. CASE OtaStart(Server)
  BY <1>22 DEF OtaStart, Goto
<1>23. CASE StopPlayback
  BY <1>23 DEF StopPlayback, Goto
<1>24. CASE OtaFail
  BY <1>24 DEF OtaFail, Goto
<1>25. CASE OtaFailed
  BY <1>25 DEF OtaFailed, Goto
<1>26. CASE StreamStart
  BY <1>26 DEF StreamStart, Goto
<1>27. CASE StreamBegin
  BY <1>27 DEF StreamBegin, Goto
<1>28. CASE StreamBegun
  BY <1>28 DEF StreamBegun, Goto
<1>29. CASE StreamEnd
  BY <1>29 DEF StreamEnd, Goto
<1>30. CASE Poll
  BY <1>30 DEF Poll, Goto
<1>31. CASE UNCHANGED vars
  BY <1>31 DEF vars, playback, sendspin
<1> QED
  BY <1>1, <1>2, <1>3, <1>4, <1>5, <1>6, <1>7, <1>8, <1>9, <1>10, <1>11, <1>12,
      <1>13, <1>14, <1>15, <1>16, <1>17, <1>18, <1>19, <1>20, <1>21, <1>22, <1>23,
      <1>24, <1>25, <1>26, <1>27, <1>28, <1>29, <1>30, <1>31
  DEF Next, Start, Player, OtaHandler, SendspinTask, ClosedStreamEnds

(* An output that is chosen has somebody to release it. *)
LEMMA OutputStep ==
  ASSUME TypeInv, LockInv, PlayerInv, OutputInv, inStep, inStep', [Next]_vars
  PROVE  OutputInv'
<1> USE OwnershipAssumption DEF TypeInv, TypeOK, LockInv, PlayerInv, OutputInv,
      Live, Finishing, Holding, Chosen, CallerSteps, PlayerSteps, StreamSteps,
      playback, sendspin, ReleaseOutput, Modes
<1>1. ASSUME NEW c \in Callers, StartPlayback(c) PROVE OutputInv'
  BY <1>1 DEF StartPlayback, Goto
<1>2. ASSUME NEW c \in Callers, TakeLock(c) PROVE OutputInv'
  BY <1>2 DEF TakeLock, Goto
<1>3. ASSUME NEW c \in Callers, Stopped(c) PROVE OutputInv'
  BY <1>3 DEF Stopped, Goto
<1>4. ASSUME NEW c \in Callers, NotStopped(c) PROVE OutputInv'
  BY <1>4 DEF NotStopped, Goto
<1>5. ASSUME NEW c \in Callers, ChooseOutput(c) PROVE OutputInv'
  BY <1>5 DEF ChooseOutput, Goto
<1>6. ASSUME NEW c \in Callers, BeginOverlay(c) PROVE OutputInv'
  BY <1>6 DEF BeginOverlay, Goto
<1>7. ASSUME NEW c \in Callers, Claim(c) PROVE OutputInv'
  BY <1>7 DEF Claim, Goto
<1>8. ASSUME NEW c \in Callers, ClaimGranted(c) PROVE OutputInv'
  BY <1>8 DEF ClaimGranted, Goto
<1>9. ASSUME NEW c \in Callers, ClaimTimeout(c) PROVE OutputInv'
  BY <1>9 DEF ClaimTimeout, Goto
<1>10. ASSUME NEW c \in Callers, Arm(c) PROVE OutputInv'
  BY <1>10 DEF Arm, Goto
<1>11. ASSUME NEW c \in Callers, CreateTask(c) PROVE OutputInv'
  BY <1>11 DEF CreateTask, Goto
<1>12. ASSUME NEW c \in Callers, StartFailed(c) PROVE OutputInv'
  BY <1>12 DEF StartFailed, Goto
<1>13. ASSUME NEW p \in Players, Run(p) PROVE OutputInv'
  BY <1>13 DEF Run, Goto
<1>14. ASSUME NEW p \in Players, Open(p) PROVE OutputInv'
  BY <1>14 DEF Open, Goto
<1>15. ASSUME NEW p \in Players, EndSession(p) PROVE OutputInv'
  BY <1>15 DEF EndSession, Goto
<1>16. ASSUME NEW p \in Players, MarkFinished(p) PROVE OutputInv'
  BY <1>16 DEF MarkFinished, Goto
<1>17. ASSUME NEW p \in Players, ClearPlaying(p) PROVE OutputInv'
  BY <1>17 DEF ClearPlaying, Goto
<1>18. ASSUME NEW p \in Players, ReleaseSpeaker(p) PROVE OutputInv'
  BY <1>18 DEF ReleaseSpeaker, Goto
<1>19. CASE OtaUrl(Server)
  BY <1>19 DEF OtaUrl, Goto
<1>20. CASE OtaClaim(Server)
  BY <1>20 DEF OtaClaim, Goto
<1>21. CASE OtaClaimed(Server)
  BY <1>21 DEF OtaClaimed, Goto
<1>22. CASE OtaStart(Server)
  BY <1>22 DEF OtaStart, Goto
<1>23. CASE StopPlayback
  BY <1>23 DEF StopPlayback, Goto
<1>24. CASE OtaFail
  BY <1>24 DEF OtaFail, Goto
<1>25. CASE OtaFailed
  BY <1>25 DEF OtaFailed, Goto
<1>26. CASE StreamStart
  BY <1>26 DEF StreamStart, Goto
<1>27. CASE StreamBegin
  BY <1>27 DEF StreamBegin, Goto
<1>28. CASE StreamBegun
  BY <1>28 DEF StreamBegun, Goto
<1>29. CASE StreamEnd
  BY <1>29 DEF StreamEnd, Goto
<1>30. CASE Poll
  BY <1>30 DEF Poll, Goto
<1>31. CASE UNCHANGED vars
  BY <1>31 DEF vars, playback, sendspin
<1> QED
  BY <1>1, <1>2, <1>3, <1>4, <1>5, <1>6, <1>7, <1>8, <1>9, <1>10, <1>11, <1>12,
      <1>13, <1>14, <1>15, <1>16, <1>17, <1>18, <1>19, <1>20, <1>21, <1>22, <1>23,
      <1>24, <1>25, <1>26, <1>27, <1>28, <1>29, <1>30, <1>31
  DEF Next, Start, Player, OtaHandler, SendspinTask, ClosedStreamEnds

(* The board's session stays with the one that uses the speaker. *)
LEMMA SessionStep ==
  ASSUME TypeInv, LockInv, PlayerInv, OutputInv, SessionInv, inStep, inStep', [Next]_vars
  PROVE  SessionInv'
<1> USE OwnershipAssumption DEF TypeInv, TypeOK, LockInv, PlayerInv, OutputInv,
      SessionInv, Live, Holding, Chosen, CallerSteps, PlayerSteps, StreamSteps,
      playback, sendspin, ReleaseOutput, Modes, Closed
<1>1. ASSUME NEW c \in Callers, StartPlayback(c) PROVE SessionInv'
  BY <1>1 DEF StartPlayback, Goto
<1>2. ASSUME NEW c \in Callers, TakeLock(c) PROVE SessionInv'
  BY <1>2 DEF TakeLock, Goto
<1>3. ASSUME NEW c \in Callers, Stopped(c) PROVE SessionInv'
  BY <1>3 DEF Stopped, Goto
<1>4. ASSUME NEW c \in Callers, NotStopped(c) PROVE SessionInv'
  BY <1>4 DEF NotStopped, Goto
<1>5. ASSUME NEW c \in Callers, ChooseOutput(c) PROVE SessionInv'
  BY <1>5 DEF ChooseOutput, Goto
<1>6. ASSUME NEW c \in Callers, BeginOverlay(c) PROVE SessionInv'
  BY <1>6 DEF BeginOverlay, Goto
<1>7. ASSUME NEW c \in Callers, Claim(c) PROVE SessionInv'
  BY <1>7 DEF Claim, Goto
<1>8. ASSUME NEW c \in Callers, ClaimGranted(c) PROVE SessionInv'
  BY <1>8 DEF ClaimGranted, Goto
<1>9. ASSUME NEW c \in Callers, ClaimTimeout(c) PROVE SessionInv'
  BY <1>9 DEF ClaimTimeout, Goto
<1>10. ASSUME NEW c \in Callers, Arm(c) PROVE SessionInv'
  BY <1>10 DEF Arm, Goto
<1>11. ASSUME NEW c \in Callers, CreateTask(c) PROVE SessionInv'
  BY <1>11 DEF CreateTask, Goto
<1>12. ASSUME NEW c \in Callers, StartFailed(c) PROVE SessionInv'
  BY <1>12 DEF StartFailed, Goto
<1>13. ASSUME NEW p \in Players, Run(p) PROVE SessionInv'
  BY <1>13 DEF Run, Goto
<1>14. ASSUME NEW p \in Players, Open(p) PROVE SessionInv'
  BY <1>14 DEF Open, Goto
<1>15. ASSUME NEW p \in Players, EndSession(p) PROVE SessionInv'
  BY <1>15 DEF EndSession, Goto
<1>16. ASSUME NEW p \in Players, MarkFinished(p) PROVE SessionInv'
  BY <1>16 DEF MarkFinished, Goto
<1>17. ASSUME NEW p \in Players, ClearPlaying(p) PROVE SessionInv'
  BY <1>17 DEF ClearPlaying, Goto
<1>18. ASSUME NEW p \in Players, ReleaseSpeaker(p) PROVE SessionInv'
  BY <1>18 DEF ReleaseSpeaker, Goto
<1>19. CASE OtaUrl(Server)
  BY <1>19 DEF OtaUrl, Goto
<1>20. CASE OtaClaim(Server)
  BY <1>20 DEF OtaClaim, Goto
<1>21. CASE OtaClaimed(Server)
  BY <1>21 DEF OtaClaimed, Goto
<1>22. CASE OtaStart(Server)
  BY <1>22 DEF OtaStart, Goto
<1>23. CASE StopPlayback
  BY <1>23 DEF StopPlayback, Goto
<1>24. CASE OtaFail
  BY <1>24 DEF OtaFail, Goto
<1>25. CASE OtaFailed
  BY <1>25 DEF OtaFailed, Goto
<1>26. CASE StreamStart
  BY <1>26 DEF StreamStart, Goto
<1>27. CASE StreamBegin
  BY <1>27 DEF StreamBegin, Goto
<1>28. CASE StreamBegun
  BY <1>28 DEF StreamBegun, Goto
<1>29. CASE StreamEnd
  BY <1>29 DEF StreamEnd, Goto
<1>30. CASE Poll
  BY <1>30 DEF Poll, Goto
<1>31. CASE UNCHANGED vars
  BY <1>31 DEF vars, playback, sendspin
<1> QED
  BY <1>1, <1>2, <1>3, <1>4, <1>5, <1>6, <1>7, <1>8, <1>9, <1>10, <1>11, <1>12,
      <1>13, <1>14, <1>15, <1>16, <1>17, <1>18, <1>19, <1>20, <1>21, <1>22, <1>23,
      <1>24, <1>25, <1>26, <1>27, <1>28, <1>29, <1>30, <1>31
  DEF Next, Start, Player, OtaHandler, SendspinTask, ClosedStreamEnds

(* The callers whose claim is counted and not yet passed on.               *)
LEMMA ClaimingCount ==
  /\ Cardinality(Claiming) \in Nat
  /\ \A c \in Callers :
       /\ Cardinality(Claiming \cup {c}) =
            IF c \in Claiming THEN Cardinality(Claiming) ELSE Cardinality(Claiming) + 1
       /\ Cardinality(Claiming \ {c}) =
            IF c \in Claiming THEN Cardinality(Claiming) - 1 ELSE Cardinality(Claiming)
       /\ c \in Claiming => Cardinality(Claiming) > 0
<1>1. IsFiniteSet(Claiming) /\ Cardinality(Claiming) \in Nat
  <2>1. Claiming \in SUBSET Callers
    BY DEF Claiming
  <2>2. IsFiniteSet(Claiming)
    BY <2>1, FS_Subset, OwnershipAssumption
  <2> QED BY <2>2, FS_CardinalityType
<1>2. ASSUME NEW c \in Callers, c \in Claiming
      PROVE  Cardinality(Claiming) > 0
  <2>1. Cardinality(Claiming) # 0
    BY <1>1, <1>2, FS_EmptySet
  <2> QED BY <1>1, <2>1
<1> QED BY <1>1, <1>2, FS_AddElement, FS_RemoveElement

(* Nobody has an output while a start is choosing one. *)
LEMMA NoOutputYet ==
  ASSUME TypeInv, LockInv, PlayerInv, OutputInv,
         NEW c \in Callers, pc[c] \in {"choose", "overlay", "claim", "claimed"}
  PROVE  mode = "none"
BY DEF LockInv, PlayerInv, OutputInv, Holding, Chosen

(* Every step moves a claim from one owner to another, or makes or         *)
(* releases one together with its owner.                                   *)
LEMMA CountStep ==
  ASSUME TypeInv, LockInv, PlayerInv, OutputInv, RoomInv, CountInv,
         inStep, inStep', [Next]_vars
  PROVE  CountInv'
<1> USE OwnershipAssumption DEF TypeInv, TypeOK, CallerSteps, PlayerSteps,
      StreamSteps, playback, sendspin
<1>1. ASSUME NEW c \in Callers, StartPlayback(c) PROVE CountInv'
  <2>1. Claiming' = Claiming
    BY <1>1 DEF StartPlayback, Goto, Claiming
  <2> QED BY <1>1, <2>1, ClaimingCount DEF StartPlayback, CountInv, One
<1>2. ASSUME NEW c \in Callers, TakeLock(c) PROVE CountInv'
  <2>1. Claiming' = Claiming
    BY <1>2 DEF TakeLock, Goto, Claiming
  <2> QED BY <1>2, <2>1, ClaimingCount DEF TakeLock, CountInv, One
<1>3. ASSUME NEW c \in Callers, Stopped(c) PROVE CountInv'
  <2>1. Claiming' = Claiming
    BY <1>3 DEF Stopped, Goto, Claiming
  <2> QED BY <1>3, <2>1, ClaimingCount DEF Stopped, CountInv, One
<1>4. ASSUME NEW c \in Callers, NotStopped(c) PROVE CountInv'
  <2>1. Claiming' = Claiming
    BY <1>4 DEF NotStopped, Goto, Claiming
  <2> QED BY <1>4, <2>1, ClaimingCount DEF NotStopped, CountInv, One
<1>5. ASSUME NEW c \in Callers, ChooseOutput(c) PROVE CountInv'
  <2>1. Claiming' = Claiming
    BY <1>5 DEF ChooseOutput, Goto, Claiming
  <2>2. mode = "none"
    BY <1>5, NoOutputYet DEF ChooseOutput, Goto
  <2> QED BY <1>5, <2>1, <2>2 DEF ChooseOutput, CountInv, One
<1>6. ASSUME NEW c \in Callers, BeginOverlay(c) PROVE CountInv'
  <2>1. Claiming' = Claiming
    BY <1>6 DEF BeginOverlay, Goto, Claiming
  <2>2. mode = "none"
    BY <1>6, NoOutputYet DEF BeginOverlay, Goto
  <2> QED BY <1>6, <2>1, <2>2 DEF BeginOverlay, CountInv, One
<1>7. ASSUME NEW c \in Callers, Claim(c) PROVE CountInv'
  <2>1. c \notin Claiming /\ Claiming' = Claiming \cup {c}
    BY <1>7 DEF Claim, Goto, Claiming
  <2>2. claims' = claims + 1
    BY <1>7 DEF Claim, Goto, ClaimAdd, RoomInv, One, Waiting, TopClaims
  <2> QED BY <1>7, <2>1, <2>2, ClaimingCount DEF CountInv, One, Claim, playback, sendspin
<1>8. ASSUME NEW c \in Callers, ClaimGranted(c) PROVE CountInv'
  <2>1. c \in Claiming /\ Claiming' = Claiming \ {c}
    BY <1>8 DEF ClaimGranted, Goto, Claiming
  <2>2. mode = "none"
    BY <1>8, NoOutputYet DEF ClaimGranted, Goto
  <2> QED BY <1>8, <2>1, <2>2, ClaimingCount DEF ClaimGranted, CountInv, One
<1>9. ASSUME NEW c \in Callers, ClaimTimeout(c) PROVE CountInv'
  <2>1. c \in Claiming /\ Claiming' = Claiming \ {c}
    BY <1>9 DEF ClaimTimeout, Goto, Claiming
  <2> QED BY <1>9, <2>1, ClaimingCount DEF ClaimTimeout, ClaimBack, CountInv, One
<1>10. ASSUME NEW c \in Callers, Arm(c) PROVE CountInv'
  <2>1. Claiming' = Claiming
    BY <1>10 DEF Arm, Goto, Claiming
  <2> QED BY <1>10, <2>1, ClaimingCount DEF Arm, CountInv, One
<1>11. ASSUME NEW c \in Callers, CreateTask(c) PROVE CountInv'
  <2>1. Claiming' = Claiming
    BY <1>11 DEF CreateTask, Goto, Claiming
  <2> QED BY <1>11, <2>1, ClaimingCount DEF CreateTask, CountInv, One
<1>12. ASSUME NEW c \in Callers, StartFailed(c) PROVE CountInv'
  <2>1. Claiming' = Claiming
    BY <1>12 DEF StartFailed, Goto, Claiming
  <2> QED BY <1>12, <2>1, ClaimingCount DEF StartFailed, CountInv, One,
      ReleaseOutput, Released
<1>13. ASSUME NEW p \in Players, Run(p) PROVE CountInv'
  <2>1. Claiming' = Claiming
    BY <1>13 DEF Run, Goto, Claiming
  <2> QED BY <1>13, <2>1, ClaimingCount DEF Run, CountInv, One
<1>14. ASSUME NEW p \in Players, Open(p) PROVE CountInv'
  <2>1. Claiming' = Claiming
    BY <1>14 DEF Open, Goto, Claiming
  <2> QED BY <1>14, <2>1, ClaimingCount DEF Open, CountInv, One
<1>15. ASSUME NEW p \in Players, EndSession(p) PROVE CountInv'
  <2>1. Claiming' = Claiming
    BY <1>15 DEF EndSession, Goto, Claiming
  <2> QED BY <1>15, <2>1, ClaimingCount DEF EndSession, CountInv, One
<1>16. ASSUME NEW p \in Players, MarkFinished(p) PROVE CountInv'
  <2>1. Claiming' = Claiming
    BY <1>16 DEF MarkFinished, Goto, Claiming
  <2> QED BY <1>16, <2>1, ClaimingCount DEF MarkFinished, CountInv, One
<1>17. ASSUME NEW p \in Players, ClearPlaying(p) PROVE CountInv'
  <2>1. Claiming' = Claiming
    BY <1>17 DEF ClearPlaying, Goto, Claiming
  <2> QED BY <1>17, <2>1, ClaimingCount DEF ClearPlaying, CountInv, One
<1>18. ASSUME NEW p \in Players, ReleaseSpeaker(p) PROVE CountInv'
  <2>1. Claiming' = Claiming
    BY <1>18 DEF ReleaseSpeaker, Goto, Claiming
  <2> QED BY <1>18, <2>1, ClaimingCount DEF ReleaseSpeaker, CountInv, One,
      ReleaseOutput, Released
<1>19. CASE OtaUrl(Server)
  <2>1. Claiming' = Claiming
    BY <1>19 DEF OtaUrl, Goto, Claiming
  <2> QED BY <1>19, <2>1, ClaimingCount DEF OtaUrl, CountInv, One
<1>20. CASE OtaClaim(Server)
  <2>1. Server \notin Claiming /\ Claiming' = Claiming \cup {Server}
    BY <1>20 DEF OtaClaim, Goto, Claiming
  <2>2. claims' = claims + 1
    BY <1>20 DEF OtaClaim, Goto, ClaimAdd, RoomInv, One, Waiting, TopClaims
  <2> QED BY <1>20, <2>1, <2>2, ClaimingCount DEF CountInv, One, OtaClaim, playback,
      sendspin
<1>21. CASE OtaClaimed(Server)
  <2>1. Claiming' = Claiming
    BY <1>21 DEF OtaClaimed, Goto, Claiming
  <2> QED BY <1>21, <2>1, ClaimingCount DEF OtaClaimed, CountInv, One
<1>22. CASE OtaStart(Server)
  <2>1. Server \in Claiming /\ Claiming' = Claiming \ {Server}
    BY <1>22 DEF OtaStart, Goto, Claiming
  <2> QED BY <1>22, <2>1, ClaimingCount DEF OtaStart, Released, CountInv, One
<1>23. CASE StopPlayback
  <2>1. Claiming' = Claiming
    BY <1>23 DEF StopPlayback, Goto, Claiming
  <2> QED BY <1>23, <2>1, ClaimingCount DEF StopPlayback, CountInv, One
<1>24. CASE OtaFail
  <2>1. Claiming' = Claiming
    BY <1>24 DEF OtaFail, Goto, Claiming
  <2> QED BY <1>24, <2>1, ClaimingCount DEF OtaFail, CountInv, One
<1>25. CASE OtaFailed
  <2>1. Claiming' = Claiming
    BY <1>25 DEF OtaFailed, Goto, Claiming
  <2> QED BY <1>25, <2>1, ClaimingCount DEF OtaFailed, CountInv, One, Released
<1>26. CASE StreamStart
  <2>1. Claiming' = Claiming
    BY <1>26 DEF StreamStart, Goto, Claiming
  <2> QED BY <1>26, <2>1, ClaimingCount DEF StreamStart, CountInv, One
<1>27. CASE StreamBegin
  <2>1. Claiming' = Claiming
    BY <1>27 DEF StreamBegin, Goto, Claiming
  <2> QED BY <1>27, <2>1, ClaimingCount DEF StreamBegin, CountInv, One
<1>28. CASE StreamBegun
  <2>1. Claiming' = Claiming
    BY <1>28 DEF StreamBegun, Goto, Claiming
  <2> QED BY <1>28, <2>1, ClaimingCount DEF StreamBegun, CountInv, One
<1>29. CASE StreamEnd
  <2>1. Claiming' = Claiming
    BY <1>29 DEF StreamEnd, Goto, Claiming
  <2> QED BY <1>29, <2>1, ClaimingCount DEF StreamEnd, CountInv, One
<1>30. CASE Poll
  <2>1. Claiming' = Claiming
    BY <1>30 DEF Poll, Goto, Claiming
  <2> QED BY <1>30, <2>1, ClaimingCount DEF Poll, CountInv, One
<1>31. CASE UNCHANGED vars
  BY <1>31 DEF vars, CountInv, Claiming, One
<1> QED
  BY <1>1, <1>2, <1>3, <1>4, <1>5, <1>6, <1>7, <1>8, <1>9, <1>10, <1>11, <1>12,
      <1>13, <1>14, <1>15, <1>16, <1>17, <1>18, <1>19, <1>20, <1>21, <1>22, <1>23,
      <1>24, <1>25, <1>26, <1>27, <1>28, <1>29, <1>30, <1>31
  DEF Next, Start, Player, OtaHandler, SendspinTask, ClosedStreamEnds

(* The bound MaxClaims leaves room for a start and an update at once,      *)
(* so that no addition wraps.                                              *)
LEMMA RoomStep ==
  ASSUME TypeInv, LockInv, CountInv, RoomInv, inStep, inStep', [Next]_vars
  PROVE  RoomInv'
<1> USE OwnershipAssumption DEF TypeInv, TypeOK, LockInv, RoomInv, Waiting, One,
      Holding, Chosen, Updating, TopClaims, CallerSteps, PlayerSteps, StreamSteps,
      playback, sendspin, Released, ReleaseOutput, ClaimAdd
<1>1. ASSUME NEW c \in Callers, StartPlayback(c) PROVE RoomInv'
  BY <1>1 DEF StartPlayback, Goto
<1>2. ASSUME NEW c \in Callers, TakeLock(c) PROVE RoomInv'
  BY <1>2 DEF TakeLock, Goto
<1>3. ASSUME NEW c \in Callers, Stopped(c) PROVE RoomInv'
  BY <1>3 DEF Stopped, Goto
<1>4. ASSUME NEW c \in Callers, NotStopped(c) PROVE RoomInv'
  BY <1>4 DEF NotStopped, Goto
<1>5. ASSUME NEW c \in Callers, ChooseOutput(c) PROVE RoomInv'
  BY <1>5 DEF ChooseOutput, Goto
<1>6. ASSUME NEW c \in Callers, BeginOverlay(c) PROVE RoomInv'
  BY <1>6 DEF BeginOverlay, Goto
<1>7. ASSUME NEW c \in Callers, Claim(c) PROVE RoomInv'
  BY <1>7 DEF Claim, Goto
<1>8. ASSUME NEW c \in Callers, ClaimGranted(c) PROVE RoomInv'
  BY <1>8 DEF ClaimGranted, Goto
<1>9. ASSUME NEW c \in Callers, ClaimTimeout(c) PROVE RoomInv'
  <2>1. Cardinality(Claiming) > 0
    BY <1>9, ClaimingCount DEF ClaimTimeout, Goto, Claiming
  <2>2. claims > 0
    BY <2>1, ClaimingCount DEF CountInv
  <2> QED BY <1>9, <2>2 DEF ClaimTimeout, ClaimBack, Goto
<1>10. ASSUME NEW c \in Callers, Arm(c) PROVE RoomInv'
  BY <1>10 DEF Arm, Goto
<1>11. ASSUME NEW c \in Callers, CreateTask(c) PROVE RoomInv'
  BY <1>11 DEF CreateTask, Goto
<1>12. ASSUME NEW c \in Callers, StartFailed(c) PROVE RoomInv'
  BY <1>12 DEF StartFailed, Goto
<1>13. ASSUME NEW p \in Players, Run(p) PROVE RoomInv'
  BY <1>13 DEF Run, Goto
<1>14. ASSUME NEW p \in Players, Open(p) PROVE RoomInv'
  BY <1>14 DEF Open, Goto
<1>15. ASSUME NEW p \in Players, EndSession(p) PROVE RoomInv'
  BY <1>15 DEF EndSession, Goto
<1>16. ASSUME NEW p \in Players, MarkFinished(p) PROVE RoomInv'
  BY <1>16 DEF MarkFinished, Goto
<1>17. ASSUME NEW p \in Players, ClearPlaying(p) PROVE RoomInv'
  BY <1>17 DEF ClearPlaying, Goto
<1>18. ASSUME NEW p \in Players, ReleaseSpeaker(p) PROVE RoomInv'
  BY <1>18 DEF ReleaseSpeaker, Goto
<1>19. CASE OtaUrl(Server)
  BY <1>19 DEF OtaUrl, Goto
<1>20. CASE OtaClaim(Server)
  BY <1>20 DEF OtaClaim, Goto
<1>21. CASE OtaClaimed(Server)
  BY <1>21 DEF OtaClaimed, Goto
<1>22. CASE OtaStart(Server)
  BY <1>22 DEF OtaStart, Goto
<1>23. CASE StopPlayback
  BY <1>23 DEF StopPlayback, Goto
<1>24. CASE OtaFail
  BY <1>24 DEF OtaFail, Goto
<1>25. CASE OtaFailed
  BY <1>25 DEF OtaFailed, Goto
<1>26. CASE StreamStart
  BY <1>26 DEF StreamStart, Goto
<1>27. CASE StreamBegin
  BY <1>27 DEF StreamBegin, Goto
<1>28. CASE StreamBegun
  BY <1>28 DEF StreamBegun, Goto
<1>29. CASE StreamEnd
  BY <1>29 DEF StreamEnd, Goto
<1>30. CASE Poll
  BY <1>30 DEF Poll, Goto
<1>31. CASE UNCHANGED vars
  BY <1>31 DEF vars, playback, sendspin
<1> QED
  BY <1>1, <1>2, <1>3, <1>4, <1>5, <1>6, <1>7, <1>8, <1>9, <1>10, <1>11, <1>12,
      <1>13, <1>14, <1>15, <1>16, <1>17, <1>18, <1>19, <1>20, <1>21, <1>22, <1>23,
      <1>24, <1>25, <1>26, <1>27, <1>28, <1>29, <1>30, <1>31
  DEF Next, Start, Player, OtaHandler, SendspinTask, ClosedStreamEnds

(* A history that records no accident has never recorded one. *)
LEMMA InStepBefore ==
  ASSUME TypeInv, [Next]_vars, inStep'
  PROVE  inStep
BY DEF TypeInv, TypeOK, Next, vars, Start, StartPlayback, TakeLock, Stopped,
       NotStopped, ChooseOutput, BeginOverlay, Claim, ClaimGranted, ClaimTimeout,
       Arm, CreateTask, StartFailed, Player, Run, Open, EndSession, MarkFinished,
       ClearPlaying, ReleaseSpeaker, StopPlayback, OtaUrl, OtaHandler, OtaClaim,
       OtaClaimed, OtaStart, OtaFail, OtaFailed, StreamStart, SendspinTask,
       StreamBegin, StreamBegun, Poll, ClosedStreamEnds, StreamEnd

(* The initial state satisfies the invariant. *)
LEMMA InitInv ==
  ASSUME Init
  PROVE  Inv
<1> USE OwnershipAssumption DEF Init
<1>1. TypeInv
  <2>1. pc \in [Callers \cup Players \cup {Sendspin}
                  -> CallerSteps \cup PlayerSteps \cup StreamSteps]
    BY DEF CallerSteps, PlayerSteps, StreamSteps
  <2>2. claims \in 0..TopClaims
    BY DEF TopClaims
  <2>3. TypeOK
    BY <2>1, <2>2 DEF TypeOK, Modes
  <2> QED BY <2>3 DEF TypeInv, CallerSteps, PlayerSteps, StreamSteps
<1>2. LockInv
  BY DEF LockInv, Holding, Chosen, Updating
<1>3. PlayerInv /\ OutputInv /\ SessionInv
  BY DEF PlayerInv, OutputInv, SessionInv, Live, Chosen
<1>4. RoomInv
  BY DEF RoomInv, Waiting, One, TopClaims
<1>5. CountInv
  <2>1. Claiming = {}
    BY DEF Claiming
  <2> QED BY <2>1, FS_EmptySet DEF CountInv, One
<1> QED BY <1>1, <1>2, <1>3, <1>4, <1>5 DEF Inv

(* Every step preserves it. *)
LEMMA StepInv ==
  ASSUME Inv, [Next]_vars
  PROVE  Inv'
<1>1. TypeInv' /\ LockInv'
  BY TypeStep, LockStep DEF Inv
<1>2. ASSUME inStep'
      PROVE  (PlayerInv /\ OutputInv /\ RoomInv /\ CountInv /\ SessionInv)'
  <2>1. inStep /\ TypeInv /\ LockInv
    BY <1>2, InStepBefore DEF Inv
  <2>2. PlayerInv /\ OutputInv /\ RoomInv /\ CountInv /\ SessionInv
    BY <2>1 DEF Inv
  <2> QED BY <1>2, <2>1, <2>2, PlayerStep, OutputStep, RoomStep, CountStep, SessionStep
<1> QED BY <1>1, <1>2 DEF Inv

(* So it always holds. *)
LEMMA Invariant == Spec => []Inv
BY InitInv, StepInv, PTL DEF Spec

-----------------------------------------------------------------------------
(* The state of the speaker stays of its type: the floor of the release    *)
(* and the wrap of the claims keep the counter in its word.                *)
THEOREM TypeCorrect == Spec => []TypeOK
<1>1. Inv => TypeOK
  BY DEF Inv, TypeInv
<1> QED BY <1>1, Invariant, PTL

(* No path of a start, a playback, their failures or an update loses a     *)
(* claim of tater_sendspin_claim_native_audio or gives one back twice,     *)
(* unless inStep has recorded what can do so.                              *)
THEOREM ClaimsAreOwned == Spec => []ClaimsBalance
<1>1. Inv => ClaimsBalance
  <2> SUFFICES ASSUME Inv, inStep PROVE ClaimsBalance
    BY DEF ClaimsBalance
  <2>1. claims = Cardinality(Claiming) + One(mode = "native") + One(ota # "idle")
    BY DEF Inv, CountInv
  <2>2. \A p \in Players : pc[p] # "none" => Live(p) \/ Finishing(p)
    BY DEF Inv, TypeInv, PlayerSteps, Live, Finishing
  <2>3. mode # "none" => \/ \E c \in Callers : pc[c] \in {"arm", "create", "failed"}
                        \/ \E p \in Players : Live(p) \/ Finishing(p)
    BY <2>2 DEF Inv, OutputInv
  <2> QED BY <2>1, <2>3 DEF ClaimsBalance
<1> QED BY <1>1, Invariant, PTL

(* A playback that runs is the one s_task names, with s_playing set.       *)
THEOREM OnePlayback == Spec => []CurrentPlayback
<1>1. Inv => CurrentPlayback
  BY DEF Inv, PlayerInv, CurrentPlayback
<1> QED BY <1>1, Invariant, PTL

(* playback_speaker_end gives the board's session back only when its task  *)
(* holds it.                                                               *)
THEOREM OwnSessionGiven == Spec => GivesOwnSession
<1> DEFINE Step == \A p \in Players :
                     (inStep /\ EndSession(p) /\ mode # "overlay") => session = p
<1>1. Inv => Step
  BY DEF Inv, SessionInv, EndSession, Goto
<1> QED BY <1>1, Invariant, PTL DEF GivesOwnSession

(* What resets s_abort comes of a start that has waited for the playback,  *)
(* or of the end of the playback itself.                                   *)
LEMMA AbortStays ==
  ASSUME Inv, inStep, [Next]_vars, abort, NEW p \in Players, pc[p] = "play"
  PROVE  abort'
<1>1. /\ \A c \in Callers : pc[c] \notin {"arm", "failed"}
      /\ \A q \in Players : pc[q] # "stopped"
  BY DEF Inv, PlayerInv, Chosen
<1>2. ASSUME NEW c \in Callers, StartPlayback(c) \/ Start(c) PROVE abort'
  BY <1>1, <1>2 DEF StartPlayback, Start, TakeLock, Stopped, NotStopped, ChooseOutput,
     BeginOverlay, Claim, ClaimGranted, ClaimTimeout, Arm, CreateTask, StartFailed,
     Goto, playback
<1>3. ASSUME NEW q \in Players, Player(q) \/ EndSession(q) PROVE abort'
  BY <1>1, <1>3 DEF Player, Run, Open, EndSession, MarkFinished, ClearPlaying,
     ReleaseSpeaker, Goto, playback
<1>4. ASSUME StopPlayback \/ OtaUrl(Server) \/ OtaHandler(Server) \/ OtaFail \/ OtaFailed
      PROVE  abort'
  BY <1>4 DEF StopPlayback, OtaUrl, OtaHandler, OtaClaim, OtaClaimed, OtaStart, OtaFail,
     OtaFailed, playback
<1>5. ASSUME StreamStart \/ StreamEnd \/ SendspinTask PROVE abort'
  BY <1>5 DEF StreamStart, StreamEnd, SendspinTask, StreamBegin, StreamBegun, Poll,
     ClosedStreamEnds, playback
<1>6. CASE UNCHANGED vars
  BY <1>6 DEF vars, playback
<1> QED
  BY <1>2, <1>3, <1>4, <1>5, <1>6 DEF Next

(* A stop is not lost to another start, to the end of another playback or  *)
(* to an update: s_abort stands until the playback has ended its output.   *)
THEOREM StopIsKept == Spec => StopKept
<1> DEFINE Kept == \A p \in Players :
                     Stopping(p) => Stopping(p)' \/ pc'[p] # "play" \/ ~inStep'
<1>1. Inv /\ Inv' /\ [Next]_vars => Kept
  <2> SUFFICES ASSUME Inv, Inv', [Next]_vars, NEW p \in Players,
                      Stopping(p), pc'[p] = "play", inStep'
               PROVE  Stopping(p)'
    OBVIOUS
  <2>1. abort'
    BY AbortStays DEF Stopping
  <2>2. task' = p
    BY DEF Inv, PlayerInv, Live
  <2> QED
    BY <2>1, <2>2 DEF Stopping
<1> QED
  BY <1>1, Invariant, PTL DEF Spec, StopKept

-----------------------------------------------------------------------------
(* The turns.                                                              *)

(* What a caller or an update does is nobody's turn. *)
LEMMA CallersTurn ==
  ASSUME TypeInv, LockInv, PlayerInv, NEW c \in Callers, StartPlayback(c) \/ Start(c),
         inStep, inStep'
  PROVE  Turns!Begin \/ UNCHANGED Turns!turns
<1> USE OwnershipAssumption DEF TypeInv, TypeOK, PlayerInv, Started, Sounding
<1>1. ASSUME StartPlayback(c) \/ TakeLock(c) \/ Stopped(c) \/ NotStopped(c) \/ Claim(c)
               \/ ClaimTimeout(c) \/ Arm(c)
      PROVE  UNCHANGED Turns!turns
  <2>1. UNCHANGED <<mode, owned>> /\ \A t \in Players \cup {Sendspin} : pc'[t] = pc[t]
    BY <1>1 DEF StartPlayback, TakeLock, Stopped, NotStopped, Claim, ClaimTimeout, Arm,
       Goto, playback, sendspin
  <2> QED
    BY <2>1 DEF Turns!turns
<1>2. ASSUME ChooseOutput(c) \/ BeginOverlay(c) \/ ClaimGranted(c) \/ StartFailed(c)
      PROVE  UNCHANGED Turns!turns
  <2>1. \A p \in Players : pc[p] = "none"
    BY <1>2 DEF ChooseOutput, BeginOverlay, ClaimGranted, StartFailed, Goto, Chosen
  <2>2. owned' = owned /\ \A t \in Players \cup {Sendspin} : pc'[t] = pc[t]
    BY <1>2 DEF ChooseOutput, BeginOverlay, ClaimGranted, StartFailed, Goto, sendspin
  <2> QED
    BY <2>1, <2>2 DEF Turns!turns
<1>3. CASE CreateTask(c)
  <2>0. \A p \in Players : pc[p] = "none"
    BY <1>3 DEF CreateTask, Chosen
  <2>1. UNCHANGED <<mode, owned, inStep>>
    BY <1>3 DEF CreateTask, sendspin
  <2>2. CASE \E p \in Players : pc' = [pc EXCEPT ![c] = "idle", ![p] = "run"]
    <3>1. PICK p \in Players : pc' = [pc EXCEPT ![c] = "idle", ![p] = "run"]
      BY <2>2
    <3>2. pc'[p] = "run" /\ \A t \in (Players \cup {Sendspin}) \ {p} : pc'[t] = pc[t]
      BY <3>1
    <3> QED
      BY <2>0, <2>1, <3>2 DEF Turns!Begin
  <2>3. CASE pc' = [pc EXCEPT ![c] = "failed"]
    BY <2>0, <2>1, <2>3 DEF Turns!turns
  <2> QED
    BY <1>3, <2>2, <2>3 DEF CreateTask
<1> QED
  BY <1>1, <1>2, <1>3 DEF Start

(* A playback takes the speaker, releases it and is through.               *)
LEMMA PlayersTurn ==
  ASSUME TypeInv, PlayerInv, SessionInv, NEW p \in Players, Player(p) \/ EndSession(p),
         inStep, inStep'
  PROVE  Turns!TurnsNext \/ UNCHANGED Turns!turns
<1> USE OwnershipAssumption DEF TypeInv, TypeOK, PlayerInv, SessionInv, Started, Sounding
<1>0. /\ pc[p] # "none" => \A q \in Players \ {p} : pc[q] = "none"
      /\ owned \/ pc[Sendspin] = "begun" => session = Sendspin
  BY DEF Live
<1>1. CASE Run(p)
  <2>1. UNCHANGED <<mode, owned, inStep>> /\ pc[p] = "run" /\ pc'[p] = "open"
        /\ \A t \in (Players \cup {Sendspin}) \ {p} : pc'[t] = pc[t]
    BY <1>1 DEF Run, Goto, sendspin
  <2> QED
    BY <2>1 DEF Turns!turns
<1>2. CASE Open(p)
  <2>1. UNCHANGED <<mode, owned, inStep>> /\ pc[p] = "open" /\ pc'[p] \in {"play", "finish"}
        /\ \A t \in (Players \cup {Sendspin}) \ {p} : pc'[t] = pc[t]
    BY <1>2 DEF Open, Goto, playback, sendspin
  <2>2. Started' = Started /\ p \in Started
    BY <2>1
  <2>3. CASE pc'[p] = "play" /\ mode # "overlay"
    <3>1. session = None
      BY <1>2, <2>3 DEF Open, Goto
    <3>2. Sounding = {} /\ Sounding' = {p}
      BY <1>0, <2>1, <2>3, <3>1
    <3> QED
      BY <2>1, <2>2, <3>2 DEF Turns!Take, Turns!TurnsNext
  <2>4. CASE pc'[p] = "finish" \/ mode = "overlay"
    <3>1. Sounding' = Sounding
      BY <2>1, <2>4
    <3> QED
      BY <2>1, <2>2, <3>1 DEF Turns!turns
  <2> QED
    BY <2>1, <2>3, <2>4
<1>3. CASE EndSession(p)
  <2>1. UNCHANGED <<owned, inStep>> /\ pc[p] = "play" /\ pc'[p] = "finish"
        /\ \A t \in (Players \cup {Sendspin}) \ {p} : pc'[t] = pc[t]
    BY <1>3 DEF EndSession, Goto
  <2>2. Started' = Started
    BY <2>1
  <2>3. CASE mode = "overlay"
    <3>1. Sounding' = Sounding
      BY <1>0, <2>1, <2>3
    <3> QED
      BY <2>1, <2>2, <3>1 DEF Turns!turns
  <2>4. CASE mode # "overlay"
    <3>1. Sounding = {p} /\ Sounding' = {}
      BY <1>0, <2>1, <2>4
    <3> QED
      BY <2>1, <2>2, <3>1 DEF Turns!Release, Turns!TurnsNext
  <2> QED
    BY <2>3, <2>4
<1>4. CASE MarkFinished(p)
  <2>1. UNCHANGED <<mode, owned, inStep>> /\ pc[p] = "finish" /\ pc'[p] = "unassigned"
        /\ \A t \in (Players \cup {Sendspin}) \ {p} : pc'[t] = pc[t]
    BY <1>4 DEF MarkFinished, Goto, sendspin, Live
  <2> QED
    BY <2>1 DEF Turns!turns
<1>5. CASE ClearPlaying(p)
  <2>1. UNCHANGED <<mode, owned, inStep>> /\ pc[p] = "unassigned" /\ pc'[p] = "stopped"
        /\ \A t \in (Players \cup {Sendspin}) \ {p} : pc'[t] = pc[t]
    BY <1>5 DEF ClearPlaying, Goto, sendspin
  <2> QED
    BY <2>1 DEF Turns!turns
<1>6. CASE ReleaseSpeaker(p)
  <2>1. UNCHANGED <<owned, inStep>> /\ pc[p] = "stopped" /\ pc'[p] = "none"
        /\ \A t \in (Players \cup {Sendspin}) \ {p} : pc'[t] = pc[t]
    BY <1>6 DEF ReleaseSpeaker, Goto
  <2>2. Started = {p} /\ Started' = {}
    BY <1>0, <2>1
  <2>3. Sounding' = Sounding /\ p \notin Sounding
    BY <1>0, <2>1
  <2> QED
    BY <2>1, <2>2, <2>3 DEF Turns!Finish, Turns!TurnsNext
<1> QED
  BY <1>1, <1>2, <1>3, <1>4, <1>5, <1>6 DEF Player

(* So does Sendspin. *)
LEMMA SendspinsTurn ==
  ASSUME TypeInv, SessionInv, StreamStart \/ StreamEnd \/ SendspinTask, inStep, inStep'
  PROVE  Turns!TurnsNext \/ UNCHANGED Turns!turns
<1> USE OwnershipAssumption DEF TypeInv, TypeOK, SessionInv, Started, Sounding
<1>1. UNCHANGED <<mode, inStep>> /\ \A p \in Players : pc'[p] = pc[p]
  BY DEF StreamStart, StreamEnd, SendspinTask, StreamBegin, StreamBegun, Poll,
     ClosedStreamEnds, Goto, playback
<1>2. Started' = Started
  BY <1>1
<1>3. CASE StreamStart \/ Poll
  <2>1. owned' = owned /\ (pc'[Sendspin] = "begun" <=> pc[Sendspin] = "begun")
    BY <1>3 DEF StreamStart, Poll, Goto
  <2> QED
    BY <1>1, <1>2, <2>1 DEF Turns!turns
<1>4. CASE StreamBegin
  <2>1. owned' = owned /\ pc[Sendspin] = "begin" /\ ~owned
    BY <1>4 DEF StreamBegin, Goto
  <2>2. CASE pc'[Sendspin] = "begun"
    <3>1. session = None
      BY <1>4, <2>2 DEF StreamBegin, Goto
    <3>2. Sounding = {} /\ Sounding' = {Sendspin}
      BY <1>1, <2>1, <2>2, <3>1
    <3> QED
      BY <1>1, <1>2, <3>2 DEF Turns!Take, Turns!TurnsNext
  <2>3. CASE pc'[Sendspin] = "loop"
    <3>1. Sounding' = Sounding
      BY <1>1, <2>1, <2>3
    <3> QED
      BY <1>1, <1>2, <3>1 DEF Turns!turns
  <2> QED
    BY <1>4, <2>2, <2>3 DEF StreamBegin, Goto
<1>5. CASE StreamBegun
  <2>1. pc[Sendspin] = "begun" /\ pc'[Sendspin] = "loop" /\ ~owned
    BY <1>5 DEF StreamBegun, Goto
  <2>2. session = Sendspin /\ Sounding = {Sendspin}
    BY <2>1
  <2>3. Sounding' \in {{}, {Sendspin}}
    BY <1>1, <2>1, <2>2
  <2> QED
    BY <1>1, <1>2, <2>2, <2>3 DEF Turns!Release, Turns!TurnsNext, Turns!turns
<1>6. CASE StreamEnd
  <2>1. ~owned' /\ pc[Sendspin] = "loop" /\ pc'[Sendspin] = "loop"
    BY <1>6 DEF StreamEnd
  <2>2. CASE owned
    <3>1. Sounding = {Sendspin} /\ Sounding' = {}
      BY <1>1, <2>1, <2>2
    <3> QED
      BY <1>1, <1>2, <3>1 DEF Turns!Release, Turns!TurnsNext
  <2>3. CASE ~owned
    <3>1. Sounding' = Sounding
      BY <1>1, <2>1, <2>3
    <3> QED
      BY <1>1, <1>2, <3>1 DEF Turns!turns
  <2> QED
    BY <2>2, <2>3
<1> QED
  BY <1>3, <1>4, <1>5, <1>6 DEF SendspinTask, ClosedStreamEnds

(* main/playback.c, main/sendspin_player.cpp: playbacks take turns, one    *)
(* task sounds at a time, and nobody sounds before the other has released  *)
(* the speaker, for any number of callers and playback tasks and until a   *)
(* start overtakes the end of a playback.                                  *)
THEOREM SpeakerTakesTurns == Spec => TakesTurns
<1>1. Init => Turns!TurnsInit
  <2> SUFFICES ASSUME Init PROVE Turns!TurnsInit
    OBVIOUS
  <2>1. Started = {} /\ Sounding = {} /\ inStep = TRUE
    BY OwnershipAssumption DEF Init, Started, Sounding
  <2> QED
    BY <2>1 DEF Turns!TurnsInit
<1>2. Inv /\ Inv' /\ [Next]_vars => Turns!TurnsNext \/ UNCHANGED Turns!turns
  <2> SUFFICES ASSUME Inv, Inv', [Next]_vars
               PROVE  Turns!TurnsNext \/ UNCHANGED Turns!turns
    OBVIOUS
  <2>1. CASE ~inStep'
    <3>1. inStep' = FALSE
      BY <2>1 DEF Inv, TypeInv, TypeOK
    <3>2. Started' \subseteq Players /\ Sounding' \subseteq Players \cup {Sendspin}
      BY DEF Started, Sounding
    <3> QED
      BY <3>1, <3>2 DEF Turns!FallOut, Turns!TurnsNext
  <2>2. CASE inStep'
    <3>1. inStep
      BY <2>2, InStepBefore DEF Inv
    <3>2. TypeInv /\ LockInv /\ PlayerInv /\ SessionInv
      BY <3>1 DEF Inv
    <3>3. ASSUME NEW c \in Callers, StartPlayback(c) \/ Start(c)
          PROVE  Turns!TurnsNext \/ UNCHANGED Turns!turns
      BY <2>2, <3>1, <3>2, <3>3, CallersTurn DEF Turns!TurnsNext
    <3>4. ASSUME NEW p \in Players, Player(p) \/ EndSession(p)
          PROVE  Turns!TurnsNext \/ UNCHANGED Turns!turns
      BY <2>2, <3>1, <3>2, <3>4, PlayersTurn
    <3>5. CASE StreamStart \/ StreamEnd \/ SendspinTask
      BY <2>2, <3>1, <3>2, <3>5, SendspinsTurn
    <3>6. CASE StopPlayback \/ OtaUrl(Server) \/ OtaHandler(Server) \/ OtaFail \/ OtaFailed
      <4>1. UNCHANGED <<mode, owned>> /\ \A t \in Players \cup {Sendspin} : pc'[t] = pc[t]
        BY <3>2, <3>6, OwnershipAssumption DEF StopPlayback, OtaUrl, OtaHandler, OtaClaim,
           OtaClaimed, OtaStart, OtaFail, OtaFailed, Goto, playback, sendspin, TypeInv, TypeOK
      <4>2. inStep' = inStep
        BY <2>2, <3>1, <3>2 DEF Inv, TypeInv, TypeOK
      <4> QED
        BY <4>1, <4>2 DEF Turns!turns, Started, Sounding
    <3>7. CASE UNCHANGED vars
      BY <3>7 DEF vars, playback, sendspin, Turns!turns, Started, Sounding
    <3> QED
      BY <3>3, <3>4, <3>5, <3>6, <3>7 DEF Next
  <2> QED
    BY <2>1, <2>2
<1> QED
  BY <1>1, <1>2, Invariant, PTL DEF Spec, TakesTurns, Turns!TurnsSpec

=============================================================================
