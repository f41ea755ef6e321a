----------------------------- MODULE ScreenProofs -----------------------------
(***************************************************************************)
(* Theorems about the screens of the PWA, whatever the person does and     *)
(* however late the workers answer: the updates that work holds back       *)
(* (ReloadHold), the screen of one document (SignScreen), the screen of a  *)
(* batch (BatchReview) and the archive of a signed batch (BatchZip).       *)
(***************************************************************************)
EXTENDS BatchReview, SignScreen, ReloadHold, BatchZip, FiniteSetTheorems, SequenceTheorems,
        WellFoundedInduction, TLAPS

-----------------------------------------------------------------------------
(* Updates of the page.                                                    *)

ReloadIInv ==
  /\ ReloadInv
  /\ holds \in Nat /\ working \in BOOLEAN /\ robbed \in BOOLEAN
  /\ screen = "other" => ~working

LEMMA ReloadInitIInv == ReloadInit => ReloadIInv
<1> SUFFICES ASSUME ReloadInit PROVE ReloadIInv
  OBVIOUS
<1>1. applying = "no" /\ reloaded = "no" /\ late \in 0..MaxLate /\ holds = 0 /\ ~working /\ ~robbed
  BY ReloadAssumption DEF ReloadInit
<1>2. working \in BOOLEAN /\ robbed \in BOOLEAN
  BY DEF ReloadInit
<1>3. HoldsMatchWork
  BY <1>1 DEF HoldsMatchWork, Work
<1> QED
  BY <1>1, <1>2, <1>3 DEF ReloadIInv, ReloadInv, ReloadSparesWork

LEMMA ReloadStep == ReloadIInv /\ [ReloadNext]_reloadVars => ReloadIInv'
<1> SUFFICES ASSUME ReloadIInv, [ReloadNext]_reloadVars PROVE ReloadIInv'
  OBVIOUS
<1> USE ReloadAssumption DEF ReloadIInv, ReloadInv, HoldsMatchWork, ReloadSparesWork, Work,
      Release, Held
\* The service worker: it reloads a page that nobody holds, and that has no work
\* but what was robbed of its hold.
<1>1. CASE reloaded = "no" /\ ControllerChange
  BY <1>1 DEF ControllerChange
<1>2. CASE reloaded = "no" /\ ApplyUpdate
  BY <1>2 DEF ApplyUpdate
<1>3. CASE reloaded = "no" /\ FallbackReload
  BY <1>3 DEF FallbackReload
<1>4. CASE reloaded = "no" /\ ReloadOnUserRequest
  BY <1>4 DEF ReloadOnUserRequest
\* The screens: one hold for one piece of work.
<1>5. CASE reloaded = "no" /\ \E s \in {"single", "batch"} : Open(s)
  BY <1>5 DEF Open, updateVars
<1>6. CASE reloaded = "no" /\ Begin
  BY <1>6 DEF Begin, updateVars
<1>7. CASE reloaded = "no" /\ (Replace \/ End)
  <2>1. CASE Replace
    BY <1>7, <2>1 DEF Replace, updateVars
  <2>2. CASE End
    <3>1. working /\ ~working' /\ holds' = Release(holds) /\ robbed' = robbed
      BY <2>2 DEF End
    <3>2. working' \in BOOLEAN /\ robbed' \in BOOLEAN
      BY <2>2 DEF End
    <3>3. holds' \in Nat /\ HoldsMatchWork'
      BY <3>1
    <3> QED
      BY <1>7, <2>2, <3>1, <3>2, <3>3 DEF End, updateVars
  <2> QED
    BY <1>7, <2>1, <2>2
<1>10. CASE reloaded = "no" /\ Leave
  <2>1. ~working' /\ screen' = "other" /\ holds' = (IF working THEN Release(holds) ELSE holds)
        /\ robbed' = robbed
    BY <1>10 DEF Leave
  <2>2. working' \in BOOLEAN /\ robbed' \in BOOLEAN
    BY <1>10 DEF Leave
  <2>3. holds' \in Nat /\ HoldsMatchWork'
    BY <2>1
  <2>4. late' \in 0..MaxLate /\ UNCHANGED updateVars
    BY <1>10 DEF Leave
  <2> QED
    BY <1>10, <2>1, <2>2, <2>3, <2>4 DEF updateVars
<1>8. CASE reloaded = "no" /\ LateEnd
  BY <1>8 DEF LateEnd, updateVars
<1>9. CASE UNCHANGED reloadVars
  BY <1>9 DEF reloadVars, updateVars
<1> QED
  BY <1>1, <1>2, <1>3, <1>4, <1>5, <1>6, <1>7, <1>8, <1>9, <1>10 DEF ReloadNext

\* swUpdate.svelte.ts: however the deploys, the fallback timer, the screens and the
\* batches left behind interleave, no hold outlives its work, and a deploy reloads
\* no page with work in it, unless a batch left behind released the work's hold.
THEOREM ReloadInvariance == ReloadSpec => []ReloadInv
<1>1. ReloadIInv => ReloadInv
  BY DEF ReloadIInv
<1> QED
  BY <1>1, ReloadInitIInv, ReloadStep, PTL DEF ReloadSpec

-----------------------------------------------------------------------------
(* The screen of one document.                                             *)

Numbers ==
  /\ at \in 1..6 /\ pdf \in 0..MaxFiles /\ chosen \in 0..MaxFiles /\ loads \subseteq 1..chosen
  /\ liveAnalysis \in 0..MaxFiles /\ signCall \in 0..MaxFiles /\ signed \in 0..MaxFiles
  /\ placementRun \in Nat /\ again \in 0..MaxAgain

Records ==
  /\ box \in [by : {"nobody", "person", "engine", "beside", "centre"}, of : 0..MaxFiles]
  /\ engine \in [Files -> [run : 0..placementRun, live : BOOLEAN]]

Flags ==
  /\ guided \in BOOLEAN /\ prior \in BOOLEAN /\ hidden \in BOOLEAN
  /\ autoDefault \in BOOLEAN /\ enginePending \in BOOLEAN
  /\ scanDue \in BOOLEAN /\ scanSeen \in BOOLEAN /\ pendingScan \in BOOLEAN /\ pfx \in BOOLEAN
  /\ password \in BOOLEAN /\ parsed \in BOOLEAN /\ pinValidating \in BOOLEAN /\ pinCall \in BOOLEAN
  /\ signingNow \in BOOLEAN

LEMMA ScreenTypes ==
  /\ Numbers /\ Records /\ Flags => SignTypeOK
  /\ Numbers' /\ Records' /\ Flags' => SignTypeOK'
<1> USE DEF Numbers, Records, Flags
<1>1. Numbers /\ Records /\ Flags => SignTypeOK
  BY DEF SignTypeOK
<1>2. Numbers' /\ Records' /\ Flags' => SignTypeOK'
  BY DEF SignTypeOK
<1> QED
  BY <1>1, <1>2

\* The analysis that is not superseded is of the document on screen, if there is one.
AnswerIsForThisDocument ==
  \A f \in Files : engine[f].run # 0 /\ engine[f].run = placementRun => pdf \in {0, f}

\* While the engine decides, no default is put in the centre.
CentreWaits == enginePending => ~autoDefault

SignIInv == SignInv /\ Numbers /\ Records /\ Flags /\ AnswerIsForThisDocument /\ CentreWaits

\* Terminating the analysis that lives leaves none alive, and every run as it was.
LEMMA StoppedIsOver ==
  ASSUME SignIInv
  PROVE  /\ Stopped \in [Files -> [run : 0..placementRun, live : BOOLEAN]]
         /\ \A f \in Files : Stopped[f].run = engine[f].run /\ ~Stopped[f].live
<1> USE DEF SignIInv, SignInv, Numbers, Records, OneLiveAnalysis
<1>1. CASE liveAnalysis = 0
  BY <1>1 DEF Stopped, Files
<1>2. CASE liveAnalysis # 0
  <2>1. liveAnalysis \in Files /\ Stopped = [engine EXCEPT ![liveAnalysis].live = FALSE]
    BY <1>2, ScreenAssumption DEF Stopped, Terminated, Files
  <2> QED
    BY <2>1
<1> QED
  BY <1>1, <1>2

LEMMA SignInitIInv == SignInit => SignIInv
<1> SUFFICES ASSUME SignInit PROVE SignIInv
  OBVIOUS
<1> USE ScreenAssumption DEF SignInit, NoBox, NoAnalysis, Files
<1>1. Numbers /\ Records
  BY DEF Numbers, Records
<1>2. Flags
  BY DEF Flags
<1>3. OneLiveAnalysis /\ LockHasOwner /\ PasswordIsDropped /\ BoxIsOfThisDocument
      /\ AnswerIsForThisDocument /\ CentreWaits
  BY DEF OneLiveAnalysis, LockHasOwner, PasswordIsDropped, BoxIsOfThisDocument,
    AnswerIsForThisDocument, CentreWaits
<1> QED
  BY <1>1, <1>2, <1>3, ScreenTypes DEF SignIInv, SignInv

\* A file is picked.
LEMMA PickPdfKeeps ==
  ASSUME SignIInv, PickPdf
  PROVE  SignIInv'
<1> USE ScreenAssumption DEF SignIInv, SignInv, PickPdf, Files, NoBox, Box, NoAnalysis, loadVars,
      placeVars,
      engineVars, scanVars, pinVars, callVars
<1>1. Numbers'
  BY DEF Numbers
<1>2. Records'
  BY DEF Numbers, Records
<1>3. Flags'
  <2>1. guided' \in BOOLEAN /\ prior' \in BOOLEAN /\ hidden' \in BOOLEAN
    BY Zenon DEF Flags
  <2>2. autoDefault' \in BOOLEAN /\ enginePending' \in BOOLEAN
    BY Zenon DEF Flags
  <2>3. scanDue' \in BOOLEAN /\ scanSeen' \in BOOLEAN /\ pendingScan' \in BOOLEAN
    BY Zenon DEF Flags
  <2>4. pfx' \in BOOLEAN /\ password' \in BOOLEAN /\ parsed' \in BOOLEAN
    BY Zenon DEF Flags
  <2>5. pinValidating' \in BOOLEAN /\ pinCall' \in BOOLEAN /\ signingNow' \in BOOLEAN
    BY Zenon DEF Flags
  <2> QED
    BY <2>1, <2>2, <2>3, <2>4, <2>5 DEF Flags
<1>4. OneLiveAnalysis' /\ LockHasOwner' /\ AnswerIsForThisDocument'
  BY DEF Numbers, Records, OneLiveAnalysis, LockHasOwner, AnswerIsForThisDocument
<1>5. PasswordIsDropped' /\ BoxIsOfThisDocument' /\ CentreWaits'
  BY DEF Numbers, Records, PasswordIsDropped, BoxIsOfThisDocument, CentreWaits
<1> QED
  BY <1>1, <1>2, <1>3, <1>4, <1>5, ScreenTypes

\* A file cannot be read.
LEMMA ReadFailsKeeps ==
  ASSUME SignIInv, NEW f \in Files, ReadFails(f)
  PROVE  SignIInv'
<1> USE ScreenAssumption DEF SignIInv, SignInv, ReadFails, Files, NoBox, Box, NoAnalysis,
      loadVars, placeVars,
      engineVars, scanVars, pinVars, callVars
<1>1. Numbers'
  BY DEF Numbers
<1>2. Records'
  BY DEF Numbers, Records
<1>3. Flags'
  <2>1. guided' \in BOOLEAN /\ prior' \in BOOLEAN /\ hidden' \in BOOLEAN
    BY Zenon DEF Flags
  <2>2. autoDefault' \in BOOLEAN /\ enginePending' \in BOOLEAN
    BY Zenon DEF Flags
  <2>3. scanDue' \in BOOLEAN /\ scanSeen' \in BOOLEAN /\ pendingScan' \in BOOLEAN
    BY Zenon DEF Flags
  <2>4. pfx' \in BOOLEAN /\ password' \in BOOLEAN /\ parsed' \in BOOLEAN
    BY Zenon DEF Flags
  <2>5. pinValidating' \in BOOLEAN /\ pinCall' \in BOOLEAN /\ signingNow' \in BOOLEAN
    BY Zenon DEF Flags
  <2> QED
    BY <2>1, <2>2, <2>3, <2>4, <2>5 DEF Flags
<1>4. OneLiveAnalysis' /\ LockHasOwner' /\ AnswerIsForThisDocument'
  BY DEF Numbers, Records, OneLiveAnalysis, LockHasOwner, AnswerIsForThisDocument
<1>5. PasswordIsDropped' /\ BoxIsOfThisDocument' /\ CentreWaits'
  BY DEF Numbers, Records, PasswordIsDropped, BoxIsOfThisDocument, CentreWaits
<1> QED
  BY <1>1, <1>2, <1>3, <1>4, <1>5, ScreenTypes

\* A document comes on screen, and the analysis of the one before it is superseded.
LEMMA LoadedKeeps ==
  ASSUME SignIInv, NEW f \in Files, Loaded(f)
  PROVE  SignIInv'
<1> USE ScreenAssumption DEF SignIInv, SignInv, Loaded, Files, NoBox, Box, NoAnalysis, loadVars,
      placeVars,
      engineVars, scanVars, pinVars, callVars
<1>0. /\ Stopped \in [Files -> [run : 0..placementRun, live : BOOLEAN]]
      /\ \A g \in Files : Stopped[g].run = engine[g].run /\ ~Stopped[g].live
  BY StoppedIsOver
<1>1. Numbers'
  BY DEF Numbers
<1>2. Records'
  <2>1. placementRun' \in Nat /\ placementRun' = placementRun + 1
    BY DEF Numbers
  <2>2. Stopped \in [Files -> [run : 0..placementRun', live : BOOLEAN]]
    BY <1>0, <2>1 DEF Numbers
  <2>3. [run |-> placementRun', live |-> TRUE] \in [run : 0..placementRun', live : BOOLEAN]
    BY <2>1
  <2>4. engine' \in [Files -> [run : 0..placementRun', live : BOOLEAN]]
    BY <2>2, <2>3
  <2> QED
    BY <2>4 DEF Records
<1>3. Flags'
  <2>1. guided' \in BOOLEAN /\ prior' \in BOOLEAN /\ hidden' \in BOOLEAN
    BY Zenon DEF Flags
  <2>2. autoDefault' \in BOOLEAN /\ enginePending' \in BOOLEAN
    BY Zenon DEF Flags
  <2>3. scanDue' \in BOOLEAN /\ scanSeen' \in BOOLEAN /\ pendingScan' \in BOOLEAN
    BY Zenon DEF Flags
  <2>4. pfx' \in BOOLEAN /\ password' \in BOOLEAN /\ parsed' \in BOOLEAN
    BY Zenon DEF Flags
  <2>5. pinValidating' \in BOOLEAN /\ pinCall' \in BOOLEAN /\ signingNow' \in BOOLEAN
    BY Zenon DEF Flags
  <2> QED
    BY <2>1, <2>2, <2>3, <2>4, <2>5 DEF Flags
<1>4. OneLiveAnalysis'
  BY <1>0 DEF Numbers, Records, OneLiveAnalysis
<1>5. LockHasOwner'
  BY <1>0 DEF Numbers, Records, LockHasOwner
<1>6. PasswordIsDropped'
  BY DEF Numbers, Records, PasswordIsDropped
<1>7. BoxIsOfThisDocument'
  BY <1>0 DEF Numbers, Records, BoxIsOfThisDocument
<1>8. AnswerIsForThisDocument'
  BY <1>0 DEF Numbers, Records, AnswerIsForThisDocument
<1>9. CentreWaits'
  BY DEF Numbers, Records, CentreWaits
<1> QED
  BY <1>1, <1>2, <1>3, <1>4, <1>5, <1>6, <1>7, <1>8, <1>9, ScreenTypes

\* An analysis ends, and lands if it is not superseded.
LEMMA EngineEndsKeeps ==
  ASSUME SignIInv, NEW f \in Files, EngineEnds(f)
  PROVE  SignIInv'
<1> USE ScreenAssumption DEF SignIInv, SignInv, EngineEnds, ShowBox, Files, NoBox, Box, NoAnalysis,
      loadVars, placeVars, engineVars, scanVars, pinVars, callVars
<1>1. Numbers'
  BY DEF IsCurrent, BoxAfter, RestoresDefault, Numbers
<1>2. Records'
  BY DEF IsCurrent, BoxAfter, RestoresDefault, Numbers, Records
<1>3. Flags'
  <2>1. pendingScan' \in BOOLEAN
    BY DEF Flags
  <2>2. autoDefault' \in BOOLEAN
    BY DEF Flags, RestoresDefault
  <2>3. enginePending' \in BOOLEAN
    BY DEF Flags
  <2> QED
    BY <2>1, <2>2, <2>3 DEF Flags
<1>4. OneLiveAnalysis'
  BY DEF IsCurrent, BoxAfter, RestoresDefault, Numbers, Records, OneLiveAnalysis
<1>5. LockHasOwner'
  BY DEF IsCurrent, BoxAfter, RestoresDefault, Numbers, Records, LockHasOwner
<1>6. PasswordIsDropped'
  BY DEF IsCurrent, BoxAfter, RestoresDefault, Numbers, Records, PasswordIsDropped
<1>7. BoxIsOfThisDocument'
  <2>1. CASE engine[f].run = placementRun
    <3>1. pdf' = pdf /\ pdf \in {0, f}
      BY <2>1 DEF AnswerIsForThisDocument
    <3>2. box' = box \/ box' = NoBox \/ box'.of = f
      BY <2>1 DEF IsCurrent, BoxAfter
    <3> QED
      BY <3>1, <3>2 DEF BoxIsOfThisDocument
  <2>2. CASE engine[f].run # placementRun
    BY <2>2 DEF IsCurrent, BoxIsOfThisDocument
  <2> QED
    BY <2>1, <2>2
<1>8. AnswerIsForThisDocument'
  BY DEF IsCurrent, BoxAfter, RestoresDefault, Numbers, Records, AnswerIsForThisDocument
<1>9. CentreWaits'
  BY DEF IsCurrent, BoxAfter, RestoresDefault, Numbers, Records, CentreWaits
<1> QED
  BY <1>1, <1>2, <1>3, <1>4, <1>5, <1>6, <1>7, <1>8, <1>9, ScreenTypes

\* The scan comes after the engine.
LEMMA SignaturesScannedKeeps ==
  ASSUME SignIInv, SignaturesScanned
  PROVE  SignIInv'
<1> USE ScreenAssumption DEF SignIInv, SignInv, SignaturesScanned, ShowBox, Files, NoBox, Box,
      NoAnalysis,
      loadVars, placeVars, engineVars, scanVars, pinVars, callVars
<1>1. Numbers'
  BY DEF Numbers
<1>2. Records'
  BY DEF Numbers, Records
<1>3. Flags'
  <2>1. guided' \in BOOLEAN /\ prior' \in BOOLEAN /\ hidden' \in BOOLEAN
    BY Zenon DEF Flags
  <2>2. autoDefault' \in BOOLEAN /\ enginePending' \in BOOLEAN
    BY Zenon DEF Flags
  <2>3. scanDue' \in BOOLEAN /\ scanSeen' \in BOOLEAN /\ pendingScan' \in BOOLEAN
    BY Zenon DEF Flags
  <2>4. pfx' \in BOOLEAN /\ password' \in BOOLEAN /\ parsed' \in BOOLEAN
    BY Zenon DEF Flags
  <2>5. pinValidating' \in BOOLEAN /\ pinCall' \in BOOLEAN /\ signingNow' \in BOOLEAN
    BY Zenon DEF Flags
  <2> QED
    BY <2>1, <2>2, <2>3, <2>4, <2>5 DEF Flags
<1>4. OneLiveAnalysis' /\ LockHasOwner' /\ AnswerIsForThisDocument'
  BY DEF Numbers, Records, OneLiveAnalysis, LockHasOwner, AnswerIsForThisDocument
<1>5. PasswordIsDropped' /\ BoxIsOfThisDocument' /\ CentreWaits'
  BY DEF Numbers, Records, PasswordIsDropped, BoxIsOfThisDocument, CentreWaits
<1> QED
  BY <1>1, <1>2, <1>3, <1>4, <1>5, ScreenTypes

\* The centre comes last.
LEMMA PlaceDefaultKeeps ==
  ASSUME SignIInv, PlaceDefault
  PROVE  SignIInv'
<1> USE ScreenAssumption DEF SignIInv, SignInv, PlaceDefault, ShowsNoBox, Files, NoBox, Box,
      NoAnalysis,
      loadVars, placeVars, engineVars, scanVars, pinVars, callVars
<1>1. Numbers'
  BY DEF Numbers
<1>2. Records'
  BY DEF Numbers, Records
<1>3. Flags'
  <2>1. guided' \in BOOLEAN /\ prior' \in BOOLEAN /\ hidden' \in BOOLEAN
    BY Zenon DEF Flags
  <2>2. autoDefault' \in BOOLEAN /\ enginePending' \in BOOLEAN
    BY Zenon DEF Flags
  <2>3. scanDue' \in BOOLEAN /\ scanSeen' \in BOOLEAN /\ pendingScan' \in BOOLEAN
    BY Zenon DEF Flags
  <2>4. pfx' \in BOOLEAN /\ password' \in BOOLEAN /\ parsed' \in BOOLEAN
    BY Zenon DEF Flags
  <2>5. pinValidating' \in BOOLEAN /\ pinCall' \in BOOLEAN /\ signingNow' \in BOOLEAN
    BY Zenon DEF Flags
  <2> QED
    BY <2>1, <2>2, <2>3, <2>4, <2>5 DEF Flags
<1>4. OneLiveAnalysis' /\ LockHasOwner' /\ AnswerIsForThisDocument'
  BY DEF Numbers, Records, OneLiveAnalysis, LockHasOwner, AnswerIsForThisDocument
<1>5. PasswordIsDropped' /\ BoxIsOfThisDocument' /\ CentreWaits'
  BY DEF Numbers, Records, PasswordIsDropped, BoxIsOfThisDocument, CentreWaits
<1> QED
  BY <1>1, <1>2, <1>3, <1>4, <1>5, ScreenTypes

\* The page is turned.
LEMMA TurnPageKeeps ==
  ASSUME SignIInv, TurnPage
  PROVE  SignIInv'
<1> USE ScreenAssumption DEF SignIInv, SignInv, TurnPage, Files, loadVars, engineVars, scanVars,
      pinVars, callVars
<1>1. Numbers'
  BY DEF Numbers
<1>2. Records'
  BY DEF Numbers, Records
<1>3. Flags'
  <2>1. guided' \in BOOLEAN /\ prior' \in BOOLEAN /\ hidden' \in BOOLEAN
    BY Zenon DEF Flags
  <2>2. autoDefault' \in BOOLEAN /\ enginePending' \in BOOLEAN
    BY Zenon DEF Flags
  <2>3. scanDue' \in BOOLEAN /\ scanSeen' \in BOOLEAN /\ pendingScan' \in BOOLEAN
    BY Zenon DEF Flags
  <2>4. pfx' \in BOOLEAN /\ password' \in BOOLEAN /\ parsed' \in BOOLEAN
    BY Zenon DEF Flags
  <2>5. pinValidating' \in BOOLEAN /\ pinCall' \in BOOLEAN /\ signingNow' \in BOOLEAN
    BY Zenon DEF Flags
  <2> QED
    BY <2>1, <2>2, <2>3, <2>4, <2>5 DEF Flags
<1>4. OneLiveAnalysis' /\ LockHasOwner' /\ AnswerIsForThisDocument'
  BY DEF Numbers, Records, OneLiveAnalysis, LockHasOwner, AnswerIsForThisDocument
<1>5. PasswordIsDropped' /\ BoxIsOfThisDocument' /\ CentreWaits'
  BY DEF Numbers, Records, PasswordIsDropped, BoxIsOfThisDocument, CentreWaits
<1> QED
  BY <1>1, <1>2, <1>3, <1>4, <1>5, ScreenTypes

\* The person comes first.
LEMMA PersonPlacesKeeps ==
  ASSUME SignIInv, PersonPlaces
  PROVE  SignIInv'
<1> USE ScreenAssumption DEF SignIInv, SignInv, PersonPlaces, Files, NoBox, Box, NoAnalysis,
      loadVars, placeVars, engineVars, scanVars, pinVars, callVars
<1>1. Numbers'
  BY DEF Numbers
<1>2. Records'
  BY DEF Numbers, Records
<1>3. Flags'
  <2>1. guided' \in BOOLEAN /\ prior' \in BOOLEAN /\ hidden' \in BOOLEAN
    BY Zenon DEF Flags
  <2>2. autoDefault' \in BOOLEAN /\ enginePending' \in BOOLEAN
    BY Zenon DEF Flags
  <2>3. scanDue' \in BOOLEAN /\ scanSeen' \in BOOLEAN /\ pendingScan' \in BOOLEAN
    BY Zenon DEF Flags
  <2>4. pfx' \in BOOLEAN /\ password' \in BOOLEAN /\ parsed' \in BOOLEAN
    BY Zenon DEF Flags
  <2>5. pinValidating' \in BOOLEAN /\ pinCall' \in BOOLEAN /\ signingNow' \in BOOLEAN
    BY Zenon DEF Flags
  <2> QED
    BY <2>1, <2>2, <2>3, <2>4, <2>5 DEF Flags
<1>4. OneLiveAnalysis' /\ LockHasOwner' /\ AnswerIsForThisDocument'
  BY DEF Numbers, Records, OneLiveAnalysis, LockHasOwner, AnswerIsForThisDocument
<1>5. PasswordIsDropped' /\ BoxIsOfThisDocument' /\ CentreWaits'
  BY DEF Numbers, Records, PasswordIsDropped, BoxIsOfThisDocument, CentreWaits
<1> QED
  BY <1>1, <1>2, <1>3, <1>4, <1>5, ScreenTypes

\* The certificate's worker answers.
LEMMA PinCheckedKeeps ==
  ASSUME SignIInv, PinChecked
  PROVE  SignIInv'
<1> USE ScreenAssumption DEF SignIInv, SignInv, PinChecked, Files, NoBox, Box, NoAnalysis,
      loadVars, placeVars, engineVars, scanVars, pinVars, callVars
<1>1. Numbers'
  BY DEF Numbers
<1>2. Records'
  BY DEF Numbers, Records
<1>3. Flags'
  <2>1. guided' \in BOOLEAN /\ prior' \in BOOLEAN /\ hidden' \in BOOLEAN
    BY Zenon DEF Flags
  <2>2. autoDefault' \in BOOLEAN /\ enginePending' \in BOOLEAN
    BY Zenon DEF Flags
  <2>3. scanDue' \in BOOLEAN /\ scanSeen' \in BOOLEAN /\ pendingScan' \in BOOLEAN
    BY Zenon DEF Flags
  <2>4. pfx' \in BOOLEAN /\ password' \in BOOLEAN /\ parsed' \in BOOLEAN
    BY Zenon DEF Flags
  <2>5. pinValidating' \in BOOLEAN /\ pinCall' \in BOOLEAN /\ signingNow' \in BOOLEAN
    BY Zenon DEF Flags
  <2> QED
    BY <2>1, <2>2, <2>3, <2>4, <2>5 DEF Flags
<1>4. OneLiveAnalysis' /\ LockHasOwner' /\ AnswerIsForThisDocument'
  BY DEF Numbers, Records, OneLiveAnalysis, LockHasOwner, AnswerIsForThisDocument
<1>5. PasswordIsDropped' /\ BoxIsOfThisDocument' /\ CentreWaits'
  BY DEF Numbers, Records, PasswordIsDropped, BoxIsOfThisDocument, CentreWaits
<1> QED
  BY <1>1, <1>2, <1>3, <1>4, <1>5, ScreenTypes

\* The signer answers.
LEMMA SignEndsKeeps ==
  ASSUME SignIInv, SignEnds
  PROVE  SignIInv'
<1> USE ScreenAssumption DEF SignIInv, SignInv, SignEnds, Files, NoBox, Box, NoAnalysis,
      loadVars, placeVars,
      engineVars, scanVars, pinVars, callVars
<1>1. Numbers'
  BY DEF Numbers
<1>2. Records'
  BY DEF Numbers, Records
<1>3. Flags'
  <2>1. guided' \in BOOLEAN /\ prior' \in BOOLEAN /\ hidden' \in BOOLEAN
    BY Zenon DEF Flags
  <2>2. autoDefault' \in BOOLEAN /\ enginePending' \in BOOLEAN
    BY Zenon DEF Flags
  <2>3. scanDue' \in BOOLEAN /\ scanSeen' \in BOOLEAN /\ pendingScan' \in BOOLEAN
    BY Zenon DEF Flags
  <2>4. pfx' \in BOOLEAN /\ password' \in BOOLEAN /\ parsed' \in BOOLEAN
    BY Zenon DEF Flags
  <2>5. pinValidating' \in BOOLEAN /\ pinCall' \in BOOLEAN /\ signingNow' \in BOOLEAN
    BY Zenon DEF Flags
  <2> QED
    BY <2>1, <2>2, <2>3, <2>4, <2>5 DEF Flags
<1>4. OneLiveAnalysis' /\ LockHasOwner' /\ AnswerIsForThisDocument'
  BY DEF Numbers, Records, OneLiveAnalysis, LockHasOwner, AnswerIsForThisDocument
<1>5. PasswordIsDropped' /\ BoxIsOfThisDocument' /\ CentreWaits'
  BY DEF Numbers, Records, PasswordIsDropped, BoxIsOfThisDocument, CentreWaits
<1> QED
  BY <1>1, <1>2, <1>3, <1>4, <1>5, ScreenTypes

\* Back.
LEMMA OnBackKeeps ==
  ASSUME SignIInv, OnBack
  PROVE  SignIInv'
<1> USE ScreenAssumption DEF SignIInv, SignInv, OnBack, Files, NoBox, Box, NoAnalysis, loadVars,
      placeVars,
      engineVars, scanVars, pinVars, callVars
<1>1. Numbers'
  BY DEF Numbers
<1>2. Records'
  BY DEF Numbers, Records
<1>3. Flags'
  <2>1. guided' \in BOOLEAN /\ prior' \in BOOLEAN /\ hidden' \in BOOLEAN
    BY Zenon DEF Flags
  <2>2. autoDefault' \in BOOLEAN /\ enginePending' \in BOOLEAN
    BY Zenon DEF Flags
  <2>3. scanDue' \in BOOLEAN /\ scanSeen' \in BOOLEAN /\ pendingScan' \in BOOLEAN
    BY Zenon DEF Flags
  <2>4. pfx' \in BOOLEAN /\ password' \in BOOLEAN /\ parsed' \in BOOLEAN
    BY Zenon DEF Flags
  <2>5. pinValidating' \in BOOLEAN /\ pinCall' \in BOOLEAN /\ signingNow' \in BOOLEAN
    BY Zenon DEF Flags
  <2> QED
    BY <2>1, <2>2, <2>3, <2>4, <2>5 DEF Flags
<1>4. OneLiveAnalysis' /\ LockHasOwner' /\ AnswerIsForThisDocument'
  BY DEF Numbers, Records, OneLiveAnalysis, LockHasOwner, AnswerIsForThisDocument
<1>5. PasswordIsDropped' /\ BoxIsOfThisDocument' /\ CentreWaits'
  BY DEF Numbers, Records, PasswordIsDropped, BoxIsOfThisDocument, CentreWaits
<1> QED
  BY <1>1, <1>2, <1>3, <1>4, <1>5, ScreenTypes

\* Another document is going to be signed.
LEMMA SignAgainKeeps ==
  ASSUME SignIInv, SignAgain
  PROVE  SignIInv'
<1> USE ScreenAssumption DEF SignIInv, SignInv, SignAgain, Files, NoBox, Box, NoAnalysis,
      loadVars, placeVars,
      engineVars, scanVars, pinVars, callVars
<1>0. /\ Stopped \in [Files -> [run : 0..placementRun, live : BOOLEAN]]
      /\ \A g \in Files : Stopped[g].run = engine[g].run /\ ~Stopped[g].live
  BY StoppedIsOver
<1>1. Numbers'
  BY DEF Numbers
<1>2. Records'
  BY <1>0 DEF Numbers, Records
<1>3. Flags'
  <2>1. guided' \in BOOLEAN /\ prior' \in BOOLEAN /\ hidden' \in BOOLEAN
    BY Zenon DEF Flags
  <2>2. autoDefault' \in BOOLEAN /\ enginePending' \in BOOLEAN
    BY Zenon DEF Flags
  <2>3. scanDue' \in BOOLEAN /\ scanSeen' \in BOOLEAN /\ pendingScan' \in BOOLEAN
    BY Zenon DEF Flags
  <2>4. pfx' \in BOOLEAN /\ password' \in BOOLEAN /\ parsed' \in BOOLEAN
    BY Zenon DEF Flags
  <2>5. pinValidating' \in BOOLEAN /\ pinCall' \in BOOLEAN /\ signingNow' \in BOOLEAN
    BY Zenon DEF Flags
  <2> QED
    BY <2>1, <2>2, <2>3, <2>4, <2>5 DEF Flags
<1>4. OneLiveAnalysis'
  BY <1>0 DEF Numbers, Records, OneLiveAnalysis
<1>5. LockHasOwner'
  BY DEF Numbers, Records, LockHasOwner
<1>6. PasswordIsDropped'
  BY DEF Numbers, Records, PasswordIsDropped
<1>7. BoxIsOfThisDocument'
  BY <1>0 DEF Numbers, Records, BoxIsOfThisDocument
<1>8. AnswerIsForThisDocument'
  BY <1>0 DEF Numbers, Records, AnswerIsForThisDocument
<1>9. CentreWaits'
  BY DEF Numbers, Records, CentreWaits
<1> QED
  BY <1>1, <1>2, <1>3, <1>4, <1>5, <1>6, <1>7, <1>8, <1>9, ScreenTypes

\* Steps towards the signature touch neither the box nor the analyses.
LEMMA OnwardsKeeps ==
  ASSUME SignIInv, ConfirmBox \/ PickPfx \/ TypePassword \/ PinSubmit \/ SignNow \/ UNCHANGED screenVars
  PROVE  SignIInv'
<1> USE ScreenAssumption DEF SignIInv, SignInv, ConfirmBox, PickPfx, TypePassword, PinSubmit,
      SignNow, screenVars, loadVars, placeVars, engineVars, scanVars, pinVars, callVars
<1>1. Numbers'
  <2>1. CASE ConfirmBox
    BY <2>1 DEF Numbers
  <2>2. CASE PickPfx
    BY <2>2 DEF Numbers
  <2>3. CASE TypePassword
    BY <2>3 DEF Numbers
  <2>4. CASE PinSubmit
    BY <2>4 DEF Numbers
  <2>5. CASE SignNow
    BY <2>5 DEF Numbers
  <2>6. CASE UNCHANGED screenVars
    BY <2>6 DEF Numbers
  <2> QED
    BY <2>1, <2>2, <2>3, <2>4, <2>5, <2>6
<1>2. Records'
  BY DEF Numbers, Records
<1>3. Flags'
  <2>1. CASE ConfirmBox
    BY <2>1 DEF Flags
  <2>2. CASE PickPfx
    BY <2>2 DEF Flags
  <2>3. CASE TypePassword
    BY <2>3 DEF Flags
  <2>4. CASE PinSubmit
    BY <2>4 DEF Flags
  <2>5. CASE SignNow
    BY <2>5 DEF Flags
  <2>6. CASE UNCHANGED screenVars
    BY <2>6 DEF Flags
  <2> QED
    BY <2>1, <2>2, <2>3, <2>4, <2>5, <2>6
<1>4. OneLiveAnalysis' /\ LockHasOwner' /\ AnswerIsForThisDocument'
  BY DEF Numbers, Records, OneLiveAnalysis, LockHasOwner, AnswerIsForThisDocument
<1>5. PasswordIsDropped' /\ BoxIsOfThisDocument' /\ CentreWaits'
  BY DEF Numbers, Records, PasswordIsDropped, BoxIsOfThisDocument, CentreWaits
<1> QED
  BY <1>1, <1>2, <1>3, <1>4, <1>5, ScreenTypes

LEMMA SignStep == SignIInv /\ [SignNext]_screenVars => SignIInv'
  BY PickPdfKeeps, ReadFailsKeeps, LoadedKeeps, EngineEndsKeeps, SignaturesScannedKeeps,
     PlaceDefaultKeeps, TurnPageKeeps,
     PersonPlacesKeeps, PinCheckedKeeps, SignEndsKeeps, OnBackKeeps, SignAgainKeeps, OnwardsKeeps
     DEF SignNext, Placing

\* Firmar.svelte: whatever answers after the person has moved on, a box is for the
\* document on screen, one analysis lives at a time, the lock of the engine has
\* somebody to release it, and a signed document leaves no password.
THEOREM SignInvariance == SignSpec => []SignInv
<1>1. SignIInv => SignInv
  BY DEF SignIInv
<1> QED
  BY <1>1, SignInitIInv, SignStep, PTL DEF SignSpec

\* Who changes the box.
BoxChanges ==
  /\ (box # NoBox /\ pdf' = pdf) =>
       \/ box'.by = "person"
       \/ hidden /\ ~guided /\ box' = Box("centre", pdf)
  /\ (enginePending /\ box'.by \in {"beside", "centre"}) => ~enginePending'

LEMMA BoxStep ==
  ASSUME SignIInv, [SignNext]_screenVars, box' # box, box' # NoBox
  PROVE  BoxChanges
<1>1. \/ SignaturesScanned \/ PlaceDefault \/ PersonPlaces \/ (\E f \in Files : EngineEnds(f))
  BY DEF SignNext, Placing, PickPdf, ReadFails, Loaded, ConfirmBox, PickPfx, TypePassword,
     PinSubmit, PinChecked, SignNow, SignEnds, OnBack, SignAgain, TurnPage, placeVars, screenVars
<1>2. CASE SignaturesScanned
  BY <1>2 DEF SignaturesScanned, placeVars, BoxChanges
<1>3. CASE PlaceDefault
  BY <1>3 DEF PlaceDefault, ShowsNoBox, SignIInv, CentreWaits, BoxChanges
<1>4. CASE PersonPlaces
  BY <1>4 DEF PersonPlaces, Box, BoxChanges
<1>5. CASE \E f \in Files : EngineEnds(f)
  BY <1>5 DEF EngineEnds, BoxAfter, placeVars, BoxChanges
<1> QED
  BY <1>1, <1>2, <1>3, <1>4, <1>5

\* Firmar.svelte: while the document stays, nobody but the person replaces a box on
\* the page it is on, whoever put it there; what displaces it from another page is
\* the centred default of the standard placer.  While the engine decides neither the
\* scan nor the centre places one.
THEOREM BoxesYieldAlways == SignSpec => BoxesYield
<1>1. SignIInv /\ [SignNext]_screenVars
      => [(box' # box /\ box' # NoBox) =>
            /\ (box # NoBox /\ pdf' = pdf) =>
                 \/ box'.by = "person"
                 \/ hidden /\ ~guided /\ box' = Box("centre", pdf)
            /\ (enginePending /\ box'.by \in {"beside", "centre"}) => ~enginePending']_screenVars
  BY BoxStep DEF BoxChanges
<1> QED
  BY <1>1, SignInitIInv, SignStep, PTL DEF SignSpec, BoxesYield
-----------------------------------------------------------------------------
(* The screen of a batch.                                                  *)

Fields == {"list", "at", "photo", "items", "aborted"}
CounterOf(k) == IF k[1] = "review" THEN reviewRun ELSE propagationRun

\* The calls of preflightBatch: none is ahead of the counter that numbers it.
RunsOK ==
  /\ reviewRun \in Nat /\ propagationRun \in Nat
  /\ run = [k \in Runs |-> run[k]]
  /\ \A k \in Runs : DOMAIN run[k] = Fields /\ run[k].at \in Nat
  /\ \A k \in Runs : run[k].at > 0 => k[2] <= CounterOf(k)

\* A review that may still write is announced as running, and a propagation, once
\* the person is back at the review, by the documents it may write.
ReviewIsAnnounced == \A k \in Runs : k[1] = "review" /\ k[2] = reviewRun /\ run[k].at > 0 => running
PropagationIsAnnounced ==
  \A k \in Runs : k[1] = "propagation" /\ k[2] = propagationRun /\ run[k].at > 0
                  => step = 1 \/ propagating # {}

\* What each step of the screen still holds.
StepsOK ==
  /\ step \in 1..4
  /\ step >= 3 => ~running /\ propagating = {}
  /\ placing # NoItem => step = 2
  /\ signing => step = 3 /\ input = Signable

SignerIInv == RunsOK /\ ReviewIsAnnounced /\ PropagationIsAnnounced /\ StepsOK /\ SecretsAreDropped

LEMMA RunShape == \A k \in Runs : k[1] \in {"review", "propagation"} /\ k[2] \in Nat \ {0}
  BY ReviewAssumption DEF Runs

LEMMA FirstRun ==
  ASSUME NEW n \in Nat
  PROVE  /\ n < MaxReviews => <<"review", n + 1>> \in Runs
         /\ n < MaxPropagations => <<"propagation", n + 1>> \in Runs
  BY ReviewAssumption DEF Runs

\* Aborting a run leaves it at the document it is at.
LEMMA AbortKeeps ==
  ASSUME RunsOK, NEW kinds
  PROVE  /\ Abort(run, kinds) = [k \in Runs |-> Abort(run, kinds)[k]]
         /\ \A k \in Runs : DOMAIN Abort(run, kinds)[k] = Fields /\ Abort(run, kinds)[k].at = run[k].at
<1>1. Abort(run, kinds) = [k \in Runs |-> Abort(run, kinds)[k]]
  BY DEF Abort
<1>2. ASSUME NEW k \in Runs
      PROVE  DOMAIN Abort(run, kinds)[k] = Fields /\ Abort(run, kinds)[k].at = run[k].at
  <2>1. DOMAIN run[k] = Fields /\ "at" \in Fields
    BY DEF RunsOK, Fields
  <2>2. Abort(run, kinds)[k] \in {run[k], [run[k] EXCEPT !.aborted = TRUE]}
    BY DEF Abort
  <2> QED
    BY <2>1, <2>2
<1> QED
  BY <1>1, <1>2

\* With both announcements, nothing that is current is in flight from step 3 on.
LEMMA NothingCurrentInFlight ==
  ASSUME SignerIInv, step >= 3, NEW k \in Runs, run[k].at > 0
  PROVE  ~Current(k)
  BY RunShape DEF SignerIInv, ReviewIsAnnounced, PropagationIsAnnounced, StepsOK, Current

LEMMA ReviewInitIInv == ReviewInit => SignerIInv
<1> SUFFICES ASSUME ReviewInit PROVE SignerIInv
  OBVIOUS
<1> USE DEF ReviewInit
<1>1. RunsOK /\ \A k \in Runs : run[k].at = 0
  <2>1. \A k \in Runs : run[k] = NoRun
    OBVIOUS
  <2>2. DOMAIN NoRun = Fields /\ NoRun.at = 0
    BY DEF NoRun, Fields
  <2> QED
    BY <2>1, <2>2 DEF RunsOK
<1>2. ReviewIsAnnounced /\ PropagationIsAnnounced
  BY <1>1 DEF ReviewIsAnnounced, PropagationIsAnnounced
<1>3. StepsOK /\ SecretsAreDropped
  BY DEF StepsOK, SecretsAreDropped
<1> QED
  BY <1>1, <1>2, <1>3 DEF SignerIInv

\* What the selection, the placer and the last steps do starts no run.
Elsewhere ==
  \/ Selection \/ Continue \/ PlacerReady \/ Warn \/ MoveBox \/ ClosePlacer
  \/ PickP12 \/ TypePin \/ StartSigning \/ SigningEnds \/ Download
  \/ (\E n \in DOMAIN preflight : OpenPlacer(n) \/ RemoveFromReview(n)) \/ UNCHANGED reviewVars

LEMMA ElsewhereKeeps ==
  ASSUME SignerIInv, Elsewhere
  PROVE  SignerIInv'
<1> USE DEF SignerIInv
<1>1. UNCHANGED runVars /\ running' = running /\ propagating' = propagating
  BY DEF Elsewhere, Selection, AddFile, RemoveFile, ClearFiles, Continue, PlacerReady, Warn,
        MoveBox,
    ClosePlacer, PickP12, TypePin, StartSigning, SigningEnds, Download, OpenPlacer,
    RemoveFromReview,
    reviewVars, statusVars
<1>2. RunsOK'
  BY <1>1 DEF RunsOK, runVars, CounterOf
<1>3. ReviewIsAnnounced'
  BY <1>1 DEF ReviewIsAnnounced, runVars
<1>4. /\ StepsOK' /\ SecretsAreDropped'
      /\ step' = step \/ (step = 2 /\ step' = 3 /\ propagating = {}) \/ (step = 3 /\ step' = 4)
  <2> USE DEF StepsOK, SecretsAreDropped, Signable, statusVars, placerVars, signVars
  <2>1. CASE Selection
    BY <2>1 DEF Selection, AddFile, RemoveFile, ClearFiles
  <2>2. CASE Continue
    BY <2>2 DEF Continue, CanContinue
  <2>3. CASE PlacerReady \/ Warn \/ MoveBox \/ ClosePlacer
    BY <2>3 DEF PlacerReady, Warn, MoveBox, ClosePlacer
  <2>4. CASE PickP12 \/ TypePin \/ StartSigning
    BY <2>4 DEF PickP12, TypePin, StartSigning
  <2>5. CASE SigningEnds \/ Download
    BY <2>5 DEF SigningEnds, Download
  <2>6. CASE \E n \in DOMAIN preflight : OpenPlacer(n) \/ RemoveFromReview(n)
    BY <2>6 DEF OpenPlacer, RemoveFromReview
  <2>7. CASE UNCHANGED reviewVars
    BY <2>7 DEF reviewVars
  <2> QED
    BY <2>1, <2>2, <2>3, <2>4, <2>5, <2>6, <2>7 DEF Elsewhere
<1>5. PropagationIsAnnounced'
  BY <1>1, <1>4 DEF PropagationIsAnnounced, runVars, StepsOK
<1> QED
  BY <1>2, <1>3, <1>4, <1>5

\* A review, and what it supersedes.
LEMMA GoToReviewKeeps ==
  ASSUME SignerIInv, GoToReview
  PROVE  SignerIInv'
<1> USE DEF SignerIInv
<1> DEFINE stopped == Abort(run, {"review", "propagation"})
           mine == <<"review", reviewRun + 1>>
           fresh == NewRun(Pending, Kept)
<1>1. /\ reviewRun' = reviewRun + 1 /\ propagationRun' = propagationRun + 1 /\ mine \in Runs
      /\ reviewRun \in Nat /\ propagationRun \in Nat
  BY FirstRun DEF GoToReview, Supersede, RunsOK
<1>2. \/ running' /\ run' = [stopped EXCEPT ![mine] = fresh]
      \/ run' = stopped
  BY DEF GoToReview
<1>3. /\ stopped = [k \in Runs |-> stopped[k]]
      /\ \A k \in Runs : DOMAIN stopped[k] = Fields /\ stopped[k].at = run[k].at
  BY AbortKeeps
<1>4. DOMAIN fresh = Fields /\ fresh.at = 1
  BY DEF NewRun, Fields
<1> HIDE DEF stopped, fresh
<1>5. /\ run' = [k \in Runs |-> run'[k]]
      /\ \A k \in Runs : \/ k = mine /\ running' /\ run'[k] = fresh
                         \/ run'[k] = stopped[k]
  BY <1>1, <1>2, <1>3
<1>6. \A k \in Runs : run'[k].at > 0 => \/ k = mine /\ running'
                                        \/ k[2] <= CounterOf(k)
  BY <1>3, <1>5 DEF RunsOK
<1>7. RunsOK'
  <2>1. \A k \in Runs : DOMAIN run'[k] = Fields /\ run'[k].at \in Nat
    BY <1>3, <1>4, <1>5 DEF RunsOK
  <2>2. \A k \in Runs : run'[k].at > 0 => k[2] <= CounterOf(k)'
    BY <1>1, <1>6, RunShape DEF CounterOf
  <2> QED
    BY <1>1, <1>5, <2>1, <2>2 DEF RunsOK
<1>8. ReviewIsAnnounced' /\ PropagationIsAnnounced'
  BY <1>1, <1>6, RunShape DEF ReviewIsAnnounced, PropagationIsAnnounced, CounterOf
<1>9. StepsOK' /\ SecretsAreDropped'
  BY DEF GoToReview, StepsOK, SecretsAreDropped, placerVars, signVars
<1> QED
  BY <1>7, <1>8, <1>9

\* A placement, and its propagation.
LEMMA CommitPlacementKeeps ==
  ASSUME SignerIInv, CommitPlacement
  PROVE  SignerIInv'
<1> USE DEF SignerIInv
<1> DEFINE stopped == Abort(run, {"propagation"})
           mine == <<"propagation", propagationRun + 1>>
<1>1. reviewRun' = reviewRun /\ running' = running /\ step = 2 /\ step' = 2
  BY DEF CommitPlacement, StepsOK
<1>2. \/ UNCHANGED <<run, propagationRun, propagating>>
      \/ /\ propagationRun' = propagationRun + 1 /\ propagationRun' <= MaxPropagations
         /\ \/ run' = stopped
            \/ propagating' # {} /\ \E list, photo : run' = [stopped EXCEPT ![mine] = NewRun(list, photo)]
  BY DEF CommitPlacement
<1>3. StepsOK' /\ SecretsAreDropped'
  BY <1>1 DEF CommitPlacement, StepsOK, SecretsAreDropped, signVars
<1>4. CASE UNCHANGED <<run, propagationRun, propagating>>
  BY <1>1, <1>3, <1>4 DEF RunsOK, ReviewIsAnnounced, PropagationIsAnnounced, CounterOf
<1>5. CASE /\ propagationRun' = propagationRun + 1 /\ propagationRun' <= MaxPropagations
           /\ \/ run' = stopped
              \/ propagating' # {} /\ \E list, photo : run' = [stopped EXCEPT ![mine] = NewRun(list, photo)]
  <2>1. mine \in Runs /\ reviewRun \in Nat /\ propagationRun \in Nat
    <3>1. propagationRun \in Nat /\ reviewRun \in Nat
      BY DEF RunsOK
    <3>2. propagationRun < MaxPropagations
      BY <1>5, <3>1, ReviewAssumption
    <3> QED
      BY <3>1, <3>2, FirstRun
  <2>2. /\ stopped = [k \in Runs |-> stopped[k]]
        /\ \A k \in Runs : DOMAIN stopped[k] = Fields /\ stopped[k].at = run[k].at
    BY AbortKeeps
  <2>3. \A list, photo : DOMAIN NewRun(list, photo) = Fields /\ NewRun(list, photo).at = 1
    BY DEF NewRun, Fields
  <2> HIDE DEF stopped
  <2>4. /\ run' = [k \in Runs |-> run'[k]]
        /\ \A k \in Runs : \/ k = mine /\ propagating' # {} /\ DOMAIN run'[k] = Fields /\ run'[k].at = 1
                           \/ run'[k] = stopped[k]
    BY <1>5, <2>1, <2>2, <2>3
  <2>5. \A k \in Runs : run'[k].at > 0 => \/ k = mine /\ propagating' # {}
                                          \/ run[k].at > 0 /\ k[2] <= CounterOf(k)
    BY <2>2, <2>4 DEF RunsOK
  <2>6. RunsOK'
    <3>1. \A k \in Runs : DOMAIN run'[k] = Fields /\ run'[k].at \in Nat
      BY <2>2, <2>4 DEF RunsOK
    <3>2. \A k \in Runs : run'[k].at > 0 => k[2] <= CounterOf(k)'
      BY <1>1, <1>5, <2>1, <2>5, RunShape DEF CounterOf
    <3> QED
      BY <1>1, <1>5, <2>1, <2>4, <3>1, <3>2 DEF RunsOK
  <2>7. ReviewIsAnnounced'
    BY <1>1, <2>5, RunShape DEF ReviewIsAnnounced
  <2>8. PropagationIsAnnounced'
    BY <1>5, <2>1, <2>5, RunShape DEF PropagationIsAnnounced, CounterOf
  <2> QED
    BY <1>3, <2>6, <2>7, <2>8
<1> QED
  BY <1>2, <1>4, <1>5

\* A document of a run settles: it writes if the run is current, and the run that
\* ends withdraws its announcement.
LEMMA DocumentDoneKeeps ==
  ASSUME SignerIInv, NEW k \in Runs, DocumentDone(k)
  PROVE  SignerIInv'
<1> USE DEF SignerIInv
<1>1. UNCHANGED <<step, files, reviewRun, propagationRun, placerVars, signVars>> /\ run[k].at > 0
  BY DEF DocumentDone, Settles
<1>2. PICK ends \in BOOLEAN :
        /\ run' = [run EXCEPT ![k] = run'[k]]
        /\ IF ends THEN run'[k] = NoRun
           ELSE \E items : run'[k] = [run[k] EXCEPT !.at = run[k].at + 1, !.items = items]
        /\ ~Current(k) => preflight' = preflight
        /\ IF k[1] = "review"
           THEN running' = (running /\ ~(ends /\ Current(k))) /\ propagating' = propagating
           ELSE propagating' = (IF ends /\ Current(k) THEN {} ELSE propagating) /\ running' = running
  <2>1. PICK item \in Outcomes(k[1], run[k].list[run[k].at]), throws \in BOOLEAN :
          Settles(k, item, throws)
    BY DEF DocumentDone
  <2> DEFINE ended == throws \/ run[k].aborted \/ run[k].at = Len(run[k].list)
  <2>2. ended \in BOOLEAN /\ k \in DOMAIN run
    BY DEF RunsOK
  <2>3. /\ run' = [run EXCEPT ![k] = run'[k]]
        /\ IF ended THEN run'[k] = NoRun
           ELSE \E items : run'[k] = [run[k] EXCEPT !.at = run[k].at + 1, !.items = items]
    BY <2>1, <2>2 DEF Settles
  <2>4. ~Current(k) => preflight' = preflight
    BY <2>1 DEF Settles, Arrived
  <2>5. IF k[1] = "review"
        THEN running' = (running /\ ~(ended /\ Current(k))) /\ propagating' = propagating
        ELSE propagating' = (IF ended /\ Current(k) THEN {} ELSE propagating) /\ running' = running
    BY <2>1 DEF Settles
  <2> HIDE DEF ended
  <2> QED
    BY <2>2, <2>3, <2>4, <2>5
<1>3. DOMAIN run'[k] = Fields /\ run'[k].at \in Nat /\ (ends => run'[k].at = 0)
  <2>1. DOMAIN run[k] = Fields /\ run[k].at \in Nat
    BY DEF RunsOK
  <2>2. CASE ends
    BY <1>2, <2>2 DEF NoRun, Fields
  <2>3. CASE ~ends
    <3>1. PICK items : run'[k] = [run[k] EXCEPT !.at = run[k].at + 1, !.items = items]
      BY <1>2, <2>3
    <3>2. DOMAIN run'[k] = Fields /\ run'[k].at = run[k].at + 1
      BY <2>1, <3>1 DEF Fields
    <3> QED
      BY <2>1, <2>3, <3>2
  <2> QED
    BY <2>2, <2>3
<1>4. \A j \in Runs : j # k => run'[j] = run[j]
  BY <1>2 DEF RunsOK
<1>5. RunsOK'
  BY <1>1, <1>2, <1>3, <1>4 DEF RunsOK, CounterOf
<1>6. ReviewIsAnnounced'
  <2> SUFFICES ASSUME NEW j \in Runs, j[1] = "review", j[2] = reviewRun, run'[j].at > 0
               PROVE  running'
    BY <1>1 DEF ReviewIsAnnounced
  <2>1. running
    BY <1>1, <1>4 DEF ReviewIsAnnounced
  <2>2. CASE j = k
    <3>1. ~ends
      BY <1>3, <2>2
    <3> QED
      BY <1>2, <2>1, <3>1
  <2>3. CASE j # k
    <3>1. ~(k[1] = "review" /\ k[2] = reviewRun)
      BY <2>3 DEF Runs
    <3> QED
      BY <1>2, <2>1, <3>1 DEF Current
  <2> QED
    BY <2>2, <2>3
<1>7. PropagationIsAnnounced'
  <2> SUFFICES ASSUME NEW j \in Runs, j[1] = "propagation", j[2] = propagationRun, run'[j].at > 0
               PROVE  step = 1 \/ propagating' # {}
    BY <1>1 DEF PropagationIsAnnounced
  <2>1. step = 1 \/ propagating # {}
    BY <1>1, <1>4 DEF PropagationIsAnnounced
  <2>2. CASE j = k
    <3>1. ~ends
      BY <1>3, <2>2
    <3> QED
      BY <1>2, <2>1, <3>1
  <2>3. CASE j # k
    <3>1. k[1] = "review" \/ k[2] # propagationRun
      BY <2>3, RunShape DEF Runs
    <3> QED
      BY <1>2, <2>1, <3>1 DEF Current
  <2> QED
    BY <2>2, <2>3
<1>8. StepsOK'
  <2>1. step >= 3 => preflight' = preflight
    BY <1>1, <1>2, NothingCurrentInFlight
  <2>2. signing' => input' = Signable'
    BY <1>1, <2>1 DEF StepsOK, Signable, signVars
  <2>3. step' >= 3 => ~running' /\ propagating' = {}
    BY <1>1, <1>2 DEF StepsOK
  <2> QED
    BY <1>1, <2>2, <2>3 DEF StepsOK, placerVars, signVars
<1>9. SecretsAreDropped'
  BY <1>1 DEF SecretsAreDropped, signVars
<1> QED
  BY <1>5, <1>6, <1>7, <1>8, <1>9

\* Leaving the review keeps both counters, leaving the result moves them on.
LEMMA LeavingKeeps ==
  ASSUME SignerIInv, Back \/ Restart
  PROVE  SignerIInv'
<1> USE DEF SignerIInv
<1> DEFINE stopped == Abort(run, {"review", "propagation"})
<1>1. run' = stopped /\ step' = 1
  BY DEF Back, Restart
<1>2. /\ stopped = [k \in Runs |-> stopped[k]]
      /\ \A k \in Runs : DOMAIN stopped[k] = Fields /\ stopped[k].at = run[k].at
  BY AbortKeeps
<1> HIDE DEF stopped
<1>3. \/ reviewRun' = reviewRun /\ propagationRun' = propagationRun /\ running' = running
      \/ reviewRun' = reviewRun + 1 /\ propagationRun' = propagationRun + 1
  BY DEF Back, Restart, Supersede
<1>4. RunsOK'
  <2>1. \A k \in Runs : run'[k].at > 0 => k[2] <= CounterOf(k)'
    BY <1>1, <1>2, <1>3, RunShape DEF RunsOK, CounterOf
  <2> QED
    BY <1>1, <1>2, <1>3, <2>1 DEF RunsOK
<1>5. ReviewIsAnnounced'
  BY <1>1, <1>2, <1>3, RunShape DEF RunsOK, ReviewIsAnnounced, CounterOf
<1>6. PropagationIsAnnounced'
  BY <1>1 DEF PropagationIsAnnounced
<1>7. ~signing' /\ placing' = NoItem
  BY DEF Back, Restart, StepsOK, placerVars, signVars
<1>8. SecretsAreDropped'
  BY <1>1 DEF Back, Restart, SecretsAreDropped, signVars
<1>9. StepsOK'
  BY <1>1, <1>7 DEF StepsOK
<1> QED
  BY <1>4, <1>5, <1>6, <1>8, <1>9

LEMMA ReviewStep == SignerIInv /\ [ReviewNext]_reviewVars => SignerIInv'
  BY ElsewhereKeeps, GoToReviewKeeps, CommitPlacementKeeps, DocumentDoneKeeps, LeavingKeeps
     DEF ReviewNext, Elsewhere, Placement, Signing

LEMMA SignerIsAlone == SignerIInv => NothingMovesUnderTheSigner /\ SecretsAreDropped
<1> SUFFICES ASSUME SignerIInv PROVE NothingMovesUnderTheSigner /\ SecretsAreDropped
  OBVIOUS
<1>1. step >= 3 => \A k \in Runs : run[k].at > 0 => ~Current(k)
  BY NothingCurrentInFlight
<1> QED
  BY <1>1 DEF SignerIInv, StepsOK, NothingMovesUnderTheSigner

\* FirmarLote.svelte: however many reviews and propagations were left in flight, and
\* however late they answer, none of them writes the list that is being signed.
THEOREM SignerInvariance == ReviewSpec => []NothingMovesUnderTheSigner
<1> QED
  BY ReviewInitIInv, ReviewStep, SignerIsAlone, PTL DEF ReviewSpec

\* FirmarLote.svelte: the password does not outlive the start of the signature, nor
\* the certificate its end.
THEOREM SecretsInvariance == ReviewSpec => []SecretsAreDropped
<1> QED
  BY ReviewInitIInv, ReviewStep, SignerIsAlone, PTL DEF ReviewSpec

-----------------------------------------------------------------------------
(* The archive of a signed batch.                                          *)

LEMMA SmallestIn ==
  ASSUME NEW S \in SUBSET Nat, S # {}
  PROVE  \E m \in S : \A n \in S : m <= n
<1>1. PICK m \in S : \A n \in S : ~(<<n, m>> \in OpToRel(<, Nat))
  BY NatLessThanWellFounded, WFMin
<1>2. \A n \in S : n \in Nat /\ m \in Nat /\ ~(n < m)
  BY <1>1, Zenon DEF OpToRel
<1>3. \A n \in S : m <= n
  BY <1>2
<1> QED
  BY <1>3

-----------------------------------------------------------------------------
(* What a loop adds up.                                                    *)

Adds(g, n) == \A m \in 1..n : g[m] \in Nat
SameUpTo(g, h, n) == \A m \in 1..n : g[m] = h[m]
IsSum(t, g, n) == t = [m \in 0..n |-> IF m = 0 THEN 0 ELSE t[m - 1] + g[m]]

LEMMA SumsAgree ==
  ASSUME NEW n \in Nat, NEW k \in Nat, n <= k, NEW g, NEW h, SameUpTo(g, h, n),
         NEW t, IsSum(t, g, n), NEW u, IsSum(u, h, k)
  PROVE  \A m \in 0..n : t[m] = u[m]
<1> DEFINE S == {m \in 0..n : t[m] # u[m]}
<1> SUFFICES ASSUME S # {}
             PROVE  FALSE
  OBVIOUS
<1>1. S \in SUBSET Nat
  OBVIOUS
<1> HIDE DEF S
<1>2. PICK m \in S : \A j \in S : m <= j
  BY <1>1, SmallestIn
<1>3. m \in 0..n /\ t[m] # u[m] /\ \A j \in 0..n : j < m => t[j] = u[j]
  BY <1>1, <1>2 DEF S
<1>4. /\ t[m] = IF m = 0 THEN 0 ELSE t[m - 1] + g[m]
      /\ u[m] = IF m = 0 THEN 0 ELSE u[m - 1] + h[m]
  BY <1>3 DEF IsSum
<1>5. CASE m = 0
  BY <1>3, <1>4, <1>5
<1>6. CASE m # 0
  <2>1. m - 1 \in 0..n /\ m - 1 < m /\ m \in 1..n
    BY <1>3, <1>6
  <2>2. t[m - 1] = u[m - 1] /\ g[m] = h[m]
    BY <1>3, <2>1 DEF SameUpTo
  <2> QED
    BY <1>3, <1>4, <1>6, <2>2
<1> QED
  BY <1>5, <1>6

LEMMA SumGrows ==
  ASSUME NEW n \in Nat, NEW g, g[n + 1] \in Nat, NEW t \in [0..n -> Nat], IsSum(t, g, n)
  PROVE  \E u \in [0..(n + 1) -> Nat] : IsSum(u, g, n + 1)
<1> DEFINE u == [m \in 0..(n + 1) |-> IF m = n + 1 THEN t[n] + g[n + 1] ELSE t[m]]
<1>1. u \in [0..(n + 1) -> Nat]
  OBVIOUS
<1>2. \A m \in 0..(n + 1) : u[m] = IF m = 0 THEN 0 ELSE u[m - 1] + g[m]
  <2> TAKE m \in 0..(n + 1)
  <2>1. CASE m = n + 1
    BY <2>1
  <2>2. CASE m # n + 1
    <3>1. m \in 0..n /\ t[m] = IF m = 0 THEN 0 ELSE t[m - 1] + g[m]
      BY <2>2 DEF IsSum
    <3>2. m # 0 => m - 1 \in 0..(n + 1) /\ m - 1 # n + 1
      BY <3>1
    <3> QED
      BY <2>2, <3>1, <3>2
  <2> QED
    BY <2>1, <2>2
<1>3. IsSum(u, g, n + 1)
  <2>1. u = [m \in 0..(n + 1) |-> u[m]]
    OBVIOUS
  <2> HIDE DEF u
  <2> QED
    BY <1>2, <2>1 DEF IsSum
<1> QED
  BY <1>1, <1>3

LEMMA SumsAre ==
  ASSUME NEW N \in Nat, NEW g, Adds(g, N)
  PROVE  \A n \in 0..N : \E t \in [0..n -> Nat] : IsSum(t, g, n)
<1> DEFINE S == {n \in 0..N : ~ \E t \in [0..n -> Nat] : IsSum(t, g, n)}
<1> SUFFICES ASSUME S # {}
             PROVE  FALSE
  OBVIOUS
<1>1. S \in SUBSET Nat
  OBVIOUS
<1> HIDE DEF S
<1>2. PICK n \in S : \A j \in S : n <= j
  BY <1>1, SmallestIn
<1>3. n \in 0..N
  BY <1>2 DEF S
<1>4. CASE n = 0
  <2> DEFINE t == [m \in 0..0 |-> 0]
  <2>1. t \in [0..0 -> Nat]
    OBVIOUS
  <2>2. t = [m \in 0..0 |-> IF m = 0 THEN 0 ELSE t[m - 1] + g[m]]
    OBVIOUS
  <2> HIDE DEF t
  <2> QED
    BY <1>2, <1>4, <2>1, <2>2 DEF S, IsSum
<1>5. CASE n # 0
  <2> DEFINE k == n - 1
  <2>1. k \in 0..N /\ k \in Nat /\ k + 1 = n /\ k < n /\ n \in 1..N
    BY <1>3, <1>5
  <2>2. k \notin S
    BY <1>1, <1>2, <2>1
  <2>3. PICK t \in [0..k -> Nat] : IsSum(t, g, k)
    BY <2>1, <2>2 DEF S
  <2>4. g[k + 1] \in Nat
    BY <2>1 DEF Adds
  <2> HIDE DEF k
  <2>5. \E u \in [0..(k + 1) -> Nat] : IsSum(u, g, k + 1)
    BY <2>1, <2>3, <2>4, SumGrows
  <2> QED
    BY <1>2, <2>1, <2>5 DEF S
<1> QED
  BY <1>4, <1>5

Sums(t, g, n) == t \in [0..n -> Nat] /\ IsSum(t, g, n) /\ Total(g, n) = t[n]

LEMMA TotalIs ==
  ASSUME NEW N \in Nat, NEW g, Adds(g, N), NEW n \in 0..N
  PROVE  \E t : Sums(t, g, n)
<1> DEFINE u == CHOOSE t : IsSum(t, g, n)
<1>0. n \in Nat /\ n <= n
  OBVIOUS
<1>1. PICK t \in [0..n -> Nat] : IsSum(t, g, n)
  BY SumsAre
<1>2. IsSum(u, g, n)
  BY <1>1
<1>3. Total(g, n) = u[n]
  BY DEF Total, IsSum
<1>4. SameUpTo(g, g, n)
  BY DEF SameUpTo
<1> HIDE DEF u
<1>5. \A m \in 0..n : u[m] = t[m]
  BY <1>0, <1>1, <1>2, <1>4, SumsAgree
<1>6. Total(g, n) = t[n]
  BY <1>0, <1>3, <1>5
<1> QED
  BY <1>1, <1>6 DEF Sums

LEMMA TotalOf ==
  ASSUME NEW N \in Nat, NEW g, Adds(g, N)
  PROVE  /\ Total(g, 0) = 0 /\ \A n \in 0..N : Total(g, n) \in Nat
         /\ \A n \in 1..N : Total(g, n) = Total(g, n - 1) + g[n]
<1>1. Total(g, 0) = 0
  <2>0. 0 \in 0..N
    OBVIOUS
  <2>1. PICK t : Sums(t, g, 0)
    BY <2>0, TotalIs
  <2>2. Total(g, 0) = t[0] /\ t[0] = 0
    BY <2>1 DEF Sums, IsSum
  <2> QED
    BY <2>2
<1>2. \A n \in 0..N : Total(g, n) \in Nat
  <2> TAKE n \in 0..N
  <2>1. PICK t : Sums(t, g, n)
    BY TotalIs
  <2> QED
    BY <2>1 DEF Sums
<1>3. \A n \in 1..N : Total(g, n) = Total(g, n - 1) + g[n]
  <2> TAKE n \in 1..N
  <2> DEFINE k == n - 1
  <2>0. k \in 0..N /\ n \in 0..N /\ k <= n /\ n \in Nat /\ k \in Nat
    OBVIOUS
  <2>1. PICK t : Sums(t, g, n)
    BY <2>0, TotalIs
  <2>4. t[n] = t[n - 1] + g[n] /\ Total(g, n) = t[n]
    BY <2>1 DEF Sums, IsSum
  <2>5. SameUpTo(g, g, k)
    BY DEF SameUpTo
  <2> HIDE DEF k
  <2>2. PICK u : Sums(u, g, k)
    BY <2>0, TotalIs
  <2>3. \A m \in 0..k : u[m] = t[m]
    <3>1. IsSum(u, g, k) /\ IsSum(t, g, n)
      BY <2>1, <2>2 DEF Sums
    <3> QED
      BY <2>0, <2>5, <3>1, SumsAgree
  <2>6. Total(g, k) = u[k] /\ u[k] = t[k]
    BY <2>0, <2>2, <2>3 DEF Sums
  <2> QED
    BY <2>4, <2>6 DEF k
<1> QED
  BY <1>1, <1>2, <1>3

LEMMA TotalsAgree ==
  ASSUME NEW n \in Nat, NEW g, NEW h, Adds(g, n), SameUpTo(g, h, n)
  PROVE  Total(g, n) = Total(h, n)
<1>0. n \in 0..n /\ n <= n /\ Adds(h, n)
  BY DEF Adds, SameUpTo
<1>1. PICK t : Sums(t, g, n)
  BY <1>0, TotalIs
<1>2. PICK u : Sums(u, h, n)
  BY <1>0, TotalIs
<1>3. IsSum(t, g, n) /\ IsSum(u, h, n) /\ Total(g, n) = t[n] /\ Total(h, n) = u[n]
  BY <1>1, <1>2 DEF Sums
<1>4. \A m \in 0..n : t[m] = u[m]
  BY <1>0, <1>3, SumsAgree
<1> QED
  BY <1>0, <1>3, <1>4

LEMMA TotalGrows ==
  ASSUME NEW N \in Nat, NEW g, Adds(g, N), NEW n \in 0..N
  PROVE  Total(g, n) <= Total(g, N)
<1> DEFINE S == {m \in n..N : ~(Total(g, n) <= Total(g, m))}
<1>0. /\ \A m \in 0..N : Total(g, m) \in Nat
      /\ \A m \in 1..N : Total(g, m) = Total(g, m - 1) + g[m]
      /\ \A m \in 1..N : g[m] \in Nat
  BY TotalOf DEF Adds
<1>1. S \in SUBSET Nat
  OBVIOUS
<1>2. CASE S # {}
  <2> HIDE DEF S
  <2>1. PICK m \in S : \A j \in S : m <= j
    BY <1>1, <1>2, SmallestIn
  <2>2. m \in n..N /\ ~(Total(g, n) <= Total(g, m))
    BY <2>1 DEF S
  <2>3. m # n
    BY <1>0, <2>2
  <2>4. m - 1 \in n..N /\ m \in 1..N /\ m - 1 \in 0..N /\ ~(m <= m - 1)
    BY <2>2, <2>3
  <2>5. Total(g, n) <= Total(g, m - 1)
    BY <2>1, <2>4 DEF S
  <2>6. g[m] \in Nat /\ Total(g, m) = Total(g, m - 1) + g[m] /\ Total(g, m - 1) \in Nat /\ Total(g, n) \in Nat
    BY <1>0, <2>4
  <2> QED
    BY <2>2, <2>5, <2>6
<1>3. CASE S = {}
  <2>1. N \in n..N
    OBVIOUS
  <2> QED
    BY <1>3, <2>1
<1> QED
  BY <1>2, <1>3

-----------------------------------------------------------------------------
(* Names and sizes.                                                        *)

Names ==
  {NameOf(file) : file \in Uploads} \cup {Variant(NameOf(file), v) : file \in Uploads, v \in Nat}

LEMMA NameBytesAre ==
  ASSUME NEW name
  PROVE  NameBytes(name) \in Nat /\ NameBytes(name) <= MaxName
<1>1. MaxName \in Nat \ {0}
  BY ZipAssumption
<1>2. NameBytes(name) = MaxName - 1 \/ NameBytes(name) = MaxName
  BY DEF NameBytes
<1> QED
  BY <1>1, <1>2

LEMMA VariantsDiffer ==
  ASSUME NEW file \in Uploads, NEW v
  PROVE  Fold(Variant(NameOf(file), v)).variant = v
<1> DEFINE f == NameOf(file)
           r == Variant(f, v)
           q == Fold(r)
<1>1. DOMAIN f = {"head", "tail", "upper", "variant"}
  BY DEF NameOf
<1>2. r = [f EXCEPT !.variant = v, !.tail = ""]
  BY DEF Variant
<1>3. q = [r EXCEPT !.upper = FALSE]
  BY DEF Fold
<1> HIDE DEF f, r, q
<1>4. r.variant = v /\ DOMAIN r = DOMAIN f
  BY <1>1, <1>2
<1>5. q.variant = r.variant
  BY <1>1, <1>3, <1>4
<1> QED
  BY <1>4, <1>5 DEF f, r, q

TakenOK == IsFiniteSet(DOMAIN taken) /\ \A x \in DOMAIN taken : taken[x] \in Nat

Given(name, t2) ==
  /\ Fold(name) \notin DOMAIN taken
  /\ DOMAIN t2 = DOMAIN taken \cup {Fold(name)}
  /\ \A x \in DOMAIN t2 : t2[x] \in Nat

Noted(x, n, f) == With([k \in {x} |-> n], f)
Counts(f) == \A y \in DOMAIN f : f[y] \in Nat

LEMMA NotedIs ==
  ASSUME NEW x, NEW n \in Nat, NEW f, Counts(f)
  PROVE  DOMAIN Noted(x, n, f) = DOMAIN f \cup {x} /\ Counts(Noted(x, n, f))
BY DEF Noted, With, Counts

LEMMA FreeVariant ==
  ASSUME TakenOK, Cardinality(DOMAIN taken) < Docs, NEW file \in Uploads, NEW from \in Nat
  PROVE  /\ NextFree(NameOf(file), from) \in Nat
         /\ Fold(Variant(NameOf(file), NextFree(NameOf(file), from))) \notin DOMAIN taken
<1> DEFINE I == from..(from + Docs)
           F(v) == Fold(Variant(NameOf(file), v))
           S == {v \in I : F(v) \notin DOMAIN taken}
           f == [v \in I |-> F(v)]
<1>0. Docs \in Nat
  BY ZipAssumption
<1>1. IsFiniteSet(I) /\ Cardinality(I) = Docs + 1
  BY <1>0, FS_Interval
<1>2. \A v, w \in I : F(v) = F(w) => v = w
  <2> TAKE v, w \in I
  <2>1. F(v).variant = v /\ F(w).variant = w
    BY VariantsDiffer
  <2> QED
    BY <2>1
<1>3. S # {}
  <2> SUFFICES ASSUME S = {}
               PROVE  FALSE
    OBVIOUS
  <2>1. f \in [I -> DOMAIN taken]
    OBVIOUS
  <2>2. Cardinality(DOMAIN taken) \in Nat
    BY FS_CardinalityType DEF TakenOK
  <2>3. Cardinality(I) > Cardinality(DOMAIN taken)
    BY <1>0, <1>1, <2>2
  <2> HIDE DEF I, f, F
  <2>4. \E v, w \in I : v # w /\ f[v] = f[w]
    BY <1>1, <2>1, <2>3, FS_PigeonHole DEF TakenOK
  <2> QED
    BY <1>2, <2>4 DEF f
<1>4. S \in SUBSET Nat
  BY <1>0
<1>5. NextFree(NameOf(file), from) = CHOOSE x \in S : \A y \in S : x <= y
  BY DEF NextFree, Min
<1>6. \E x \in S : \A y \in S : x <= y
  <2> HIDE DEF S
  <2> QED
    BY <1>3, <1>4, SmallestIn
<1>7. NextFree(NameOf(file), from) \in S
  <2> HIDE DEF S
  <2> QED
    BY <1>5, <1>6
<1> QED
  BY <1>4, <1>7

LEMMA ResolvedIs ==
  ASSUME TakenOK, Cardinality(DOMAIN taken) < Docs, NEW file \in Uploads, NEW name, NEW t2,
         Resolved(NameOf(file), name, t2)
  PROVE  name \in Names /\ Given(name, t2)
<1> DEFINE nm == NameOf(file)
<1>0. Counts(taken) /\ 2 \in Nat
  BY DEF TakenOK, Counts
<1>1. CASE Fold(nm) \notin DOMAIN taken
  <2>1. name = nm /\ t2 = Noted(Fold(nm), 2, taken)
    BY <1>1 DEF Resolved, Noted
  <2>2. DOMAIN t2 = DOMAIN taken \cup {Fold(nm)} /\ Counts(t2)
    BY <1>0, <2>1, NotedIs
  <2> QED
    BY <1>1, <2>1, <2>2 DEF Given, Names, Counts
<1>2. CASE Fold(nm) \in DOMAIN taken
  <2> DEFINE v == NextFree(nm, taken[Fold(nm)])
             next == v + 1
             t1 == Noted(Fold(nm), next, taken)
  <2>1. name = Variant(nm, v) /\ t2 = Noted(Fold(name), 2, t1)
    BY <1>2 DEF Resolved, Noted
  <2>2. v \in Nat /\ Fold(Variant(nm, v)) \notin DOMAIN taken
    BY <1>2, FreeVariant DEF TakenOK
  <2>3. next \in Nat
    BY <2>2
  <2> HIDE DEF v, nm, next
  <2>4. DOMAIN t1 = DOMAIN taken \cup {Fold(nm)} /\ Counts(t1)
    BY <1>0, <2>3, NotedIs
  <2> HIDE DEF t1
  <2>5. DOMAIN t2 = DOMAIN t1 \cup {Fold(name)} /\ Counts(t2)
    BY <1>0, <2>1, <2>4, NotedIs
  <2>6. name \in Names
    BY <2>1, <2>2 DEF Names, nm
  <2> QED
    BY <1>2, <2>1, <2>2, <2>4, <2>5, <2>6 DEF Given, Counts
<1> QED
  BY <1>1, <1>2

Entry == [doc : DocIds, name : Names, bytes : Nat]

Central(es) == Total([n \in DOMAIN es |-> Header + NameBytes(es[n].name)], Len(es))

LEMMA CentralGrows ==
  ASSUME NEW es \in Seq(Entry), NEW e \in Entry
  PROVE  Central(es) \in Nat /\ Central(Append(es, e)) = Central(es) + Header + NameBytes(e.name)
<1> DEFINE new == Append(es, e)
           g == [n \in DOMAIN es |-> Header + NameBytes(es[n].name)]
           h == [n \in DOMAIN new |-> Header + NameBytes(new[n].name)]
           N == Len(es)
<1>0. Header \in Nat /\ N \in Nat /\ N + 1 \in Nat
  BY ZipAssumption
<1>1. /\ Len(new) = N + 1 /\ DOMAIN new = 1..(N + 1) /\ DOMAIN es = 1..N
      /\ new[N + 1] = e /\ \A n \in 1..N : new[n] = es[n]
  OBVIOUS
<1> HIDE DEF new, N
<1>2. Adds(g, N) /\ Adds(h, N + 1) /\ SameUpTo(h, g, N) /\ Adds(h, N)
  <2>1. \A n \in 1..N : g[n] = Header + NameBytes(es[n].name) /\ h[n] = g[n]
    BY <1>0, <1>1
  <2>2. \A n \in 1..(N + 1) : h[n] = Header + NameBytes(new[n].name)
    BY <1>1
  <2> HIDE DEF g, h
  <2>3. \A n \in 1..N : g[n] \in Nat
    BY <1>0, <2>1, NameBytesAre
  <2>4. \A n \in 1..(N + 1) : h[n] \in Nat
    BY <1>0, <2>2, NameBytesAre
  <2>5. Adds(h, N) /\ Adds(g, N)
    BY <2>1, <2>3 DEF Adds
  <2>6. SameUpTo(h, g, N)
    BY <2>1 DEF SameUpTo
  <2> QED
    BY <2>4, <2>5, <2>6 DEF Adds
<1>3. h[N + 1] = Header + NameBytes(e.name)
  BY <1>0, <1>1
<1>4. Central(es) = Total(g, N) /\ Central(new) = Total(h, N + 1)
  BY <1>1 DEF Central, N
<1> HIDE DEF g, h
<1>5. Total(h, N) = Total(g, N)
  BY <1>0, <1>2, TotalsAgree
<1>6. N \in 0..N /\ N + 1 \in 1..(N + 1) /\ (N + 1) - 1 = N
  BY <1>0
<1>7. Total(g, N) \in Nat
  BY <1>0, <1>2, <1>6, TotalOf
<1>8. Total(h, N + 1) = Total(h, N) + h[N + 1]
  <2> DEFINE K == N + 1
  <2>1. K \in Nat /\ Adds(h, K) /\ K \in 1..K /\ K - 1 = N
    BY <1>0, <1>2
  <2> HIDE DEF K
  <2>2. Total(h, K) = Total(h, K - 1) + h[K]
    BY <2>1, TotalOf
  <2> QED
    BY <2>1, <2>2 DEF K
<1> QED
  BY <1>0, <1>3, <1>4, <1>5, <1>7, <1>8, NameBytesAre DEF new

-----------------------------------------------------------------------------
(* The archive.                                                            *)

QueueOK ==
  /\ docStatus \in [DocIds -> {"pending", "signing"} \cup Run!Verdict]
  /\ \A j, k \in DocIds : j < k /\ docStatus[k] # "pending" => docStatus[j] \in Run!Verdict

EntriesOK ==
  /\ entries \in Seq(Entry)
  /\ \A n \in DOMAIN entries :
       docStatus[entries[n].doc] = "done" /\ Fold(entries[n].name) \in DOMAIN taken
  /\ \A m, n \in DOMAIN entries : entries[m].doc = entries[n].doc => m = n

GrownOK ==
  /\ grown \in [DocIds -> Nat]
  /\ \A k \in DocIds : docStatus[k] # "done" => grown[k] = 0

\* What the estimate reserves for every document.
Cost == [k \in DocIds |-> upload[k].size + Allowance + 2 * Header + 2 * MaxName]

NoneAfter(k) == \A j \in DocIds : j > k => docStatus[j] # "done"
WithinAllowance == \A j \in DocIds : grown[j] <= Allowance

\* As long as no document after the k-th is done, the archive holds no more than k
\* entries and names, and no more bytes than what is reserved for the first k.
ReservedUpTo(k) ==
  /\ Len(entries) <= k /\ Cardinality(DOMAIN taken) <= k
  /\ WithinAllowance => offset + Central(entries) <= Total(Cost, k)

Reserved == \A k \in 0..Docs : NoneAfter(k) => ReservedUpTo(k)

OutcomeOK ==
  /\ zipPhase \notin {"idle", "refused"} => Fits
  /\ zipPhase = "delivered" =>
       (\A k \in DocIds : docStatus[k] \in Run!Verdict) /\ DOMAIN excluded = LeftOut

ZipIInv ==
  /\ ZipTypeOK /\ QueueOK /\ TakenOK /\ offset \in Nat
  /\ EntriesOK /\ NamesAreDistinct /\ GrownOK /\ Reserved
  /\ ArchiveFits /\ OutcomeOK /\ AcceptedBatchFits

LEMMA CostIs ==
  ASSUME ZipTypeOK
  PROVE  /\ Adds(Cost, Docs) /\ Estimate = Header + Total(Cost, Docs)
         /\ \A k \in DocIds : upload[k].size \in Nat
<1>1. \A k \in DocIds : upload[k] \in Uploads
  BY DEF ZipTypeOK
<1>2. Allowance \in Nat /\ Header \in Nat /\ MaxName \in Nat /\ \A file \in Uploads : file.size \in Nat
  BY ZipAssumption
<1>3. \A k \in DocIds : upload[k].size \in Nat
  BY <1>1, <1>2
<1>4. Adds(Cost, Docs)
  BY <1>2, <1>3 DEF Adds, Cost, DocIds
<1>5. Estimate = Header + Total(Cost, Docs)
  BY DEF Estimate, Cost
<1> QED
  BY <1>3, <1>4, <1>5

LEMMA CentralIsNat ==
  ASSUME NEW es \in Seq(Entry)
  PROVE  Central(es) \in Nat
<1> DEFINE g == [n \in DOMAIN es |-> Header + NameBytes(es[n].name)]
           N == Len(es)
<1>1. Header \in Nat /\ N \in Nat /\ DOMAIN es = 1..N /\ N \in 0..N
  BY ZipAssumption
<1>2. Adds(g, N)
  BY <1>1, NameBytesAre DEF Adds
<1> HIDE DEF g, N
<1>3. Total(g, N) \in Nat
  BY <1>1, <1>2, TotalOf
<1> QED
  BY <1>3 DEF Central, g, N

LEMMA ZipInitially ==
  ASSUME ZipInit
  PROVE  ZipIInv
<1>0. Docs \in Nat \ {0} /\ MaxEntries \in Nat
  BY ZipAssumption
<1>1. entries = <<>> /\ DOMAIN taken = {} /\ offset = 0 /\ DOMAIN excluded = {} /\ zipPhase = "idle"
  BY DEF ZipInit
<1>2. docStatus = [k \in DocIds |-> "pending"] /\ grown = [k \in DocIds |-> 0]
  BY DEF ZipInit, Run!Init, Run!Items, DocIds
<1>3. ZipTypeOK
  BY <1>1 DEF ZipInit, ZipTypeOK
<1>4. QueueOK
  BY <1>2 DEF QueueOK
<1>5. TakenOK /\ Cardinality(DOMAIN taken) = 0
  BY <1>1, FS_EmptySet DEF TakenOK
<1>6. EntriesOK /\ NamesAreDistinct
  BY <1>1 DEF EntriesOK, NamesAreDistinct
<1>7. GrownOK
  BY <1>2 DEF GrownOK
<1>8. Central(entries) = 0 /\ Len(entries) = 0
  <2> DEFINE g == [n \in DOMAIN entries |-> Header + NameBytes(entries[n].name)]
  <2>1. 0 \in Nat /\ Len(entries) = 0
    BY <1>1
  <2>2. Adds(g, 0)
    BY DEF Adds
  <2> HIDE DEF g
  <2>3. Total(g, 0) = 0
    BY <2>1, <2>2, TotalOf
  <2> QED
    BY <2>1, <2>3 DEF Central, g
<1>9. Reserved
  <2> SUFFICES ASSUME NEW k \in 0..Docs
               PROVE  ReservedUpTo(k)
    BY DEF Reserved
  <2>1. Total(Cost, k) \in Nat
    BY <1>0, <1>3, CostIs, TotalOf
  <2>2. 0 <= k /\ 0 + 0 <= Total(Cost, k)
    BY <1>0, <2>1
  <2> QED
    BY <1>1, <1>5, <1>8, <2>2 DEF ReservedUpTo
<1>10. ArchiveFits
  BY <1>0, <1>1, <1>8 DEF ArchiveFits
<1>11. OutcomeOK
  BY <1>1 DEF OutcomeOK
<1>12. AcceptedBatchFits
  BY <1>2 DEF AcceptedBatchFits
<1> QED
  BY <1>1, <1>3, <1>4, <1>5, <1>6, <1>7, <1>9, <1>10, <1>11, <1>12 DEF ZipIInv

LEMMA EntriesAreDocs ==
  ASSUME NEW es \in Seq(Entry)
  PROVE  \A n \in DOMAIN es : es[n] \in Entry /\ es[n].doc \in DocIds
<1>1. \A n \in DOMAIN es : es[n] \in Entry
  OBVIOUS
<1> QED
  BY <1>1 DEF Entry

\* A step that leaves the archive alone and no document done.
ArchiveOK ==
  /\ TakenOK /\ offset \in Nat /\ EntriesOK /\ NamesAreDistinct /\ GrownOK /\ Reserved
  /\ ArchiveFits /\ AcceptedBatchFits

ArchiveRests ==
  /\ UNCHANGED upload /\ UNCHANGED grown /\ UNCHANGED entries /\ UNCHANGED taken /\ UNCHANGED offset
  /\ \A k \in DocIds : docStatus'[k] = "done" <=> docStatus[k] = "done"

LEMMA RestingArchive ==
  ASSUME ArchiveOK, ArchiveRests, docStatus \in [DocIds -> {"pending", "signing"} \cup Run!Verdict]
  PROVE  ArchiveOK'
<1>1. /\ upload' = upload /\ grown' = grown /\ entries' = entries /\ taken' = taken
      /\ offset' = offset /\ \A k \in DocIds : docStatus'[k] = "done" <=> docStatus[k] = "done"
  BY DEF ArchiveRests
<1>2. TakenOK' /\ offset' \in Nat /\ NamesAreDistinct'
  BY <1>1 DEF ArchiveOK, TakenOK, NamesAreDistinct
<1>3. EntriesOK'
  <2>1. \A n \in DOMAIN entries : entries[n].doc \in DocIds
    BY EntriesAreDocs DEF ArchiveOK, EntriesOK
  <2> QED
    BY <1>1, <2>1 DEF ArchiveOK, EntriesOK
<1>4. GrownOK'
  BY <1>1 DEF ArchiveOK, GrownOK
<1>5. Reserved'
  <2>1. Cost' = Cost /\ (WithinAllowance' <=> WithinAllowance)
    BY <1>1 DEF Cost, WithinAllowance
  <2>2. \A k \in 0..Docs : NoneAfter(k)' => NoneAfter(k)
    BY <1>1 DEF NoneAfter
  <2>3. \A k \in 0..Docs : ReservedUpTo(k) => ReservedUpTo(k)'
    BY <1>1, <2>1 DEF ReservedUpTo
  <2> QED
    BY <2>2, <2>3 DEF ArchiveOK, Reserved
<1>6. ArchiveFits'
  BY <1>1 DEF ArchiveOK, ArchiveFits, ArchiveBytes, CentralBytes
<1>7. AcceptedBatchFits'
  BY <1>1 DEF ArchiveOK, AcceptedBatchFits, InArchive
<1> QED
  BY <1>2, <1>3, <1>4, <1>5, <1>6, <1>7 DEF ArchiveOK

\* A document is signed: what its step leaves of the archive.
Signed(k) ==
  /\ docStatus[k] = "signing" /\ docStatus' = [docStatus EXCEPT ![k] = "done"]
  /\ UNCHANGED upload

LEMMA BeforeSigning ==
  ASSUME ZipTypeOK, QueueOK, ArchiveOK, NEW k \in DocIds, Signed(k)
  PROVE  /\ NoneAfter(k - 1) /\ k - 1 \in 0..Docs /\ ReservedUpTo(k - 1)
         /\ Len(entries) < Docs /\ Cardinality(DOMAIN taken) < Docs
         /\ \A j \in DocIds : docStatus'[j] = "done" <=> j = k \/ docStatus[j] = "done"
         /\ \A m \in 0..Docs : NoneAfter(m)' => NoneAfter(m) /\ k <= m
<1>0. Docs \in Nat /\ k \in 1..Docs /\ k - 1 \in 0..Docs
  BY ZipAssumption DEF DocIds
<1>1. \A j \in DocIds : j > k => docStatus[j] # "done"
  <2> TAKE j \in DocIds
  <2>1. docStatus[j] # "pending" /\ j > k => docStatus[k] \in Run!Verdict
    BY <1>0 DEF QueueOK, DocIds
  <2> QED
    BY <2>1 DEF Signed, Run!Verdict
<1>2. NoneAfter(k - 1)
  <2> SUFFICES ASSUME NEW j \in DocIds, j > k - 1
               PROVE  docStatus[j] # "done"
    BY DEF NoneAfter
  <2>1. j = k \/ j > k
    BY <1>0 DEF DocIds
  <2> QED
    BY <1>1, <2>1 DEF Signed
<1>3. ReservedUpTo(k - 1)
  BY <1>0, <1>2 DEF ArchiveOK, Reserved
<1>4. Len(entries) < Docs /\ Cardinality(DOMAIN taken) < Docs
  <2>1. Len(entries) \in Nat /\ Cardinality(DOMAIN taken) \in Nat
    BY FS_CardinalityType DEF ArchiveOK, EntriesOK, TakenOK
  <2> QED
    BY <1>0, <1>3, <2>1 DEF ReservedUpTo
<1>5. \A j \in DocIds : docStatus'[j] = "done" <=> j = k \/ docStatus[j] = "done"
  BY DEF Signed, QueueOK
<1>6. ASSUME NEW m \in 0..Docs, NoneAfter(m)'
      PROVE  NoneAfter(m) /\ k <= m
  <2>1. \A j \in DocIds : j > m => docStatus'[j] # "done"
    BY <1>6 DEF NoneAfter
  <2>2. ~(k > m)
    BY <1>5, <2>1
  <2> QED
    BY <1>0, <1>5, <2>1, <2>2 DEF NoneAfter
<1> QED
  BY <1>0, <1>2, <1>3, <1>4, <1>5, <1>6

LEMMA SignedGrown ==
  ASSUME ArchiveOK, NEW k \in DocIds, Signed(k), NEW g \in Nat, grown' = [grown EXCEPT ![k] = g],
         \A j \in DocIds : docStatus'[j] = "done" <=> j = k \/ docStatus[j] = "done"
  PROVE  /\ GrownOK' /\ (WithinAllowance' => WithinAllowance /\ g <= Allowance)
<1>0. grown \in [DocIds -> Nat] /\ grown[k] = 0 /\ Allowance \in Nat
  BY ZipAssumption DEF ArchiveOK, GrownOK, Signed
<1>1. GrownOK'
  BY <1>0 DEF ArchiveOK, GrownOK
<1>2. WithinAllowance' => g <= Allowance
  BY <1>0 DEF WithinAllowance
<1>3. WithinAllowance' => WithinAllowance
  BY <1>0 DEF WithinAllowance
<1> QED
  BY <1>1, <1>2, <1>3

\* The document is in the archive.
InTheArchive(k, name, bytes) ==
  /\ entries' = Append(entries, [doc |-> k, name |-> name, bytes |-> bytes])
  /\ offset' = offset + EntryBytes(name, bytes)
  /\ Projected(name, bytes) <= MaxTotal
  /\ Len(entries) < MaxEntries

LEMMA AppendedIs ==
  ASSUME NEW S, NEW s \in Seq(S), NEW e \in S
  PROVE  /\ Append(s, e) \in Seq(S) /\ Len(Append(s, e)) = Len(s) + 1
         /\ DOMAIN Append(s, e) = DOMAIN s \cup {Len(s) + 1} /\ Len(s) + 1 \notin DOMAIN s
         /\ \A n \in DOMAIN s : Append(s, e)[n] = s[n]
         /\ Append(s, e)[Len(s) + 1] = e
OBVIOUS

LEMMA BytesAfter ==
  ASSUME NEW used \in Nat, NEW centre \in Nat, NEW h \in Nat, NEW n \in Nat, NEW bytes \in Nat,
         NEW x \in Nat, n <= x
  PROVE  (used + h + n + bytes) + (centre + h + n) <= used + centre + bytes + 2 * h + 2 * x
OBVIOUS

LEMMA WrittenArchive ==
  ASSUME ZipTypeOK, ArchiveOK, NEW k \in DocIds, Signed(k), NEW name \in Names, NEW bytes \in Nat,
         Given(name, taken'), InTheArchive(k, name, bytes),
         \A j \in DocIds : docStatus'[j] = "done" <=> j = k \/ docStatus[j] = "done"
  PROVE  /\ EntriesOK' /\ NamesAreDistinct' /\ ArchiveFits' /\ offset' \in Nat
         /\ InArchive' = InArchive \cup {k} /\ Len(entries') = Len(entries) + 1
         /\ offset' + Central(entries') <= offset + Central(entries) + bytes + 2 * Header + 2 * MaxName
<1> DEFINE e == [doc |-> k, name |-> name, bytes |-> bytes]
           new == Append(entries, e)
           N == Len(entries)
<1>0. e \in Entry /\ e.doc = k /\ e.name = name /\ entries \in Seq(Entry) /\ N \in Nat
  BY DEF Entry, ArchiveOK, EntriesOK
<1> HIDE DEF e
<1>1. /\ entries' = new /\ new \in Seq(Entry) /\ Len(new) = N + 1
      /\ DOMAIN new = DOMAIN entries \cup {N + 1} /\ N + 1 \notin DOMAIN entries
      /\ \A n \in DOMAIN entries : new[n] = entries[n]
      /\ new[N + 1] = e
  BY <1>0, AppendedIs DEF InTheArchive, e
<1> HIDE DEF new, N
<1>2. /\ Central(entries) \in Nat /\ Central(new) = Central(entries) + Header + NameBytes(name)
      /\ NameBytes(name) \in Nat /\ NameBytes(name) <= MaxName
      /\ Header \in Nat /\ MaxName \in Nat /\ offset \in Nat /\ MaxEntries \in Nat /\ MaxTotal \in Nat
  BY <1>0, CentralGrows, NameBytesAre, ZipAssumption DEF new, ArchiveOK
<1>3. offset' = offset + Header + NameBytes(name) + bytes /\ offset' \in Nat
  BY <1>2 DEF InTheArchive, EntryBytes
<1>4. EntriesOK'
  <2>1. \A n \in DOMAIN entries : /\ docStatus[entries[n].doc] = "done" /\ entries[n].doc \in DocIds
                                  /\ Fold(entries[n].name) \in DOMAIN taken
    BY <1>0, EntriesAreDocs DEF ArchiveOK, EntriesOK
  <2>2. \A n \in DOMAIN entries : entries[n].doc # k
    BY <2>1 DEF Signed
  <2>3. \A n \in DOMAIN new : docStatus'[new[n].doc] = "done" /\ Fold(new[n].name) \in DOMAIN taken'
    BY <1>0, <1>1, <2>1 DEF Given
  <2>4. \A m, n \in DOMAIN new : new[m].doc = new[n].doc => m = n
    BY <1>0, <1>1, <2>2 DEF ArchiveOK, EntriesOK
  <2> QED
    BY <1>1, <2>3, <2>4 DEF EntriesOK
<1>5. NamesAreDistinct'
  <2>1. \A n \in DOMAIN entries : Fold(entries[n].name) # Fold(name)
    BY DEF ArchiveOK, EntriesOK, Given
  <2>2. \A m, n \in DOMAIN entries : Fold(entries[m].name) = Fold(entries[n].name) => m = n
    BY DEF ArchiveOK, NamesAreDistinct, Fold
  <2>3. \A m, n \in DOMAIN new : Fold(new[m].name) = Fold(new[n].name) => m = n
    BY <1>0, <1>1, <2>1, <2>2
  <2> QED
    BY <1>1, <2>3 DEF NamesAreDistinct, Fold
<1>6. ArchiveFits'
  <2>1. Len(entries') <= MaxEntries
    BY <1>0, <1>1, <1>2 DEF InTheArchive, N
  <2>2. offset + Central(entries) + (Header + NameBytes(name) + bytes) + Header + NameBytes(name) + Header
          <= MaxTotal
    BY DEF InTheArchive, Projected, EntryBytes, CentralBytes, Central
  <2>3. offset' + Central(entries') + Header <= MaxTotal
    <3>1. /\ offset' = offset + Header + NameBytes(name) + bytes
          /\ Central(entries') = Central(entries) + Header + NameBytes(name)
      BY <1>1, <1>2, <1>3
    <3> DEFINE all == offset' + Central(entries') + Header
               sum == offset + Central(entries) + (Header + NameBytes(name) + bytes)
                        + Header + NameBytes(name) + Header
    <3>2. all = sum
      BY <1>2, <3>1
    <3> HIDE DEF all, sum
    <3>3. sum <= MaxTotal
      BY <2>2 DEF sum
    <3>4. all <= MaxTotal
      BY <3>2, <3>3
    <3> QED
      BY <3>4 DEF all
  <2> QED
    BY <2>1, <2>3 DEF ArchiveFits, ArchiveBytes, CentralBytes, Central
<1>7. InArchive' = InArchive \cup {k}
  BY <1>0, <1>1 DEF InArchive
<1>8. offset' + Central(entries') <= offset + Central(entries) + bytes + 2 * Header + 2 * MaxName
  <2>1. /\ offset' = offset + Header + NameBytes(name) + bytes
        /\ Central(entries') = Central(entries) + Header + NameBytes(name)
    BY <1>1, <1>2, <1>3
  <2> QED
    BY <1>0, <1>2, <2>1, BytesAfter
<1> QED
  BY <1>1, <1>3, <1>4, <1>5, <1>6, <1>7, <1>8 DEF N

LEMMA CostsUpTo ==
  ASSUME ZipTypeOK, NEW k \in DocIds
  PROVE  /\ Total(Cost, k - 1) \in Nat /\ Total(Cost, k) \in Nat
         /\ Total(Cost, k) = Total(Cost, k - 1) + upload[k].size + Allowance + 2 * Header + 2 * MaxName
         /\ \A m \in 0..Docs : k <= m => Total(Cost, k) <= Total(Cost, m)
         /\ Header + Total(Cost, k) <= Estimate
<1>0. Docs \in Nat /\ k \in 1..Docs /\ k \in 0..Docs /\ k - 1 \in 0..Docs /\ Docs \in 0..Docs
  BY ZipAssumption DEF DocIds
<1>1. /\ Adds(Cost, Docs) /\ Estimate = Header + Total(Cost, Docs) /\ upload[k].size \in Nat
      /\ Allowance \in Nat /\ Header \in Nat /\ MaxName \in Nat
  BY CostIs, ZipAssumption
<1>2. /\ \A m \in 0..Docs : Total(Cost, m) \in Nat
      /\ Total(Cost, k) = Total(Cost, k - 1) + Cost[k]
  BY <1>0, <1>1, TotalOf
<1>3. Cost[k] = upload[k].size + Allowance + 2 * Header + 2 * MaxName
  BY DEF Cost
<1>4. ASSUME NEW m \in 0..Docs, k <= m
      PROVE  Total(Cost, k) <= Total(Cost, m)
  <2>1. m \in Nat /\ k \in 0..m /\ Adds(Cost, m)
    BY <1>0, <1>1, <1>4 DEF Adds
  <2> QED
    BY <2>1, TotalGrows
<1>5. Total(Cost, k) <= Total(Cost, Docs)
  BY <1>0, <1>4
<1>6. Total(Cost, k - 1) \in Nat /\ Total(Cost, k) \in Nat /\ Total(Cost, Docs) \in Nat
  BY <1>0, <1>2
<1>7. Total(Cost, k) = Total(Cost, k - 1) + upload[k].size + Allowance + 2 * Header + 2 * MaxName
  BY <1>1, <1>2, <1>3, <1>6
<1>8. Header + Total(Cost, k) <= Estimate
  BY <1>1, <1>5, <1>6
<1> QED
  BY <1>4, <1>6, <1>7, <1>8

LEMMA RoomWasReserved ==
  ASSUME ZipTypeOK, ArchiveOK, NEW k \in DocIds, ReservedUpTo(k - 1), Len(entries) < Docs, Fits,
         WithinAllowance, NEW g \in Nat, g <= Allowance, NEW name
  PROVE  Len(entries) < MaxEntries /\ Projected(name, upload[k].size + g) <= MaxTotal
<1> DEFINE size == upload[k].size
           used == offset + Central(entries)
           before == Total(Cost, k - 1)
<1>1. /\ Docs \in Nat /\ MaxEntries \in Nat /\ MaxTotal \in Nat /\ Allowance \in Nat
      /\ Header \in Nat /\ MaxName \in Nat /\ size \in Nat /\ Len(entries) \in Nat
  BY ZipAssumption, CostIs DEF ArchiveOK, EntriesOK
<1>2. offset \in Nat /\ Central(entries) \in Nat /\ used <= before
  BY CentralIsNat DEF ArchiveOK, EntriesOK, ReservedUpTo
<1>3. before \in Nat /\ Header + Total(Cost, k) <= Estimate /\ Estimate <= MaxTotal
      /\ Total(Cost, k) = before + size + Allowance + 2 * Header + 2 * MaxName
      /\ Docs <= MaxEntries
  BY CostsUpTo DEF Fits
<1>4. NameBytes(name) \in Nat /\ NameBytes(name) <= MaxName
  BY NameBytesAre
<1>5. Projected(name, size + g) =
        used + (Header + NameBytes(name) + (size + g)) + Header + NameBytes(name) + Header
  BY DEF Projected, EntryBytes, CentralBytes, Central
<1>6. used \in Nat
  BY <1>2
<1>7. Estimate \in Nat
  <2>1. Adds(Cost, Docs) /\ Docs \in 0..Docs /\ Estimate = Header + Total(Cost, Docs)
    BY <1>1, CostIs
  <2> QED
    BY <1>1, <2>1, TotalOf
<1> HIDE DEF size, used, before
<1>8. Projected(name, size + g) <= MaxTotal
  BY <1>1, <1>2, <1>3, <1>4, <1>5, <1>6, <1>7
<1> QED
  BY <1>1, <1>3, <1>8 DEF size

LEMMA GivenIsOneMore ==
  ASSUME TakenOK, NEW name, Given(name, taken')
  PROVE  /\ TakenOK' /\ Cardinality(DOMAIN taken') = Cardinality(DOMAIN taken) + 1
         /\ DOMAIN taken \subseteq DOMAIN taken'
<1>1. /\ DOMAIN taken' = DOMAIN taken \cup {Fold(name)} /\ Fold(name) \notin DOMAIN taken
      /\ \A x \in DOMAIN taken' : taken'[x] \in Nat
  BY DEF Given
<1>2. /\ IsFiniteSet(DOMAIN taken \cup {Fold(name)})
      /\ Cardinality(DOMAIN taken \cup {Fold(name)}) = Cardinality(DOMAIN taken) + 1
  BY <1>1, FS_AddElement DEF TakenOK
<1> QED
  BY <1>1, <1>2 DEF TakenOK

\* What adding a document does, whether it is written or found too big.
Attempted(k, bytes) ==
  \/ UNCHANGED archiveVars /\ Len(entries) >= MaxEntries
  \/ \E name \in Names :
       Given(name, taken')
       /\ \/ InTheArchive(k, name, bytes)
          \/ ~(Projected(name, bytes) <= MaxTotal) /\ UNCHANGED <<entries, offset>>

LEMMA AddAttempts ==
  ASSUME ZipTypeOK, TakenOK, Cardinality(DOMAIN taken) < Docs, entries \in Seq(Entry),
         NEW k \in DocIds, NEW bytes, AddPdf(k, bytes)
  PROVE  Attempted(k, bytes)
<1>1. CASE Len(entries) >= MaxEntries
  BY <1>1 DEF AddPdf, Attempted
<1>2. CASE ~(Len(entries) >= MaxEntries)
  <2>1. PICK name :
          /\ Resolved(NameOf(upload[k]), name, taken')
          /\ IF Projected(name, bytes) <= MaxTotal
             THEN /\ entries' = Append(entries, [doc |-> k, name |-> name, bytes |-> bytes])
                  /\ offset' = offset + EntryBytes(name, bytes)
             ELSE UNCHANGED <<entries, offset>>
    BY <1>2 DEF AddPdf
  <2>2. upload[k] \in Uploads
    BY DEF ZipTypeOK
  <2>3. name \in Names /\ Given(name, taken')
    BY <2>1, <2>2, ResolvedIs
  <2>4. Len(entries) < MaxEntries
    BY <1>2, ZipAssumption
  <2> QED
    BY <2>1, <2>3, <2>4 DEF Attempted, InTheArchive
<1> QED
  BY <1>1, <1>2

LEMMA CountIn ==
  ASSUME NEW a \in Nat, NEW k \in Nat, NEW m \in Nat, a <= k - 1, k <= m
  PROVE  a + 1 <= m /\ a <= m
OBVIOUS

LEMMA BytesIn ==
  ASSUME NEW used \in Nat, NEW before \in Nat, NEW bytes \in Nat, NEW size \in Nat, NEW allowance \in Nat,
         NEW h \in Nat, NEW x \in Nat, NEW name \in Nat, used <= before, bytes <= size + allowance,
         name <= used + bytes + 2 * h + 2 * x
  PROVE  name <= before + size + allowance + 2 * h + 2 * x
OBVIOUS

LEMMA SigningKeepsArchive ==
  ASSUME ZipTypeOK, QueueOK, ArchiveOK, Fits, NEW k \in DocIds, Signed(k), NEW g \in Nat,
         grown' = [grown EXCEPT ![k] = g], AddPdf(k, upload[k].size + g)
  PROVE  ArchiveOK' /\ (\A n \in DOMAIN entries' : entries'[n].doc \in DocIds)
<1> DEFINE bytes == upload[k].size + g
<1>0. /\ k \in 1..Docs /\ Docs \in Nat /\ MaxEntries \in Nat /\ MaxTotal \in Nat /\ Allowance \in Nat
      /\ Header \in Nat /\ MaxName \in Nat /\ upload[k].size \in Nat /\ bytes \in Nat
  BY ZipAssumption, CostIs DEF DocIds
<1>1. /\ TakenOK /\ entries \in Seq(Entry) /\ offset \in Nat /\ Len(entries) \in Nat
      /\ Cardinality(DOMAIN taken) \in Nat /\ Central(entries) \in Nat
  BY FS_CardinalityType, CentralIsNat DEF ArchiveOK, EntriesOK, TakenOK
<1>2. /\ ReservedUpTo(k - 1) /\ Len(entries) < Docs /\ Cardinality(DOMAIN taken) < Docs
      /\ \A j \in DocIds : docStatus'[j] = "done" <=> j = k \/ docStatus[j] = "done"
      /\ \A m \in 0..Docs : NoneAfter(m)' => NoneAfter(m) /\ k <= m
  BY BeforeSigning
<1>3. GrownOK' /\ (WithinAllowance' => WithinAllowance /\ g <= Allowance)
  BY <1>2, SignedGrown
<1>4. Attempted(k, bytes)
  BY <1>1, <1>2, AddAttempts
<1>5. upload' = upload /\ Cost' = Cost
  BY DEF Signed, Cost
<1>6. /\ Total(Cost, k - 1) \in Nat /\ Total(Cost, k) \in Nat
      /\ Total(Cost, k) = Total(Cost, k - 1) + upload[k].size + Allowance + 2 * Header + 2 * MaxName
      /\ \A m \in 0..Docs : k <= m => Total(Cost, k) <= Total(Cost, m)
  BY CostsUpTo
<1>7. WithinAllowance' => \A name : Len(entries) < MaxEntries /\ Projected(name, bytes) <= MaxTotal
  <2> SUFFICES ASSUME WithinAllowance', NEW name
               PROVE  Len(entries) < MaxEntries /\ Projected(name, bytes) <= MaxTotal
    OBVIOUS
  <2>1. WithinAllowance /\ g <= Allowance
    BY <1>3
  <2> QED
    BY <1>2, <2>1, RoomWasReserved
<1> HIDE DEF bytes
<1>8. CASE \E name \in Names : Given(name, taken') /\ InTheArchive(k, name, bytes)
  <2>1. PICK name \in Names : Given(name, taken') /\ InTheArchive(k, name, bytes)
    BY <1>8
  <2>2. /\ EntriesOK' /\ NamesAreDistinct' /\ ArchiveFits' /\ offset' \in Nat
        /\ InArchive' = InArchive \cup {k} /\ Len(entries') = Len(entries) + 1
        /\ offset' + Central(entries') <= offset + Central(entries) + bytes + 2 * Header + 2 * MaxName
    BY <1>0, <1>2, <2>1, WrittenArchive
  <2>3. TakenOK' /\ Cardinality(DOMAIN taken') = Cardinality(DOMAIN taken) + 1
    BY <1>1, <2>1, GivenIsOneMore
  <2>4. Central(entries') \in Nat
    BY <2>2, CentralIsNat DEF EntriesOK
  <2>5. Reserved'
    <3> SUFFICES ASSUME NEW m \in 0..Docs, NoneAfter(m)'
                 PROVE  ReservedUpTo(m)'
      BY DEF Reserved
    <3>1. k <= m
      BY <1>2
    <3>2. Len(entries') <= m /\ Cardinality(DOMAIN taken') <= m
      <4>1. Len(entries) <= k - 1 /\ Cardinality(DOMAIN taken) <= k - 1 /\ k \in Nat /\ m \in Nat
        BY <1>0, <1>2 DEF ReservedUpTo
      <4>2. Len(entries) + 1 <= m /\ Cardinality(DOMAIN taken) + 1 <= m
        BY <1>1, <3>1, <4>1, CountIn
      <4> QED
        BY <2>2, <2>3, <4>2
    <3>3. ASSUME WithinAllowance'
          PROVE  offset' + Central(entries') <= Total(Cost, m)
      <4>1. offset + Central(entries) <= Total(Cost, k - 1) /\ g <= Allowance
        BY <1>2, <1>3, <3>3 DEF ReservedUpTo
      <4>2. bytes <= upload[k].size + Allowance
        BY <1>0, <4>1 DEF bytes
      <4>3. offset' + Central(entries') <= Total(Cost, k)
        <5> DEFINE all == offset' + Central(entries')
                   used == offset + Central(entries)
        <5>1. all \in Nat /\ used \in Nat
          BY <1>1, <2>2, <2>4
        <5>2. all <= used + bytes + 2 * Header + 2 * MaxName /\ used <= Total(Cost, k - 1)
          BY <2>2, <4>1
        <5> HIDE DEF all, used
        <5>3. all <= Total(Cost, k - 1) + upload[k].size + Allowance + 2 * Header + 2 * MaxName
          BY <1>0, <1>6, <4>2, <5>1, <5>2, BytesIn
        <5> QED
          BY <1>6, <5>3 DEF all
      <4>4. Total(Cost, k) <= Total(Cost, m)
        BY <1>6, <3>1
      <4>5. Total(Cost, m) \in Nat
        BY <1>0, CostIs, TotalOf
      <4> QED
        BY <1>6, <2>2, <2>4, <4>3, <4>4, <4>5
    <3> QED
      BY <1>5, <3>2, <3>3 DEF ReservedUpTo
  <2>6. AcceptedBatchFits'
    <3> SUFFICES ASSUME WithinAllowance', NEW j \in DocIds, docStatus'[j] = "done"
                 PROVE  j \in InArchive'
      BY DEF AcceptedBatchFits, WithinAllowance
    <3>1. j = k \/ docStatus[j] = "done"
      BY <1>2
    <3>2. WithinAllowance
      BY <1>3
    <3>3. docStatus[j] = "done" => j \in InArchive
      BY <3>2 DEF ArchiveOK, AcceptedBatchFits, WithinAllowance
    <3> QED
      BY <2>2, <3>1, <3>3
  <2>7. \A n \in DOMAIN entries' : entries'[n].doc \in DocIds
    BY <2>2, EntriesAreDocs DEF EntriesOK
  <2> QED
    BY <1>3, <2>2, <2>3, <2>5, <2>6, <2>7 DEF ArchiveOK
<1>9. CASE ~ \E name \in Names : Given(name, taken') /\ InTheArchive(k, name, bytes)
  <2>1. /\ entries' = entries /\ offset' = offset /\ ~WithinAllowance'
        /\ (taken' = taken \/ \E name \in Names : Given(name, taken'))
    <3>1. CASE UNCHANGED archiveVars /\ Len(entries) >= MaxEntries
      <4>1. ~(Len(entries) < MaxEntries)
        BY <1>0, <1>1, <3>1
      <4> QED
        BY <1>7, <3>1, <4>1 DEF archiveVars
    <3>2. CASE \E name \in Names : /\ Given(name, taken') /\ ~(Projected(name, bytes) <= MaxTotal)
                                   /\ UNCHANGED <<entries, offset>>
      BY <1>7, <3>2
    <3> QED
      BY <1>4, <1>9, <3>1, <3>2 DEF Attempted
  <2>2. /\ TakenOK' /\ Cardinality(DOMAIN taken') <= Cardinality(DOMAIN taken) + 1
        /\ DOMAIN taken \subseteq DOMAIN taken'
    BY <1>1, <2>1, GivenIsOneMore DEF TakenOK
  <2>3. Cardinality(DOMAIN taken') \in Nat
    BY <2>2, FS_CardinalityType DEF TakenOK
  <2>4. Reserved'
    <3> SUFFICES ASSUME NEW m \in 0..Docs, NoneAfter(m)'
                 PROVE  ReservedUpTo(m)'
      BY DEF Reserved
    <3>1. k <= m
      BY <1>2
    <3>2. Len(entries') <= m /\ Cardinality(DOMAIN taken') <= m
      BY <1>0, <1>1, <1>2, <2>1, <2>2, <2>3, <3>1 DEF ReservedUpTo
    <3> QED
      BY <2>1, <3>2 DEF ReservedUpTo
  <2>5. EntriesOK'
    <3>1. \A n \in DOMAIN entries : /\ docStatus[entries[n].doc] = "done" /\ entries[n].doc \in DocIds
                                    /\ Fold(entries[n].name) \in DOMAIN taken
      BY <1>1, EntriesAreDocs DEF ArchiveOK, EntriesOK
    <3>2. \A n \in DOMAIN entries :
            docStatus'[entries[n].doc] = "done" /\ Fold(entries[n].name) \in DOMAIN taken'
      BY <1>2, <2>2, <3>1
    <3> QED
      BY <1>1, <2>1, <3>2 DEF ArchiveOK, EntriesOK
  <2>6. NamesAreDistinct' /\ ArchiveFits' /\ offset' \in Nat
    BY <1>1, <2>1 DEF ArchiveOK, NamesAreDistinct, ArchiveFits, ArchiveBytes, CentralBytes
  <2>7. AcceptedBatchFits'
    BY <2>1 DEF AcceptedBatchFits, WithinAllowance
  <2>8. \A n \in DOMAIN entries' : entries'[n].doc \in DocIds
    BY <1>1, <2>1, EntriesAreDocs
  <2> QED
    BY <1>3, <2>2, <2>4, <2>5, <2>6, <2>7, <2>8 DEF ArchiveOK
<1> QED
  BY <1>8, <1>9

-----------------------------------------------------------------------------
(* Every step.                                                             *)

LEMMA ZipParts == ZipIInv <=> ZipTypeOK /\ QueueOK /\ ArchiveOK /\ OutcomeOK
BY DEF ZipIInv, ArchiveOK

LEMMA VerdictsAre == Run!Verdict = {"done", "failed", "needs_review", "cancelled"} /\ Run!Items = DocIds
BY DEF Run!Verdict, Run!Items, DocIds

LEMMA QueueMoved ==
  ASSUME QueueOK, NEW k \in DocIds, NEW v \in {"signing"} \cup Run!Verdict,
         docStatus' = [docStatus EXCEPT ![k] = v],
         \A j \in DocIds : j < k => docStatus[j] \in Run!Verdict, docStatus[k] \notin Run!Verdict
  PROVE  QueueOK'
<1>1. docStatus \in [DocIds -> {"pending", "signing"} \cup Run!Verdict]
  BY DEF QueueOK
<1>2. docStatus' \in [DocIds -> {"pending", "signing"} \cup Run!Verdict]
  BY <1>1
<1>3. ASSUME NEW i \in DocIds, NEW j \in DocIds, i < j, docStatus'[j] # "pending"
      PROVE  docStatus'[i] \in Run!Verdict
  <2>1. CASE j = k
    <3>1. i # k /\ docStatus[i] \in Run!Verdict
      BY <1>3, <2>1 DEF DocIds
    <3> QED
      BY <1>1, <3>1
  <2>2. CASE j # k
    <3>1. docStatus[i] \in Run!Verdict
      BY <1>1, <1>3, <2>2 DEF QueueOK
    <3> QED
      BY <1>1, <3>1
  <2> QED
    BY <2>1, <2>2
<1> QED
  BY <1>2, <1>3 DEF QueueOK

\* The queue moves a document: no verdict changes, and who has none may get one.
LEMMA QueueSteps ==
  ASSUME QueueOK, NEW k \in DocIds,
         Run!Begin(k) \/ Run!Decide(k, "failed") \/ Run!Decide(k, "needs_review")
           \/ Run!Decide(k, "done") \/ Run!GiveUp(k, "failed") \/ Run!GiveUp(k, "cancelled")
  PROVE  /\ QueueOK'
         /\ ~Run!Decide(k, "done") =>
              \A j \in DocIds : docStatus'[j] = "done" <=> docStatus[j] = "done"
<1>1. docStatus \in [DocIds -> {"pending", "signing"} \cup Run!Verdict]
  BY DEF QueueOK
<1>2. CASE Run!Begin(k)
  <2>1. /\ docStatus[k] = "pending" /\ docStatus' = [docStatus EXCEPT ![k] = "signing"]
        /\ \A j \in DocIds : j < k => docStatus[j] \in Run!Verdict
    BY <1>2, VerdictsAre DEF Run!Begin, Run!Turn
  <2>2. docStatus[k] \notin Run!Verdict /\ "signing" \in {"signing"} \cup Run!Verdict
    BY <2>1, VerdictsAre
  <2> QED
    BY <1>1, <2>1, <2>2, QueueMoved
<1>3. ASSUME NEW v \in {"failed", "cancelled"}, Run!GiveUp(k, v)
      PROVE  QueueOK' /\ \A j \in DocIds : docStatus'[j] = "done" <=> docStatus[j] = "done"
  <2>1. /\ docStatus[k] = "pending" /\ docStatus' = [docStatus EXCEPT ![k] = v]
        /\ \A j \in DocIds : j < k => docStatus[j] \in Run!Verdict
    BY <1>3, VerdictsAre DEF Run!GiveUp, Run!Turn
  <2>2. docStatus[k] \notin Run!Verdict /\ v \in {"signing"} \cup Run!Verdict
    BY <2>1, VerdictsAre
  <2> QED
    BY <1>1, <2>1, <2>2, QueueMoved
<1>4. ASSUME NEW v \in {"done", "failed", "needs_review"}, Run!Decide(k, v)
      PROVE  QueueOK' /\ (v # "done" => \A j \in DocIds : docStatus'[j] = "done" <=> docStatus[j] = "done")
  <2>1. docStatus[k] = "signing" /\ docStatus' = [docStatus EXCEPT ![k] = v]
    BY <1>4 DEF Run!Decide
  <2>2. \A j \in DocIds : j < k => docStatus[j] \in Run!Verdict
    BY <2>1 DEF QueueOK
  <2>3. docStatus[k] \notin Run!Verdict /\ v \in {"signing"} \cup Run!Verdict
    BY <2>1, VerdictsAre
  <2> QED
    BY <1>1, <2>1, <2>2, <2>3, QueueMoved
<1>5. QueueOK'
  BY <1>2, <1>3, <1>4
<1>6. ASSUME ~Run!Decide(k, "done")
      PROVE  \A j \in DocIds : docStatus'[j] = "done" <=> docStatus[j] = "done"
  <2>1. CASE Run!Begin(k)
    <3>1. docStatus[k] = "pending" /\ docStatus' = [docStatus EXCEPT ![k] = "signing"]
      BY <2>1 DEF Run!Begin, Run!Turn
    <3> QED
      BY <1>1, <3>1
  <2> QED
    BY <1>3, <1>4, <1>6, <2>1
<1> QED
  BY <1>5, <1>6

LEMMA Rests ==
  ASSUME ZipIInv, UNCHANGED <<upload, grown, archiveVars, docStatus>>
  PROVE  ArchiveOK' /\ QueueOK' /\ LeftOut' = LeftOut /\ (Fits' <=> Fits)
         /\ (\A n \in DOMAIN entries' : entries'[n].doc \in DocIds)
<1>1. ArchiveRests
  BY DEF ArchiveRests, archiveVars
<1>2. ArchiveOK'
  BY <1>1, ZipParts, RestingArchive DEF QueueOK
<1>3. QueueOK'
  BY ZipParts DEF QueueOK
<1>4. LeftOut' = LeftOut
  BY DEF LeftOut, InArchive, archiveVars
<1>5. Fits' <=> Fits
  BY DEF Fits, Estimate
<1>6. \A n \in DOMAIN entries' : entries'[n].doc \in DocIds
  BY ZipParts DEF ZipTypeOK, archiveVars
<1> QED
  BY <1>2, <1>3, <1>4, <1>5, <1>6

LEMMA ZipStep ==
  ASSUME ZipIInv, [ZipNext]_zipVars
  PROVE  ZipIInv'
<1>0. ZipTypeOK /\ QueueOK /\ ArchiveOK /\ OutcomeOK
  BY ZipParts
<1>1. CASE SignBatchToZip
  <2>1. /\ UNCHANGED <<upload, grown, archiveVars, docStatus>> /\ excluded' = excluded
        /\ zipPhase' = IF Fits THEN "running" ELSE "refused"
    BY <1>1 DEF SignBatchToZip, queueRunVars
  <2>2. ArchiveOK' /\ QueueOK' /\ (Fits' <=> Fits) /\ \A n \in DOMAIN entries' : entries'[n].doc \in DocIds
    BY <2>1, Rests
  <2>3. ZipTypeOK'
    BY <1>0, <2>1, <2>2 DEF ZipTypeOK
  <2>4. OutcomeOK'
    BY <2>1, <2>2 DEF OutcomeOK
  <2> QED
    BY <2>2, <2>3, <2>4 DEF ZipIInv, ArchiveOK
<1>2. CASE QueueMoves
  <2>1. PICK k \in DocIds :
          Run!Begin(k) \/ Run!Decide(k, "failed") \/ Run!Decide(k, "needs_review")
            \/ Run!GiveUp(k, "failed") \/ Run!GiveUp(k, "cancelled")
    BY <1>2 DEF QueueMoves
  <2>2. /\ zipPhase = "running" /\ zipPhase' = zipPhase /\ upload' = upload /\ grown' = grown
        /\ UNCHANGED archiveVars /\ excluded' = excluded
    BY <1>2 DEF QueueMoves
  <2>3. ~Run!Decide(k, "done")
    <3>1. docStatus \in [DocIds -> {"pending", "signing"} \cup Run!Verdict]
      BY <1>0 DEF QueueOK
    <3> SUFFICES ASSUME Run!Decide(k, "done")
                 PROVE  FALSE
      OBVIOUS
    <3>2. docStatus[k] = "signing" /\ docStatus'[k] = "done"
      BY <3>1 DEF Run!Decide
    <3> QED
      BY <2>1, <3>1, <3>2 DEF Run!Begin, Run!Decide, Run!GiveUp, Run!Turn
  <2>4. QueueOK' /\ \A j \in DocIds : docStatus'[j] = "done" <=> docStatus[j] = "done"
    BY <1>0, <2>1, <2>3, QueueSteps
  <2>5. ArchiveRests
    BY <2>2, <2>4 DEF ArchiveRests, archiveVars
  <2>6. ArchiveOK'
    BY <1>0, <2>5, RestingArchive DEF QueueOK
  <2>7. ZipTypeOK'
    BY <1>0, <2>2 DEF ZipTypeOK, archiveVars
  <2>8. OutcomeOK'
    <3>1. Fits' <=> Fits
      BY <2>2 DEF Fits, Estimate
    <3> QED
      BY <1>0, <2>2, <3>1 DEF OutcomeOK
  <2> QED
    BY <2>4, <2>6, <2>7, <2>8 DEF ZipIInv, ArchiveOK
<1>3. CASE Deliver
  <2>1. /\ UNCHANGED <<upload, grown, archiveVars, docStatus>> /\ zipPhase = "running"
        /\ zipPhase' = "delivered" /\ DOMAIN excluded' = LeftOut
        /\ \A k \in DocIds : docStatus[k] \in Run!Verdict
    BY <1>3, VerdictsAre DEF Deliver, Run!Return
  <2>2. ArchiveOK' /\ QueueOK' /\ (Fits' <=> Fits) /\ LeftOut' = LeftOut
        /\ \A n \in DOMAIN entries' : entries'[n].doc \in DocIds
    BY <2>1, Rests
  <2>3. ZipTypeOK'
    BY <1>0, <2>1, <2>2 DEF ZipTypeOK, LeftOut
  <2>4. OutcomeOK'
    BY <1>0, <2>1, <2>2 DEF OutcomeOK
  <2> QED
    BY <2>2, <2>3, <2>4 DEF ZipIInv, ArchiveOK
<1>4. CASE RunThrows
  <2>1. /\ UNCHANGED <<upload, grown, archiveVars, docStatus>> /\ zipPhase = "running"
        /\ zipPhase' = "threw" /\ excluded' = excluded
    BY <1>4 DEF RunThrows, Run!Throw
  <2>2. ArchiveOK' /\ QueueOK' /\ (Fits' <=> Fits) /\ \A n \in DOMAIN entries' : entries'[n].doc \in DocIds
    BY <2>1, Rests
  <2>3. ZipTypeOK'
    BY <1>0, <2>1, <2>2 DEF ZipTypeOK
  <2>4. OutcomeOK'
    BY <1>0, <2>1, <2>2 DEF OutcomeOK
  <2> QED
    BY <2>2, <2>3, <2>4 DEF ZipIInv, ArchiveOK
<1>5. ASSUME NEW k \in DocIds, DocumentSigned(k)
      PROVE  ZipIInv'
  <2>1. PICK g \in Growths : grown' = [grown EXCEPT ![k] = g] /\ AddPdf(k, upload[k].size + g)
    BY <1>5 DEF DocumentSigned
  <2>2. /\ Run!Decide(k, "done") /\ zipPhase = "running" /\ zipPhase' = zipPhase /\ upload' = upload
        /\ excluded' = excluded
    BY <1>5 DEF DocumentSigned
  <2>3. Signed(k) /\ Fits /\ g \in Nat
    BY <1>0, <2>2, ZipAssumption DEF Run!Decide, Signed, OutcomeOK
  <2>4. ArchiveOK' /\ \A n \in DOMAIN entries' : entries'[n].doc \in DocIds
    BY <1>0, <2>1, <2>3, SigningKeepsArchive
  <2>5. QueueOK'
    BY <1>0, <2>2, QueueSteps
  <2>6. ZipTypeOK'
    BY <1>0, <2>2, <2>4 DEF ZipTypeOK
  <2>7. OutcomeOK'
    <3>1. Fits' <=> Fits
      BY <2>2 DEF Fits, Estimate
    <3> QED
      BY <1>0, <2>2, <3>1 DEF OutcomeOK
  <2> QED
    BY <2>4, <2>5, <2>6, <2>7 DEF ZipIInv, ArchiveOK
<1>6. CASE UNCHANGED zipVars
  <2>1. /\ UNCHANGED <<upload, grown, archiveVars, docStatus>> /\ zipPhase' = zipPhase
        /\ excluded' = excluded
    BY <1>6 DEF zipVars, queueRunVars
  <2>2. ArchiveOK' /\ QueueOK' /\ (Fits' <=> Fits) /\ LeftOut' = LeftOut
        /\ \A n \in DOMAIN entries' : entries'[n].doc \in DocIds
    BY <2>1, Rests
  <2>3. ZipTypeOK'
    BY <1>0, <2>1, <2>2 DEF ZipTypeOK
  <2>4. OutcomeOK'
    BY <1>0, <2>1, <2>2 DEF OutcomeOK
  <2> QED
    BY <2>2, <2>3, <2>4 DEF ZipIInv, ArchiveOK
<1> QED
  BY <1>1, <1>2, <1>3, <1>4, <1>5, <1>6 DEF ZipNext

LEMMA ArchivedOnce ==
  ASSUME EntriesOK
  PROVE  Cardinality(InArchive) = Len(entries)
<1> DEFINE N == Len(entries)
           f == [n \in 1..N |-> entries[n].doc]
<1>1. N \in Nat /\ DOMAIN entries = 1..N
  BY DEF EntriesOK
<1>2. f \in Bijection(1..N, InArchive)
  <2>1. f \in [1..N -> InArchive]
    BY <1>1 DEF InArchive
  <2>2. \A m, n \in 1..N : f[m] = f[n] => m = n
    BY <1>1 DEF EntriesOK
  <2>3. \A k \in InArchive : \E n \in 1..N : f[n] = k
    BY <1>1 DEF InArchive
  <2> HIDE DEF f
  <2> QED
    BY <2>1, <2>2, <2>3 DEF Bijection, Injection, Surjection, IsInjective
<1>3. IsFiniteSet(1..N) /\ Cardinality(1..N) = N
  <2>1. /\ IsFiniteSet(1..N)
        /\ Cardinality(1..N) = IF 1 > N THEN 0 ELSE N - 1 + 1
    BY <1>1, FS_Interval
  <2> QED
    BY <1>1, <2>1
<1>4. ExistsBijection(1..N, InArchive)
  BY <1>2, Zenon DEF ExistsBijection
<1> QED
  BY <1>3, <1>4, FS_Bijection

LEMMA ZipIInvImplies == ZipIInv => ZipInv
<1> SUFFICES ASSUME ZipIInv
             PROVE  ZipInv
  OBVIOUS
<1>1. /\ ZipTypeOK /\ QueueOK /\ EntriesOK /\ NamesAreDistinct /\ ArchiveFits /\ AcceptedBatchFits
      /\ OutcomeOK
  BY DEF ZipIInv
<1>2. NobodyIsLost
  <2> SUFFICES ASSUME zipPhase = "delivered"
               PROVE  /\ InArchive \cup DOMAIN excluded = DocIds
                      /\ InArchive \cap DOMAIN excluded = {}
                      /\ Cardinality(InArchive) = Len(entries)
    BY DEF NobodyIsLost
  <2>1. (\A k \in DocIds : docStatus[k] \in Run!Verdict) /\ DOMAIN excluded = LeftOut
    BY <1>1 DEF OutcomeOK
  <2>2. \A k \in InArchive : k \in DocIds /\ docStatus[k] = "done"
    <3>1. \A n \in DOMAIN entries : docStatus[entries[n].doc] = "done" /\ entries[n].doc \in DocIds
      BY <1>1, EntriesAreDocs DEF EntriesOK
    <3> QED
      BY <3>1 DEF InArchive
  <2>3. \A k \in DocIds : k \in InArchive \/ k \in LeftOut
    BY <2>1, VerdictsAre DEF LeftOut
  <2>4. \A k \in LeftOut : k \in DocIds /\ k \notin InArchive
    BY <2>2 DEF LeftOut
  <2> QED
    BY <1>1, <2>1, <2>2, <2>3, <2>4, ArchivedOnce
<1> QED
  BY <1>1, <1>2 DEF ZipInv

\* No two entries of an archive land on the same file when it is extracted, the
\* archive never exceeds what can be closed, every document of a delivered batch is
\* in it exactly once or listed as left out, and an accepted batch whose signatures
\* keep to the allowance loses none of its signed documents: for any number of
\* documents, any files and any limits.
THEOREM ZipInvariance == ZipSpec => []ZipInv
<1>1. ZipInit => ZipIInv
  BY ZipInitially
<1>2. ZipIInv /\ [ZipNext]_zipVars => ZipIInv'
  BY ZipStep
<1>3. ZipIInv => ZipInv
  BY ZipIInvImplies
<1> QED
  BY <1>1, <1>2, <1>3, PTL DEF ZipSpec

-----------------------------------------------------------------------------
(* The elements a list keeps (Without).                                    *)

IsKept(t, s, S, n) ==
  t = [m \in 0..n |-> IF m = 0 THEN <<>> ELSE IF s[m] \in S THEN t[m - 1] ELSE Append(t[m - 1], s[m])]

LEMMA KeptGrows ==
  ASSUME NEW n \in Nat, NEW s, NEW S, NEW T, s[n + 1] \in T,
         NEW t \in [0..n -> Seq(T)], IsKept(t, s, S, n)
  PROVE  \E u \in [0..(n + 1) -> Seq(T)] : IsKept(u, s, S, n + 1)
<1> DEFINE v == IF s[n + 1] \in S THEN t[n] ELSE Append(t[n], s[n + 1])
           u == [m \in 0..(n + 1) |-> IF m = n + 1 THEN v ELSE t[m]]
<1>0. v \in Seq(T)
  <2>1. t[n] \in Seq(T)
    OBVIOUS
  <2> QED
    BY <2>1
<1>1. u \in [0..(n + 1) -> Seq(T)]
  <2> HIDE DEF v
  <2> QED
    BY <1>0
<1>2. \A m \in 0..(n + 1) :
        u[m] = IF m = 0 THEN <<>> ELSE IF s[m] \in S THEN u[m - 1] ELSE Append(u[m - 1], s[m])
  <2> TAKE m \in 0..(n + 1)
  <2>1. CASE m = n + 1
    <3>1. u[m] = v /\ u[m - 1] = t[n] /\ m # 0
      <4> HIDE DEF v
      <4> QED
        BY <2>1
    <3> QED
      BY <2>1, <3>1
  <2>2. CASE m # n + 1
    <3>1. m \in 0..n
      BY <2>2
    <3>2. t[m] = IF m = 0 THEN <<>> ELSE IF s[m] \in S THEN t[m - 1] ELSE Append(t[m - 1], s[m])
      BY <3>1 DEF IsKept
    <3>3. u[m] = t[m] /\ (m # 0 => u[m - 1] = t[m - 1])
      <4> HIDE DEF v
      <4> QED
        BY <2>2, <3>1
    <3> HIDE DEF u
    <3> QED
      BY <3>2, <3>3
  <2> QED
    BY <2>1, <2>2
<1>3. IsKept(u, s, S, n + 1)
  <2>1. u = [m \in 0..(n + 1) |-> u[m]]
    OBVIOUS
  <2> HIDE DEF u
  <2> QED
    BY <1>2, <2>1 DEF IsKept
<1> QED
  BY <1>1, <1>3

LEMMA KeptAre ==
  ASSUME NEW T, NEW s \in Seq(T), NEW S
  PROVE  \A n \in 0..Len(s) : \E t \in [0..n -> Seq(T)] : IsKept(t, s, S, n)
<1> DEFINE B == {n \in 0..Len(s) : ~ \E t \in [0..n -> Seq(T)] : IsKept(t, s, S, n)}
<1> SUFFICES ASSUME B # {}
             PROVE  FALSE
  OBVIOUS
<1>1. B \in SUBSET Nat
  OBVIOUS
<1> HIDE DEF B
<1>2. PICK n \in B : \A j \in B : n <= j
  BY <1>1, SmallestIn
<1>3. n \in 0..Len(s) /\ Len(s) \in Nat
  BY <1>2 DEF B
<1>4. CASE n = 0
  <2> DEFINE t == [m \in 0..0 |-> <<>>]
  <2>1. t \in [0..0 -> Seq(T)]
    OBVIOUS
  <2>2. t = [m \in 0..0 |-> IF m = 0 THEN <<>> ELSE IF s[m] \in S THEN t[m - 1] ELSE Append(t[m - 1], s[m])]
    OBVIOUS
  <2> HIDE DEF t
  <2> QED
    BY <1>2, <1>4, <2>1, <2>2 DEF B, IsKept
<1>5. CASE n # 0
  <2> DEFINE k == n - 1
  <2>1. k \in 0..Len(s) /\ k \in Nat /\ k + 1 = n /\ k < n /\ n \in 1..Len(s)
    BY <1>3, <1>5
  <2>2. k \notin B
    BY <1>1, <1>2, <2>1
  <2>3. PICK t \in [0..k -> Seq(T)] : IsKept(t, s, S, k)
    BY <2>1, <2>2 DEF B
  <2>4. s[k + 1] \in T
    BY <2>1
  <2> HIDE DEF k
  <2>5. \E u \in [0..(k + 1) -> Seq(T)] : IsKept(u, s, S, k + 1)
    BY <2>1, <2>3, <2>4, KeptGrows
  <2> QED
    BY <1>2, <2>1, <2>5 DEF B
<1> QED
  BY <1>4, <1>5

\* The table of the elements kept so far, and its last entry.
Keeps(t, s, S, T) == IsKept(t, s, S, Len(s)) /\ Without(s, S) = t[Len(s)] /\ Len(s) \in Nat

LEMMA WithoutIs ==
  ASSUME NEW T, NEW s \in Seq(T), NEW S
  PROVE  \E t : Keeps(t, s, S, T)
<1> DEFINE u == CHOOSE t : IsKept(t, s, S, Len(s))
<1>1. Len(s) \in 0..Len(s) /\ Len(s) \in Nat
  OBVIOUS
<1>2. \E t : IsKept(t, s, S, Len(s))
  BY <1>1, KeptAre
<1>3. IsKept(u, s, S, Len(s))
  BY <1>2
<1>4. Without(s, S) = u[Len(s)]
  BY DEF Without, IsKept
<1> HIDE DEF u
<1> QED
  BY <1>1, <1>3, <1>4 DEF Keeps

\* What is known of the elements kept of the first m.
Picked(w, s, S, m) ==
  \E p \in [1..Len(w) -> 1..m] :
    IsInjective(p) /\ \A i \in 1..Len(w) : w[i] = s[p[i]] /\ s[p[i]] \notin S
Complete(w, s, S, m) == \A j \in 1..m : s[j] \notin S => \E i \in 1..Len(w) : w[i] = s[j]
Whole(w, s, S, m) == (\A j \in 1..m : s[j] \notin S) => Len(w) = m /\ \A j \in 1..m : w[j] = s[j]
KeptWell(w, s, S, m, T) == w \in Seq(T) /\ Picked(w, s, S, m) /\ Complete(w, s, S, m) /\ Whole(w, s, S, m)

LEMMA OneDropped ==
  ASSUME NEW m \in Nat, NEW s, NEW S, NEW T, NEW w, KeptWell(w, s, S, m, T), s[m + 1] \in S
  PROVE  KeptWell(w, s, S, m + 1, T)
<1>1. PICK p \in [1..Len(w) -> 1..m] :
        IsInjective(p) /\ \A i \in 1..Len(w) : w[i] = s[p[i]] /\ s[p[i]] \notin S
  BY DEF KeptWell, Picked
<1>2. p \in [1..Len(w) -> 1..(m + 1)]
  BY <1>1
<1>3. Picked(w, s, S, m + 1)
  BY <1>1, <1>2 DEF Picked
<1>4. \A j \in 1..(m + 1) : j \in 1..m \/ j = m + 1
  OBVIOUS
<1>5. Complete(w, s, S, m + 1)
  BY <1>4 DEF KeptWell, Complete
<1>6. Whole(w, s, S, m + 1)
  BY DEF Whole
<1> QED
  BY <1>3, <1>5, <1>6 DEF KeptWell

LEMMA OneKept ==
  ASSUME NEW m \in Nat, NEW s, NEW S, NEW T, NEW w, KeptWell(w, s, S, m, T), s[m + 1] \notin S,
         s[m + 1] \in T, NEW v, v = Append(w, s[m + 1])
  PROVE  KeptWell(v, s, S, m + 1, T)
<1>1. PICK p \in [1..Len(w) -> 1..m] :
        IsInjective(p) /\ \A i \in 1..Len(w) : w[i] = s[p[i]] /\ s[p[i]] \notin S
  BY DEF KeptWell, Picked
<1>2. /\ w \in Seq(T) /\ v \in Seq(T) /\ Len(w) \in Nat /\ Len(v) = Len(w) + 1
      /\ v[Len(w) + 1] = s[m + 1] /\ \A i \in 1..Len(w) : v[i] = w[i]
  BY DEF KeptWell
<1>3. Picked(v, s, S, m + 1)
  <2> DEFINE q == [i \in 1..Len(v) |-> IF i = Len(w) + 1 THEN m + 1 ELSE p[i]]
  <2>1. \A i \in 1..Len(v) : i # Len(w) + 1 => i \in 1..Len(w)
    BY <1>2
  <2>2. /\ DOMAIN q = 1..Len(v)
        /\ \A i \in 1..Len(v) : \/ i = Len(w) + 1 /\ q[i] = m + 1
                                \/ i \in 1..Len(w) /\ q[i] = p[i] /\ q[i] \in 1..m
    BY <2>1
  <2>3. q \in [1..Len(v) -> 1..(m + 1)]
    BY <2>1
  <2> HIDE DEF q
  <2>4. IsInjective(q)
    <3> SUFFICES ASSUME NEW a \in 1..Len(v), NEW b \in 1..Len(v), q[a] = q[b]
                 PROVE  a = b
      BY <2>2 DEF IsInjective
    <3>1. m + 1 \notin 1..m
      OBVIOUS
    <3>2. \A i, j \in 1..Len(w) : p[i] = p[j] => i = j
      BY <1>1 DEF IsInjective
    <3> QED
      BY <2>2, <3>1, <3>2
  <2>5. \A i \in 1..Len(v) : v[i] = s[q[i]] /\ s[q[i]] \notin S
    BY <1>1, <1>2, <2>2
  <2> QED
    BY <2>3, <2>4, <2>5 DEF Picked
<1>4. \A j \in 1..(m + 1) : j \in 1..m \/ j = m + 1
  OBVIOUS
<1>5. Complete(v, s, S, m + 1)
  <2> SUFFICES ASSUME NEW j \in 1..(m + 1), s[j] \notin S
               PROVE  \E i \in 1..Len(v) : v[i] = s[j]
    BY DEF Complete
  <2>1. CASE j = m + 1
    <3>1. Len(w) + 1 \in 1..Len(v)
      BY <1>2
    <3> QED
      BY <1>2, <2>1, <3>1
  <2>2. CASE j \in 1..m
    <3>1. PICK i \in 1..Len(w) : w[i] = s[j]
      BY <2>2 DEF KeptWell, Complete
    <3>2. i \in 1..Len(v) /\ v[i] = w[i]
      BY <1>2
    <3> QED
      BY <3>1, <3>2
  <2> QED
    BY <1>4, <2>1, <2>2
<1>6. Whole(v, s, S, m + 1)
  <2> SUFFICES ASSUME \A j \in 1..(m + 1) : s[j] \notin S
               PROVE  Len(v) = m + 1 /\ \A j \in 1..(m + 1) : v[j] = s[j]
    BY DEF Whole
  <2>1. \A j \in 1..m : j \in 1..(m + 1)
    OBVIOUS
  <2>2. Len(w) = m /\ \A j \in 1..m : w[j] = s[j]
    BY <2>1 DEF KeptWell, Whole
  <2> QED
    BY <1>2, <1>4, <2>2
<1> QED
  BY <1>2, <1>3, <1>5, <1>6 DEF KeptWell

LEMMA NoneYet ==
  ASSUME NEW s, NEW S, NEW T
  PROVE  KeptWell(<<>>, s, S, 0, T)
<1> DEFINE w == <<>>
<1>1. w \in Seq(T) /\ Len(w) = 0
  OBVIOUS
<1>2. Complete(w, s, S, 0) /\ Whole(w, s, S, 0)
  BY <1>1 DEF Complete, Whole
<1>3. Picked(w, s, S, 0)
  <2> DEFINE p == [i \in 1..Len(w) |-> i]
  <2>1. p \in [1..Len(w) -> 1..0] /\ IsInjective(p) /\ \A i \in 1..Len(w) : FALSE
    BY <1>1 DEF IsInjective
  <2> HIDE DEF p
  <2> QED
    BY <2>1 DEF Picked
<1> QED
  BY <1>1, <1>2, <1>3 DEF KeptWell

LEMMA WithoutKeeps ==
  ASSUME NEW T, NEW s \in Seq(T), NEW S
  PROVE  KeptWell(Without(s, S), s, S, Len(s), T)
<1>1. PICK t : Keeps(t, s, S, T)
  BY WithoutIs
<1> DEFINE B == {n \in 0..Len(s) : ~KeptWell(t[n], s, S, n, T)}
<1>2. /\ Len(s) \in Nat /\ Without(s, S) = t[Len(s)] /\ Len(s) \in 0..Len(s)
      /\ \A m \in 0..Len(s) :
           t[m] = IF m = 0 THEN <<>> ELSE IF s[m] \in S THEN t[m - 1] ELSE Append(t[m - 1], s[m])
  <2>1. IsKept(t, s, S, Len(s)) /\ Without(s, S) = t[Len(s)] /\ Len(s) \in Nat
    BY <1>1 DEF Keeps
  <2>2. \A m \in 0..Len(s) :
          t[m] = IF m = 0 THEN <<>> ELSE IF s[m] \in S THEN t[m - 1] ELSE Append(t[m - 1], s[m])
    <3> DEFINE n == Len(s)
    <3>1. IsKept(t, s, S, n)
      BY <2>1
    <3> HIDE DEF n
    <3>2. \A m \in 0..n :
            t[m] = IF m = 0 THEN <<>> ELSE IF s[m] \in S THEN t[m - 1] ELSE Append(t[m - 1], s[m])
      BY <3>1 DEF IsKept
    <3> QED
      BY <3>2 DEF n
  <2> QED
    BY <2>1, <2>2
<1>3. CASE B = {}
  BY <1>2, <1>3
<1>4. CASE B # {}
  <2>1. B \in SUBSET Nat
    OBVIOUS
  <2> HIDE DEF B
  <2>2. PICK n \in B : \A j \in B : n <= j
    BY <1>4, <2>1, SmallestIn
  <2>3. n \in 0..Len(s) /\ ~KeptWell(t[n], s, S, n, T)
    BY <2>2 DEF B
  <2>4. n # 0
    <3> SUFFICES ASSUME n = 0
                 PROVE  FALSE
      OBVIOUS
    <3>1. t[0] = <<>>
      BY <1>2
    <3> QED
      BY <2>3, <3>1, NoneYet
  <2> DEFINE k == n - 1
  <2>5. k \in Nat /\ k + 1 = n /\ k \in 0..Len(s) /\ k < n /\ n \in 1..Len(s)
    BY <1>2, <2>3, <2>4
  <2>6. KeptWell(t[k], s, S, k, T)
    BY <2>1, <2>2, <2>5 DEF B
  <2>7. s[n] \in T
    BY <2>5
  <2>8. t[n] = IF s[n] \in S THEN t[k] ELSE Append(t[k], s[n])
    BY <1>2, <2>3, <2>4
  <2> HIDE DEF k
  <2>9. s[k + 1] \in T /\ t[n] = IF s[k + 1] \in S THEN t[k] ELSE Append(t[k], s[k + 1])
    BY <2>5, <2>7, <2>8
  <2>10. KeptWell(t[n], s, S, k + 1, T)
    BY <2>5, <2>6, <2>9, OneKept, OneDropped
  <2> QED
    BY <2>3, <2>5, <2>10
<1> QED
  BY <1>3, <1>4

-----------------------------------------------------------------------------
(* What is left of a list, and the row a list has for a document.          *)

Left(w, s, S, T) ==
  /\ w \in Seq(T)
  /\ \A i \in DOMAIN w : \E j \in DOMAIN s : w[i] = s[j] /\ s[j] \notin S
  /\ \A j \in DOMAIN s : s[j] \notin S => \E i \in DOMAIN w : w[i] = s[j]
  /\ IsInjective(s) => IsInjective(w)
  /\ (\A j \in DOMAIN s : s[j] \notin S) => w = s

LEMMA WithoutLeaves ==
  ASSUME NEW T, NEW s \in Seq(T), NEW S
  PROVE  Left(Without(s, S), s, S, T)
<1> DEFINE w == Without(s, S)
<1>1. KeptWell(w, s, S, Len(s), T)
  BY WithoutKeeps
<1> HIDE DEF w
<1>2. PICK p \in [1..Len(w) -> 1..Len(s)] :
        IsInjective(p) /\ \A i \in 1..Len(w) : w[i] = s[p[i]] /\ s[p[i]] \notin S
  BY <1>1 DEF KeptWell, Picked
<1>3. w \in Seq(T) /\ DOMAIN w = 1..Len(w) /\ DOMAIN s = 1..Len(s)
  BY <1>1 DEF KeptWell
<1>4. \A i \in DOMAIN w : \E j \in DOMAIN s : w[i] = s[j] /\ s[j] \notin S
  BY <1>2, <1>3
<1>5. \A j \in DOMAIN s : s[j] \notin S => \E i \in DOMAIN w : w[i] = s[j]
  BY <1>1, <1>3 DEF KeptWell, Complete
<1>6. IsInjective(s) => IsInjective(w)
  <2> SUFFICES ASSUME IsInjective(s), NEW a \in DOMAIN w, NEW b \in DOMAIN w, w[a] = w[b]
               PROVE  a = b
    BY DEF IsInjective
  <2>1. s[p[a]] = s[p[b]] /\ p[a] \in DOMAIN s /\ p[b] \in DOMAIN s
    BY <1>2, <1>3
  <2>2. p[a] = p[b]
    BY <2>1 DEF IsInjective
  <2> QED
    BY <1>2, <1>3, <2>2 DEF IsInjective
<1>7. (\A j \in DOMAIN s : s[j] \notin S) => w = s
  <2> SUFFICES ASSUME \A j \in DOMAIN s : s[j] \notin S
               PROVE  w = s
    OBVIOUS
  <2>1. Len(w) = Len(s) /\ \A j \in 1..Len(s) : w[j] = s[j]
    BY <1>1, <1>3 DEF KeptWell, Whole
  <2> QED
    BY <1>3, <2>1
<1> QED
  BY <1>3, <1>4, <1>5, <1>6, <1>7 DEF Left, w

\* Elements that are kept and are of different documents still are.
Distinct(s, S) ==
  \A a, b \in DOMAIN s : s[a] \notin S /\ s[b] \notin S /\ s[a].doc = s[b].doc => a = b

LEMMA WithoutDistinct ==
  ASSUME NEW T, NEW s \in Seq(T), NEW S, Distinct(s, S)
  PROVE  IsInjective(DocsOf(Without(s, S)))
<1> DEFINE w == Without(s, S)
<1>1. KeptWell(w, s, S, Len(s), T)
  BY WithoutKeeps
<1> HIDE DEF w
<1>2. PICK p \in [1..Len(w) -> 1..Len(s)] :
        IsInjective(p) /\ \A i \in 1..Len(w) : w[i] = s[p[i]] /\ s[p[i]] \notin S
  BY <1>1 DEF KeptWell, Picked
<1>3. DOMAIN w = 1..Len(w) /\ DOMAIN s = 1..Len(s)
  BY <1>1 DEF KeptWell
<1> SUFFICES ASSUME NEW a \in 1..Len(w), NEW b \in 1..Len(w), w[a].doc = w[b].doc
             PROVE  a = b
  BY <1>3 DEF IsInjective, DocsOf, w
<1>4. /\ s[p[a]].doc = s[p[b]].doc /\ p[a] \in DOMAIN s /\ p[b] \in DOMAIN s
      /\ s[p[a]] \notin S /\ s[p[b]] \notin S
  BY <1>2, <1>3
<1>5. p[a] = p[b]
  BY <1>4 DEF Distinct
<1> QED
  BY <1>2, <1>5 DEF IsInjective

\* Two lists that lose the same places go on matching.
Alike(s, S, z, Z) ==
  Len(s) = Len(z) /\ \A m \in 1..Len(s) : (s[m] \in S <=> z[m] \in Z) /\ s[m].doc = z[m]
Matching(v, w, A, B) ==
  v \in Seq(A) /\ w \in Seq(B) /\ Len(v) = Len(w) /\ \A i \in 1..Len(v) : v[i].doc = w[i]

LEMMA OneMore ==
  ASSUME NEW A, NEW B, NEW v, NEW w, Matching(v, w, A, B), NEW a \in A, NEW b \in B, a.doc = b,
         NEW x, x = Append(v, a), NEW y, y = Append(w, b)
  PROVE  Matching(x, y, A, B)
<1>1. v \in Seq(A) /\ w \in Seq(B) /\ Len(v) = Len(w) /\ \A i \in 1..Len(v) : v[i].doc = w[i]
  BY DEF Matching
<1>2. /\ x \in Seq(A) /\ Len(x) = Len(v) + 1 /\ x[Len(v) + 1] = a /\ \A i \in 1..Len(v) : x[i] = v[i]
      /\ y \in Seq(B) /\ Len(y) = Len(w) + 1 /\ y[Len(w) + 1] = b /\ \A i \in 1..Len(w) : y[i] = w[i]
  BY <1>1
<1>3. \A i \in 1..Len(x) : i \in 1..Len(v) \/ i = Len(v) + 1
  BY <1>1, <1>2
<1> QED
  BY <1>1, <1>2, <1>3 DEF Matching

LEMMA WithoutMatches ==
  ASSUME NEW A, NEW s \in Seq(A), NEW S, NEW B, NEW z \in Seq(B), NEW Z, Alike(s, S, z, Z)
  PROVE  DocsOf(Without(s, S)) = Without(z, Z)
<1>1. PICK t : Keeps(t, s, S, A)
  BY WithoutIs
<1>2. PICK u : Keeps(u, z, Z, B)
  BY WithoutIs
<1> DEFINE n == Len(s)
           Bad == {m \in 0..n : ~Matching(t[m], u[m], A, B)}
<1>3. n \in Nat /\ Without(s, S) = t[n] /\ Without(z, Z) = u[n] /\ Len(z) = n /\ n \in 0..n
  BY <1>1, <1>2 DEF Keeps, Alike
<1>4. \A m \in 0..n :
        /\ t[m] = IF m = 0 THEN <<>> ELSE IF s[m] \in S THEN t[m - 1] ELSE Append(t[m - 1], s[m])
        /\ u[m] = IF m = 0 THEN <<>> ELSE IF z[m] \in Z THEN u[m - 1] ELSE Append(u[m - 1], z[m])
  BY <1>1, <1>2, <1>3 DEF Keeps, IsKept
<1>5. CASE Bad # {}
  <2>1. Bad \in SUBSET Nat
    BY <1>3
  <2> HIDE DEF Bad
  <2>2. PICK m \in Bad : \A j \in Bad : m <= j
    BY <1>5, <2>1, SmallestIn
  <2>3. m \in 0..n /\ ~Matching(t[m], u[m], A, B)
    BY <2>2 DEF Bad
  <2>4. m # 0
    <3> SUFFICES ASSUME m = 0
                 PROVE  FALSE
      OBVIOUS
    <3>1. t[0] = <<>> /\ u[0] = <<>>
      BY <1>3, <1>4
    <3>2. Matching(t[0], u[0], A, B)
      BY <3>1 DEF Matching
    <3> QED
      BY <2>3, <3>2
  <2> DEFINE k == m - 1
  <2>5. k \in Nat /\ k \in 0..n /\ k < m /\ m \in 1..n /\ m \in Nat
    BY <1>3, <2>3, <2>4
  <2>6. Matching(t[k], u[k], A, B)
    BY <2>1, <2>2, <2>5 DEF Bad
  <2>7. /\ t[m] = IF s[m] \in S THEN t[k] ELSE Append(t[k], s[m])
        /\ u[m] = IF z[m] \in Z THEN u[k] ELSE Append(u[k], z[m])
    BY <1>4, <2>3, <2>4
  <2>8. (s[m] \in S <=> z[m] \in Z) /\ s[m].doc = z[m] /\ s[m] \in A /\ z[m] \in B
    BY <1>3, <2>5 DEF Alike
  <2> HIDE DEF k
  <2>9. CASE s[m] \in S
    BY <2>3, <2>6, <2>7, <2>8, <2>9
  <2>10. CASE s[m] \notin S
    <3> DEFINE x == t[m]
               y == u[m]
               a == s[m]
               b == z[m]
               v == t[k]
               w == u[k]
    <3>1. a \in A /\ b \in B /\ a.doc = b /\ x = Append(v, a) /\ y = Append(w, b) /\ Matching(v, w, A, B)
      BY <2>6, <2>7, <2>8, <2>10
    <3>2. ~Matching(x, y, A, B)
      BY <2>3
    <3> HIDE DEF x, y, a, b, v, w
    <3> QED
      BY <3>1, <3>2, OneMore
  <2> QED
    BY <2>9, <2>10
<1>6. CASE Bad = {}
  <2>1. Matching(t[n], u[n], A, B)
    BY <1>3, <1>6
  <2> DEFINE v == t[n]
             w == u[n]
  <2>2. v \in Seq(A) /\ w \in Seq(B) /\ Len(v) = Len(w) /\ \A i \in 1..Len(v) : v[i].doc = w[i]
    BY <2>1 DEF Matching
  <2> HIDE DEF v, w
  <2>3. DOMAIN v = 1..Len(w) /\ w = [i \in 1..Len(w) |-> w[i]]
    BY <2>2
  <2>4. DocsOf(v) = w
    BY <2>2, <2>3 DEF DocsOf
  <2> QED
    BY <1>3, <2>4 DEF v, w
<1> QED
  BY <1>5, <1>6

-----------------------------------------------------------------------------
(* The row of a document (Get).                                            *)

LEMMA GreatestIn ==
  ASSUME NEW n \in Nat, NEW S \in SUBSET (1..n), S # {}
  PROVE  \E m \in S : \A j \in S : m >= j
<1> DEFINE R == {k \in Nat : n - k \in S}
<1>1. R \in SUBSET Nat /\ \A j \in S : n - j \in R
  <2> SUFFICES ASSUME NEW j \in S
               PROVE  n - j \in R
    OBVIOUS
  <2>1. n - j \in Nat /\ n - (n - j) = j
    OBVIOUS
  <2> QED
    BY <2>1
<1>2. R # {} /\ \A k \in R : n - k \in S
  BY <1>1
<1> HIDE DEF R
<1>3. PICK k \in R : \A j \in R : k <= j
  BY <1>1, <1>2, SmallestIn
<1>4. n - k \in S /\ k \in Nat
  BY <1>1, <1>2, <1>3
<1>5. \A j \in S : n - k >= j
  <2> TAKE j \in S
  <2>1. k <= n - j /\ j \in 1..n
    BY <1>1, <1>3
  <2> QED
    BY <1>4, <2>1
<1> QED
  BY <1>4, <1>5

LEMMA LatestIs ==
  ASSUME NEW T, NEW s \in Seq(T), NEW d, Has(s, d)
  PROVE  \E n \in DOMAIN s : Latest(s, d) = s[n] /\ s[n].doc = d
<1> DEFINE S == {n \in DOMAIN s : s[n].doc = d}
<1>1. S \in SUBSET (1..Len(s)) /\ Len(s) \in Nat /\ S # {}
  BY DEF Has
<1>2. \E m \in S : \A j \in S : m >= j
  <2> HIDE DEF S
  <2> QED
    BY <1>1, GreatestIn
<1>3. Max(S) \in S
  BY <1>2 DEF Max
<1> QED
  BY <1>3 DEF Latest

LEMMA LatestOfOne ==
  ASSUME NEW T, NEW s \in Seq(T), IsInjective(DocsOf(s)), NEW n \in DOMAIN s, NEW d, s[n].doc = d
  PROVE  Has(s, d) /\ Latest(s, d) = s[n] /\ Get(s, d) = s[n]
<1>1. Has(s, d)
  BY DEF Has
<1>2. PICK m \in DOMAIN s : Latest(s, d) = s[m] /\ s[m].doc = d
  BY <1>1, LatestIs
<1>3. m = n
  BY <1>2 DEF IsInjective, DocsOf
<1> QED
  BY <1>1, <1>2, <1>3 DEF Get

-----------------------------------------------------------------------------
(* The rows of the batch.                                                  *)

Row ==
  {i \in [doc : 1..NumFiles, status : {"ready", "needs_review", "unreadable"},
          source : {"engine", "hint", "person"}, geo : BOOLEAN,
          rect : {"engine", "none", "hint", "person"}] : i.source = "person" => i.status = "ready"}

DocsIn(s) == {s[n].doc : n \in DOMAIN s}
Listing(s) == s \in Seq(Row) /\ IsInjective(DocsOf(s))

\* The rows of the documents in f, in its order.
Ordered(s, f) == Without([n \in DOMAIN f |-> Get(s, f[n])], {NoItem})

LEMMA RowIsNoNoItem == NoItem \notin Row
<1> SUFFICES ASSUME NoItem \in Row
             PROVE  FALSE
  OBVIOUS
<1>1. "status" \in DOMAIN NoItem
  BY DEF Row
<1>2. DOMAIN NoItem = {"doc"}
  BY DEF NoItem
<1> QED
  BY <1>1, <1>2

LEMMA RowGot ==
  ASSUME NEW s, Listing(s), NEW d
  PROVE  /\ d \in DocsIn(s) => Get(s, d) \in Row /\ Get(s, d).doc = d /\ Get(s, d) \in ToSet(s)
         /\ d \notin DocsIn(s) => Get(s, d) = NoItem
<1>1. Has(s, d) <=> d \in DocsIn(s)
  BY DEF Has, DocsIn
<1>2. CASE d \in DocsIn(s)
  <2>1. s \in Seq(Row)
    BY DEF Listing
  <2>2. PICK n \in DOMAIN s : Latest(s, d) = s[n] /\ s[n].doc = d
    BY <1>1, <1>2, <2>1, LatestIs
  <2>3. s[n] \in Row /\ s[n] \in ToSet(s)
    BY <2>1 DEF ToSet
  <2> QED
    BY <1>1, <1>2, <2>2, <2>3 DEF Get
<1>3. CASE d \notin DocsIn(s)
  BY <1>1, <1>3 DEF Get
<1> QED
  BY <1>2, <1>3

OrderedWell(w, s, f) ==
  /\ Listing(w)
  /\ ToSet(w) = {i \in ToSet(s) : i.doc \in ToSet(f)}
  /\ DocsIn(w) = DocsIn(s) \cap ToSet(f)
  /\ ToSet(f) \subseteq DocsIn(s) => DocsOf(w) = f

LEMMA OrderedIs ==
  ASSUME NEW s, Listing(s), NEW f \in Seq(Nat), IsInjective(f)
  PROVE  OrderedWell(Ordered(s, f), s, f)
<1> DEFINE g == [n \in DOMAIN f |-> Get(s, f[n])]
           T == Row \cup {NoItem}
           w == Ordered(s, f)
<1>0. DOMAIN f = 1..Len(f) /\ Len(f) \in Nat /\ DOMAIN g = DOMAIN f /\ w = Without(g, {NoItem})
  BY DEF Ordered
<1>1. \A n \in DOMAIN f :
        /\ f[n] \in DocsIn(s) => g[n] \in Row /\ g[n].doc = f[n] /\ g[n] \in ToSet(s) /\ g[n] # NoItem
        /\ f[n] \notin DocsIn(s) => g[n] = NoItem
  BY RowGot, RowIsNoNoItem
<1>2. g \in Seq(T)
  <2>1. \A n \in 1..Len(f) : g[n] \in T
    BY <1>0, <1>1
  <2>2. g = [n \in 1..Len(f) |-> g[n]]
    BY <1>0
  <2> HIDE DEF g, T
  <2> QED
    BY <1>0, <2>1, <2>2
<1> HIDE DEF g, w
<1>3. Distinct(g, {NoItem})
  <2> SUFFICES ASSUME NEW a \in DOMAIN g, NEW b \in DOMAIN g, g[a] # NoItem, g[b] # NoItem,
                      g[a].doc = g[b].doc
               PROVE  a = b
    BY DEF Distinct
  <2>1. f[a] = f[b]
    BY <1>0, <1>1
  <2> QED
    BY <1>0, <2>1 DEF IsInjective
<1>4. Left(w, g, {NoItem}, T)
  BY <1>0, <1>2, WithoutLeaves
<1>5. IsInjective(DocsOf(w))
  BY <1>0, <1>2, <1>3, WithoutDistinct
<1>6. \A i \in DOMAIN w : \E n \in DOMAIN f :
        w[i] = g[n] /\ f[n] \in DocsIn(s) /\ g[n] \in Row /\ g[n].doc = f[n] /\ g[n] \in ToSet(s)
  BY <1>0, <1>1, <1>4 DEF Left
<1>7. Listing(w)
  <2>1. w \in Seq(T)
    BY <1>4 DEF Left
  <2>2. \A i \in 1..Len(w) : w[i] \in Row
    BY <1>6, <2>1
  <2>3. w \in Seq(Row)
    <3>1. Len(w) \in Nat /\ w = [i \in 1..Len(w) |-> w[i]]
      BY <2>1
    <3> QED
      BY <2>2, <3>1
  <2> QED
    BY <1>5, <2>3 DEF Listing
<1>8. ToSet(w) = {i \in ToSet(s) : i.doc \in ToSet(f)}
  <2>1. ASSUME NEW x \in ToSet(w)
        PROVE  x \in ToSet(s) /\ x.doc \in ToSet(f)
    <3>1. PICK i \in DOMAIN w : x = w[i]
      BY DEF ToSet
    <3>2. PICK n \in DOMAIN f : w[i] = g[n] /\ g[n].doc = f[n] /\ g[n] \in ToSet(s)
      BY <1>6
    <3>3. f[n] \in ToSet(f)
      BY DEF ToSet
    <3> QED
      BY <3>1, <3>2, <3>3
  <2>2. ASSUME NEW x \in ToSet(s), x.doc \in ToSet(f)
        PROVE  x \in ToSet(w)
    <3>1. PICK j \in DOMAIN s : x = s[j]
      BY DEF ToSet
    <3>2. PICK n \in DOMAIN f : x.doc = f[n]
      BY <2>2 DEF ToSet
    <3>3. f[n] \in DocsIn(s) /\ s[j].doc = f[n]
      BY <3>1, <3>2 DEF DocsIn
    <3>4. s \in Seq(Row) /\ IsInjective(DocsOf(s))
      BY DEF Listing
    <3>5. Get(s, f[n]) = x
      BY <3>1, <3>3, <3>4, LatestOfOne
    <3>6. g[n] = x /\ g[n] # NoItem
      BY <1>1, <3>3, <3>5 DEF g
    <3>7. PICK i \in DOMAIN w : w[i] = g[n]
      BY <1>0, <1>4, <3>6 DEF Left
    <3> QED
      BY <3>6, <3>7 DEF ToSet
  <2> QED
    BY <2>1, <2>2
<1>9. DocsIn(w) = DocsIn(s) \cap ToSet(f)
  <2>1. \A x : DocsIn(x) = {i.doc : i \in ToSet(x)}
    BY DEF DocsIn, ToSet
  <2> QED
    BY <1>8, <2>1
<1>10. ToSet(f) \subseteq DocsIn(s) => DocsOf(w) = f
  <2> SUFFICES ASSUME ToSet(f) \subseteq DocsIn(s)
               PROVE  DocsOf(w) = f
    OBVIOUS
  <2>1. \A n \in DOMAIN f : f[n] \in DocsIn(s)
    BY DEF ToSet
  <2>2. w = g
    BY <1>0, <1>1, <1>4, <2>1 DEF Left
  <2>3. \A n \in DOMAIN f : w[n].doc = f[n]
    BY <1>1, <2>1, <2>2
  <2>4. DOMAIN w = DOMAIN f /\ f = [n \in DOMAIN f |-> f[n]]
    BY <1>0, <2>2
  <2> QED
    BY <2>3, <2>4 DEF DocsOf
<1> QED
  BY <1>7, <1>8, <1>9, <1>10 DEF OrderedWell, w

\* Documents of a list: as rows, and one row each.
LEMMA DocsAre ==
  ASSUME NEW s
  PROVE  DocsIn(s) = {i.doc : i \in ToSet(s)} /\ DocsIn(s) = ToSet(DocsOf(s))
  BY DEF DocsIn, ToSet, DocsOf

LEMMA OneRowEach ==
  ASSUME NEW s, Listing(s), NEW i \in ToSet(s), NEW j \in ToSet(s), i.doc = j.doc
  PROVE  i = j
<1>1. PICK a \in DOMAIN s : i = s[a]
  BY DEF ToSet
<1>2. PICK b \in DOMAIN s : j = s[b]
  BY DEF ToSet
<1> QED
  BY <1>1, <1>2 DEF Listing, IsInjective, DocsOf

\* One more row at the end.
LEMMA RowAdded ==
  ASSUME NEW s, Listing(s), NEW i \in Row, i.doc \notin DocsIn(s), NEW w, w = Append(s, i)
  PROVE  Listing(w) /\ ToSet(w) = ToSet(s) \cup {i} /\ DocsIn(w) = DocsIn(s) \cup {i.doc}
<1>1. /\ s \in Seq(Row) /\ w \in Seq(Row) /\ Len(s) \in Nat /\ DOMAIN s = 1..Len(s)
      /\ Len(w) = Len(s) + 1 /\ DOMAIN w = 1..(Len(s) + 1)
      /\ w[Len(s) + 1] = i /\ \A n \in 1..Len(s) : w[n] = s[n]
  BY DEF Listing
<1>2. \A n \in DOMAIN w : \/ n = Len(s) + 1 /\ w[n] = i
                          \/ n \in DOMAIN s /\ w[n] = s[n] /\ s[n].doc \in DocsIn(s)
  BY <1>1 DEF DocsIn
<1>3. \A n \in DOMAIN s : n \in DOMAIN w /\ w[n] = s[n]
  BY <1>1
<1>4. Len(s) + 1 \in DOMAIN w
  BY <1>1
<1>5. ToSet(w) = ToSet(s) \cup {i}
  BY <1>1, <1>2, <1>3, <1>4 DEF ToSet
<1>6. DocsIn(w) = DocsIn(s) \cup {i.doc}
  BY <1>1, <1>2, <1>3, <1>4 DEF DocsIn
<1>7. IsInjective(DocsOf(w))
  <2> SUFFICES ASSUME NEW a \in DOMAIN w, NEW b \in DOMAIN w, w[a].doc = w[b].doc
               PROVE  a = b
    BY DEF IsInjective, DocsOf
  <2>1. \A m, n \in DOMAIN s : s[m].doc = s[n].doc => m = n
    BY DEF Listing, IsInjective, DocsOf
  <2> QED
    BY <1>2, <2>1
<1> QED
  BY <1>1, <1>5, <1>6, <1>7 DEF Listing

\* Rows that change and stay where they are.
Rewritten(w, s) == w = [n \in DOMAIN s |-> w[n]] /\ \A n \in DOMAIN s : w[n] \in Row /\ w[n].doc = s[n].doc

LEMMA RowsRewritten ==
  ASSUME NEW s, Listing(s), NEW w, Rewritten(w, s)
  PROVE  Listing(w) /\ DocsOf(w) = DocsOf(s) /\ DocsIn(w) = DocsIn(s)
<1>1. DOMAIN w = DOMAIN s
  BY DEF Rewritten
<1>2. DocsOf(w) = DocsOf(s)
  BY <1>1 DEF DocsOf, Rewritten
<1>3. DocsIn(w) = DocsIn(s)
  BY <1>2, DocsAre
<1>4. w \in Seq(Row)
  <2>1. DOMAIN s = 1..Len(s) /\ Len(s) \in Nat
    BY DEF Listing
  <2> QED
    BY <2>1 DEF Rewritten
<1> QED
  BY <1>2, <1>3, <1>4 DEF Listing

-----------------------------------------------------------------------------
(* The inductive invariant.                                                *)

SelectionOK ==
  /\ picked \in 0..NumFiles
  /\ files \in Seq(Nat) /\ IsInjective(files) /\ ToSet(files) \subseteq 1..picked
  /\ Listing(preflight) /\ DocsIn(preflight) \subseteq 1..picked
  /\ written \subseteq 1..NumFiles /\ propagating \subseteq 1..NumFiles
  /\ step = 2 => DocsIn(preflight) \subseteq ToSet(files)

\* A run is at one of its documents and has an item for each one before it.
UnderWay(r, p) ==
  /\ r.list \in Seq(Nat) /\ IsInjective(r.list) /\ ToSet(r.list) \subseteq 1..p
  /\ r.at \in 1..Len(r.list)
  /\ Listing(r.photo) /\ DocsIn(r.photo) \subseteq 1..p
  /\ r.items \in Seq(Row) /\ Len(r.items) = r.at - 1
  /\ \A m \in DOMAIN r.items : r.items[m].doc = r.list[m]

\* What a review that may still write relates: s is on screen, f the selection, w what
\* was written from the screen.
ReviewRows(r, s, f, w) ==
  /\ DocsIn(r.photo) \cap ToSet(r.list) = {}
  /\ (DocsIn(r.photo) \cup DocsIn(r.items)) \cap ToSet(f) \subseteq DocsIn(s)
  /\ \A m \in r.at..Len(r.list) : r.list[m] \notin DocsIn(s)
  /\ \A i \in ToSet(s) : i.doc \in w \/ i \in ToSet(r.photo) \cup ToSet(r.items)

\* In the review, it goes on to its end and then covers the selection.
ReviewCovers(r, f) == ~r.aborted /\ ToSet(f) \subseteq DocsIn(r.photo) \cup ToSet(r.list)

\* What the propagation that may still write relates: each row it is about is the
\* one it began with, or its own result merged into that.
After(r, m) == IF m < r.at THEN MergePropagation(r.photo[m], r.items[m]) ELSE r.photo[m]

PropagationRows(r, s, f) ==
  /\ r.list = DocsOf(r.photo)
  /\ \A i \in ToSet(r.photo) : i.status = "needs_review"
  /\ \A i \in ToSet(s), m \in DOMAIN r.list : i.doc = r.list[m] => i = After(r, m)
  /\ ToSet(f) \cap ToSet(r.list) \subseteq DocsIn(s)

ReviewNow(k) == k[1] = "review" /\ Current(k) /\ run[k].at > 0
PropagationNow(k) == k[1] = "propagation" /\ Current(k) /\ run[k].at > 0

Located(k) ==
  run[k].at \in 0..Len(run[k].list) /\ (run[k].at > 0 => UnderWay(run[k], picked))
ReviewOK(k) ==
  ReviewNow(k) => /\ ReviewRows(run[k], preflight, files, written)
                  /\ step = 2 => ReviewCovers(run[k], files)
PropagationOK(k) ==
  PropagationNow(k) => /\ PropagationRows(run[k], preflight, files)
                       /\ step = 2 => propagating = ToSet(run[k].list)
RunsRows == \A k \in Runs : Located(k) /\ ReviewOK(k) /\ PropagationOK(k)

\* The item placed by hand is still the row of its document.
PlacingOK ==
  placing # NoItem =>
    /\ placing \in ToSet(preflight) /\ placing.source # "person"
    /\ step = 2 /\ placing.doc \notin propagating

FlagsOK ==
  /\ {running, reviewError, propagationError, p12, pin, signing} \subseteq BOOLEAN
  /\ reviewRun \in 0..MaxReviews /\ propagationRun \in 0..MaxPropagations

RowsOK == SelectionOK /\ RunsRows /\ PlacingOK /\ AllReviewed
RowsIInv == SignerIInv /\ FlagsOK /\ RowsOK

\* What SettledStays says of a step.
Settled ==
  \A i \in ToSet(preflight) :
    i.status = "ready" /\ step' \in {2, 3} /\ step # 4 /\ i.doc \in ToSet(files') =>
      \E j \in ToSet(preflight') :
        j.doc = i.doc /\ j.status = "ready" /\ (i.source = "person" => j = i)

-----------------------------------------------------------------------------
(* The steps that move no row: the selection, the placer, the signature.   *)

\* The same run, aborted or not.
SameRun(r, q) == q.list = r.list /\ q.at = r.at /\ q.photo = r.photo /\ q.items = r.items

LEMMA SameUnderWay ==
  ASSUME NEW r, NEW q, SameRun(r, q), NEW p \in Nat, NEW t \in Nat, p <= t, UnderWay(r, p)
  PROVE  UnderWay(q, t)
<1>1. 1..p \subseteq 1..t
  OBVIOUS
<1> QED
  BY <1>1 DEF SameRun, UnderWay

\* What a run has items of.
LEMMA UnderWayDocs ==
  ASSUME NEW r, NEW p, UnderWay(r, p)
  PROVE  DocsIn(r.photo) \cup DocsIn(r.items) \subseteq 1..p /\ DocsIn(r.items) \subseteq ToSet(r.list)
<1>1. \A m \in DOMAIN r.items : m \in DOMAIN r.list /\ r.items[m].doc = r.list[m]
  BY DEF UnderWay
<1>2. DocsIn(r.items) \subseteq ToSet(r.list)
  BY <1>1 DEF DocsIn, ToSet
<1> QED
  BY <1>2 DEF UnderWay

LEMMA SameRows ==
  ASSUME NEW r, NEW q, SameRun(r, q), NEW s, NEW f
  PROVE  /\ \A w : ReviewRows(r, s, f, w) => ReviewRows(q, s, f, w)
         /\ PropagationRows(r, s, f) => PropagationRows(q, s, f)
<1>1. \A w : ReviewRows(r, s, f, w) => ReviewRows(q, s, f, w)
  BY DEF SameRun, ReviewRows
<1>2. PropagationRows(r, s, f) => PropagationRows(q, s, f)
  BY DEF SameRun, PropagationRows, After
<1> QED
  BY <1>1, <1>2

LEMMA AbortedIs ==
  ASSUME RunsOK, NEW kinds, NEW k \in Runs
  PROVE  /\ SameRun(run[k], Abort(run, kinds)[k])
         /\ k[1] \notin kinds => Abort(run, kinds)[k] = run[k]
<1>1. DOMAIN run[k] = {"list", "at", "photo", "items", "aborted"}
  BY DEF RunsOK, Fields
<1>2. Abort(run, kinds)[k] = IF k[1] \in kinds /\ run[k].at > 0 THEN [run[k] EXCEPT !.aborted = TRUE]
                                                                ELSE run[k]
  BY DEF Abort
<1>3. Abort(run, kinds)[k] \in {run[k], [run[k] EXCEPT !.aborted = TRUE]}
  BY <1>2
<1>4. SameRun(run[k], Abort(run, kinds)[k])
  <2> DEFINE q == Abort(run, kinds)[k]
             r == run[k]
  <2>1. DOMAIN r = {"list", "at", "photo", "items", "aborted"} /\ (q = r \/ q = [r EXCEPT !.aborted = TRUE])
    BY <1>1, <1>3
  <2> HIDE DEF q, r
  <2>2. SameRun(r, q)
    BY <2>1 DEF SameRun
  <2> QED
    BY <2>2 DEF q, r
<1> QED
  BY <1>2, <1>4

\* Steps that leave the rows and the runs alone.
Quiet ==
  /\ UNCHANGED <<files, picked, preflight, written, runVars, running, reviewError, propagating>>
  /\ step' = 2 => step = 2

LEMMA QuietKeeps ==
  ASSUME RowsOK, Quiet, PlacingOK'
  PROVE  RowsOK' /\ Settled
<1> USE DEF Quiet, runVars
<1>1. SelectionOK'
  BY DEF RowsOK, SelectionOK
<1>2. RunsRows'
  <2> SUFFICES ASSUME NEW k \in Runs
               PROVE  (Located(k) /\ ReviewOK(k) /\ PropagationOK(k))'
    BY DEF RunsRows
  <2>0. Located(k) /\ ReviewOK(k) /\ PropagationOK(k)
    BY DEF RowsOK, RunsRows
  <2>1. Located(k)'
    BY <2>0 DEF Located
  <2>2. ReviewOK(k)'
    BY <2>0 DEF ReviewOK, ReviewNow, Current
  <2>3. PropagationOK(k)'
    BY <2>0 DEF PropagationOK, PropagationNow, Current
  <2> QED
    BY <2>1, <2>2, <2>3
<1>3. AllReviewed'
  BY DEF RowsOK, AllReviewed
<1>4. Settled
  BY DEF Settled
<1> QED
  BY <1>1, <1>2, <1>3, <1>4 DEF RowsOK

\* The placer, and what comes after the review.
Aside ==
  \/ Continue \/ PlacerReady \/ Warn \/ MoveBox \/ ClosePlacer
  \/ PickP12 \/ TypePin \/ StartSigning \/ SigningEnds \/ Download
  \/ (\E n \in DOMAIN preflight : OpenPlacer(n)) \/ UNCHANGED reviewVars

LEMMA AsideKeeps ==
  ASSUME SignerIInv, RowsOK, Aside
  PROVE  RowsOK' /\ Settled
<1>1. Quiet
  <2> USE DEF Quiet, runVars, statusVars
  <2>1. CASE Continue \/ PlacerReady \/ Warn \/ MoveBox \/ ClosePlacer
    BY <2>1 DEF Continue, PlacerReady, Warn, MoveBox, ClosePlacer
  <2>2. CASE PickP12 \/ TypePin \/ StartSigning
    BY <2>2 DEF PickP12, TypePin, StartSigning
  <2>3. CASE SigningEnds \/ Download
    BY <2>3 DEF SigningEnds, Download
  <2>4. CASE \E n \in DOMAIN preflight : OpenPlacer(n)
    BY <2>4 DEF OpenPlacer
  <2>5. CASE UNCHANGED reviewVars
    BY <2>5 DEF reviewVars
  <2> QED
    BY <2>1, <2>2, <2>3, <2>4, <2>5 DEF Aside
<1>2. PlacingOK'
  <2>0. preflight' = preflight /\ propagating' = propagating
    BY <1>1 DEF Quiet
  <2>1. CASE placing' = placing /\ step' = step
    BY <2>0, <2>1 DEF RowsOK, PlacingOK
  <2>2. CASE placing' = NoItem
    BY <2>2 DEF PlacingOK
  <2>3. CASE \E n \in DOMAIN preflight : OpenPlacer(n)
    <3>1. PICK n \in DOMAIN preflight : OpenPlacer(n)
      BY <2>3
    <3>2. /\ step = 2 /\ step' = 2 /\ placing' = preflight[n] /\ preflight[n].doc \notin propagating
          /\ preflight[n].status = "needs_review" \/ preflight[n].source = "hint"
      BY <3>1 DEF OpenPlacer, Placeable
    <3>3. preflight[n] \in Row /\ preflight[n] \in ToSet(preflight)
      BY DEF RowsOK, SelectionOK, Listing, ToSet
    <3>4. preflight[n].source # "person"
      BY <3>2, <3>3 DEF Row
    <3> QED
      BY <2>0, <3>2, <3>3, <3>4 DEF PlacingOK
  <2>4. CASE ~ \E n \in DOMAIN preflight : OpenPlacer(n)
    <3>1. (placing' = placing /\ step' = step) \/ placing' = NoItem
      <4> USE DEF placerVars, signVars
      <4>1. CASE Continue \/ PlacerReady \/ Warn \/ MoveBox \/ ClosePlacer
        BY <4>1 DEF Continue, PlacerReady, Warn, MoveBox, ClosePlacer
      <4>2. CASE PickP12 \/ TypePin \/ StartSigning
        BY <4>2 DEF PickP12, TypePin, StartSigning
      <4>3. CASE SigningEnds \/ Download
        <5>1. step # 2 /\ placing' = placing
          BY <4>3 DEF SigningEnds, Download, SignerIInv, StepsOK
        <5>2. placing = NoItem
          BY <5>1 DEF RowsOK, PlacingOK
        <5> QED
          BY <5>1, <5>2
      <4>4. CASE UNCHANGED reviewVars
        BY <4>4 DEF reviewVars
      <4> QED
        BY <2>4, <4>1, <4>2, <4>3, <4>4 DEF Aside
    <3> QED
      BY <2>1, <2>2, <3>1
  <2> QED
    BY <2>3, <2>4
<1> QED
  BY <1>1, <1>2, QuietKeeps

-----------------------------------------------------------------------------
(* The selection.                                                          *)

LEMMA FileAdded ==
  ASSUME NEW p \in Nat, NEW f \in Seq(Nat), IsInjective(f), ToSet(f) \subseteq 1..p,
         NEW g, g = Append(f, p + 1)
  PROVE  g \in Seq(Nat) /\ IsInjective(g) /\ ToSet(g) = ToSet(f) \cup {p + 1}
<1>1. /\ g \in Seq(Nat) /\ Len(f) \in Nat /\ DOMAIN f = 1..Len(f) /\ DOMAIN g = 1..(Len(f) + 1)
      /\ g[Len(f) + 1] = p + 1 /\ \A n \in 1..Len(f) : g[n] = f[n]
  OBVIOUS
<1>2. \A n \in DOMAIN g : \/ n = Len(f) + 1 /\ g[n] = p + 1
                          \/ n \in DOMAIN f /\ g[n] = f[n] /\ f[n] \in ToSet(f)
  BY <1>1 DEF ToSet
<1>3. (\A n \in DOMAIN f : n \in DOMAIN g /\ g[n] = f[n]) /\ Len(f) + 1 \in DOMAIN g
  BY <1>1
<1>4. ToSet(g) = ToSet(f) \cup {p + 1}
  BY <1>1, <1>2, <1>3 DEF ToSet
<1>5. p + 1 \notin ToSet(f)
  OBVIOUS
<1>6. IsInjective(g)
  <2> SUFFICES ASSUME NEW a \in DOMAIN g, NEW b \in DOMAIN g, g[a] = g[b]
               PROVE  a = b
    BY DEF IsInjective
  <2> QED
    BY <1>2, <1>5 DEF IsInjective
<1> QED
  BY <1>1, <1>4, <1>6

\* g is a list of p elements and then one of q.
JoinedFrom(g, a, b, p, q) ==
  /\ g \in Seq(Nat) /\ DOMAIN g = 1..(p + q)
  /\ \A i \in 1..p : g[i] = a[i]
  /\ \A i \in 1..(p + q) : i > p => g[i] = b[i - p]

LEMMA Pieces ==
  ASSUME NEW a \in Seq(Nat), NEW b \in Seq(Nat), NEW p \in Nat, NEW q \in Nat, Len(a) = p, Len(b) = q,
         NEW g, g = a \o b
  PROVE  JoinedFrom(g, a, b, p, q)
<1>1. /\ g \in Seq(Nat) /\ Len(g) = p + q
      /\ \A i \in 1..(p + q) : g[i] = IF i <= p THEN a[i] ELSE b[i - p]
  BY ConcatProperties
<1>2. \A i \in 1..p : i \in 1..(p + q) /\ i <= p
  OBVIOUS
<1>3. \A i \in 1..(p + q) : i > p => ~(i <= p)
  OBVIOUS
<1>4. DOMAIN g = 1..(p + q)
  BY <1>1
<1> QED
  BY <1>1, <1>2, <1>3, <1>4 DEF JoinedFrom

\* The place in a list of what is at the place i once the place n is removed.
From(n, i) == IF i < n THEN i ELSE i + 1

Places(n, p, q, D) ==
  /\ \A i \in 1..(p + q) : From(n, i) \in D
  /\ \A i, j \in 1..(p + q) : From(n, i) = From(n, j) => i = j
  /\ \A i \in 1..p : From(n, i) = i
  /\ \A i \in 1..(p + q) : i > p => From(n, i) = i - p + p + 1 /\ i - p \in 1..q
  /\ \A i \in 1..(p + q) : i \in 1..p \/ i > p

LEMMA FromIs ==
  ASSUME NEW p \in Nat, NEW q \in Nat, NEW n, n = p + 1, NEW D, D = 1..(p + 1 + q)
  PROVE  Places(n, p, q, D)
  BY DEF From, Places

LEMMA FileRemoved ==
  ASSUME NEW f \in Seq(Nat), IsInjective(f), NEW n \in DOMAIN f, NEW g, g = RemoveAt(f, n)
  PROVE  g \in Seq(Nat) /\ IsInjective(g) /\ ToSet(g) \subseteq ToSet(f)
<1> DEFINE l == Len(f)
           p == n - 1
           q == l - n
           m == n + 1
           a == SubSeq(f, 1, p)
           b == SubSeq(f, m, l)
<1>1. DOMAIN f = 1..l /\ l \in Nat /\ n \in 1..l
  OBVIOUS
<1>2. g = a \o b
  BY DEF RemoveAt
<1>3. \A i \in DOMAIN f : f[i] \in Nat
  OBVIOUS
<1> HIDE DEF l
<1>4. /\ p \in Nat /\ q \in Nat /\ n = p + 1 /\ l = p + 1 + q /\ m = p + 2
  BY <1>1
<1> HIDE DEF p, q, m
<1>5. /\ a \in Seq(Nat) /\ Len(a) = p /\ \A i \in 1..p : a[i] = f[i]
  <2>1. \A i \in 1..p : i \in DOMAIN f
    BY <1>1, <1>4
  <2>2. \A i \in 1..p : f[i] \in Nat
    BY <1>3, <2>1
  <2>3. /\ a \in Seq(Nat) /\ Len(a) = IF 1 <= p THEN p - 1 + 1 ELSE 0
        /\ \A i \in 1..(p - 1 + 1) : a[i] = f[1 + i - 1]
    BY <1>4, <2>2, SubSeqProperties
  <2>4. (IF 1 <= p THEN p - 1 + 1 ELSE 0) = p /\ p - 1 + 1 = p /\ \A i \in 1..p : 1 + i - 1 = i
    BY <1>4
  <2> QED
    BY <2>3, <2>4
<1>6. /\ b \in Seq(Nat) /\ Len(b) = q /\ \A i \in 1..q : b[i] = f[i + p + 1]
  <2>1. \A i \in m..l : i \in DOMAIN f
    <3> TAKE i \in m..l
    <3>1. i \in Int /\ p + 2 <= i /\ i <= l
      BY <1>4
    <3>2. 1 <= i
      BY <1>4, <3>1
    <3> QED
      BY <1>1, <3>1, <3>2
  <2>2. \A i \in m..l : f[i] \in Nat
    BY <1>3, <2>1
  <2>3. /\ b \in Seq(Nat) /\ Len(b) = IF m <= l THEN l - m + 1 ELSE 0
        /\ \A i \in 1..(l - m + 1) : b[i] = f[m + i - 1]
    <3>1. m \in Int /\ l \in Int
      BY <1>4
    <3> QED
      BY <2>2, <3>1, SubSeqProperties, SMTT(30)
  <2>4. (IF m <= l THEN l - m + 1 ELSE 0) = q /\ l - m + 1 = q /\ \A i \in 1..q : m + i - 1 = i + p + 1
    BY <1>4
  <2> QED
    BY <2>3, <2>4
<1> HIDE DEF a, b
<1>7. JoinedFrom(g, a, b, p, q)
  BY <1>2, <1>4, <1>5, <1>6, Pieces
<1>8. Places(n, p, q, DOMAIN f)
  BY <1>1, <1>4, FromIs
<1>9. \A i \in 1..(p + q) : g[i] = f[From(n, i)]
  <2> TAKE i \in 1..(p + q)
  <2>1. CASE i \in 1..p
    BY <1>5, <1>7, <1>8, <2>1 DEF JoinedFrom, Places
  <2>2. CASE i > p
    <3>1. i - p \in 1..q /\ From(n, i) = i - p + p + 1 /\ g[i] = b[i - p]
      BY <1>7, <1>8, <2>2 DEF JoinedFrom, Places
    <3> DEFINE x == i - p
    <3>2. x \in 1..q /\ From(n, i) = x + p + 1 /\ g[i] = b[x]
      BY <3>1
    <3> HIDE DEF x
    <3>3. b[x] = f[x + p + 1]
      BY <1>6, <3>2
    <3> QED
      BY <3>2, <3>3
  <2> QED
    BY <1>8, <2>1, <2>2 DEF Places
<1>10. ToSet(g) \subseteq ToSet(f)
  BY <1>7, <1>8, <1>9 DEF ToSet, JoinedFrom, Places
<1>11. IsInjective(g)
  BY <1>7, <1>8, <1>9 DEF IsInjective, JoinedFrom, Places
<1> QED
  BY <1>7, <1>10, <1>11 DEF JoinedFrom

\* A selection of files that were there or are new.
Selects ==
  /\ step = 1 /\ step' = 1 /\ UNCHANGED <<preflight, written, runVars, propagating, placing>>
  /\ picked' \in 0..NumFiles /\ picked <= picked'
  /\ files' \in Seq(Nat) /\ IsInjective(files') /\ ToSet(files') \subseteq 1..picked'
  /\ ToSet(files') \cap 1..picked \subseteq ToSet(files)

LEMMA SelectionSelects ==
  ASSUME SelectionOK, Selection
  PROVE  Selects
<1>0. /\ picked \in Nat /\ picked \in 0..NumFiles /\ NumFiles \in Nat /\ files \in Seq(Nat) /\ IsInjective(files)
      /\ ToSet(files) \subseteq 1..picked
  BY ReviewAssumption DEF SelectionOK
<1>1. step = 1 /\ step' = 1 /\ UNCHANGED <<preflight, written, runVars, propagating, placing>>
  BY DEF Selection, AddFile, RemoveFile, ClearFiles, statusVars, placerVars
<1>2. CASE AddFile
  <2>1. picked' = picked + 1 /\ picked < NumFiles /\ files' = Append(files, picked + 1)
    BY <1>2 DEF AddFile
  <2>2. files' \in Seq(Nat) /\ IsInjective(files') /\ ToSet(files') = ToSet(files) \cup {picked + 1}
    BY <1>0, <2>1, FileAdded
  <2>3. picked' \in 0..NumFiles /\ picked <= picked' /\ ToSet(files') \subseteq 1..picked'
        /\ ToSet(files') \cap 1..picked \subseteq ToSet(files)
    BY <1>0, <2>1, <2>2
  <2> QED
    BY <1>1, <2>2, <2>3 DEF Selects
<1>3. CASE \E n \in DOMAIN files : RemoveFile(n)
  <2>1. PICK n \in DOMAIN files : files' = RemoveAt(files, n) /\ picked' = picked
    BY <1>3 DEF RemoveFile
  <2>2. files' \in Seq(Nat) /\ IsInjective(files') /\ ToSet(files') \subseteq ToSet(files)
    BY <1>0, <2>1, FileRemoved
  <2> QED
    BY <1>0, <1>1, <2>1, <2>2 DEF Selects
<1>4. CASE ClearFiles
  <2>1. files' = <<>> /\ picked' = picked
    BY <1>4 DEF ClearFiles
  <2>2. files' \in Seq(Nat) /\ IsInjective(files') /\ ToSet(files') = {}
    BY <2>1 DEF IsInjective, ToSet
  <2> QED
    BY <1>0, <1>1, <2>1, <2>2 DEF Selects
<1> QED
  BY <1>2, <1>3, <1>4 DEF Selection

LEMMA SelectionKeeps ==
  ASSUME RowsOK, Selection
  PROVE  RowsOK' /\ Settled
<1>1. Selects /\ SelectionOK /\ picked \in Nat /\ picked' \in Nat
  BY SelectionSelects, ReviewAssumption DEF RowsOK, SelectionOK, Selects
<1>2. SelectionOK'
  <2>1. 1..picked \subseteq 1..picked'
    BY <1>1 DEF Selects
  <2> QED
    BY <1>1, <2>1 DEF Selects, SelectionOK
<1>3. RunsRows'
  <2> SUFFICES ASSUME NEW k \in Runs
               PROVE  (Located(k) /\ ReviewOK(k) /\ PropagationOK(k))'
    BY DEF RunsRows
  <2>0. Located(k) /\ ReviewOK(k) /\ PropagationOK(k) /\ UNCHANGED <<run, reviewRun, propagationRun>>
    BY <1>1 DEF RowsOK, RunsRows, Selects, runVars
  <2>1. Located(k)'
    <3>1. SameRun(run[k], run[k]) /\ picked <= picked'
      BY <1>1 DEF SameRun, Selects
    <3> QED
      BY <1>1, <2>0, <3>1, SameUnderWay DEF Located
  <2>2. ReviewOK(k)'
    <3> SUFFICES ASSUME ReviewNow(k)
                 PROVE  ReviewRows(run[k], preflight, files', written)
      BY <1>1, <2>0 DEF ReviewOK, ReviewNow, Current, Selects
    <3>1. ReviewRows(run[k], preflight, files, written) /\ UnderWay(run[k], picked)
      BY <2>0 DEF ReviewOK, Located, ReviewNow
    <3>2. DocsIn(run[k].photo) \cup DocsIn(run[k].items) \subseteq 1..picked
      BY <3>1, UnderWayDocs
    <3> QED
      BY <1>1, <3>1, <3>2 DEF ReviewRows, Selects
  <2>3. PropagationOK(k)'
    <3> SUFFICES ASSUME PropagationNow(k)
                 PROVE  PropagationRows(run[k], preflight, files')
      BY <1>1, <2>0 DEF PropagationOK, PropagationNow, Current, Selects
    <3>1. PropagationRows(run[k], preflight, files) /\ UnderWay(run[k], picked)
      BY <2>0 DEF PropagationOK, Located, PropagationNow
    <3>2. ToSet(run[k].list) \subseteq 1..picked
      BY <3>1 DEF UnderWay
    <3> QED
      BY <1>1, <3>1, <3>2 DEF PropagationRows, Selects
  <2> QED
    BY <2>1, <2>2, <2>3
<1>4. PlacingOK'
  BY <1>1 DEF RowsOK, PlacingOK, Selects
<1>5. AllReviewed'
  BY <1>1 DEF AllReviewed, Selects
<1>6. Settled
  BY <1>1 DEF Settled, Selects
<1> QED
  BY <1>2, <1>3, <1>4, <1>5, <1>6 DEF RowsOK

-----------------------------------------------------------------------------
(* A row taken from the review, and the ways back to the selection.        *)

LEMMA LeftSet ==
  ASSUME NEW w, NEW s, NEW S, NEW T, Left(w, s, S, T)
  PROVE  ToSet(w) = ToSet(s) \ S
<1>1. \A i \in DOMAIN w : w[i] \in ToSet(s) \ S
  <2> TAKE i \in DOMAIN w
  <2>1. PICK j \in DOMAIN s : w[i] = s[j] /\ s[j] \notin S
    BY DEF Left
  <2> QED
    BY <2>1 DEF ToSet
<1>2. \A j \in DOMAIN s : s[j] \notin S => s[j] \in ToSet(w)
  <2> SUFFICES ASSUME NEW j \in DOMAIN s, s[j] \notin S
               PROVE  s[j] \in ToSet(w)
    OBVIOUS
  <2>1. PICK i \in DOMAIN w : w[i] = s[j]
    BY DEF Left
  <2> QED
    BY <2>1 DEF ToSet
<1> QED
  BY <1>1, <1>2 DEF ToSet

\* A row goes, and its document from the selection.
LEMMA RowRemoved ==
  ASSUME NEW s, Listing(s), NEW i \in ToSet(s), NEW w, w = Without(s, {i})
  PROVE  Listing(w) /\ ToSet(w) = ToSet(s) \ {i} /\ DocsIn(w) = DocsIn(s) \ {i.doc}
<1>1. s \in Seq(Row)
  BY DEF Listing
<1>2. Left(w, s, {i}, Row)
  BY <1>1, WithoutLeaves
<1>3. ToSet(w) = ToSet(s) \ {i}
  BY <1>2, LeftSet
<1>4. Distinct(s, {i})
  BY DEF Distinct, Listing, IsInjective, DocsOf
<1>5. IsInjective(DocsOf(w))
  BY <1>1, <1>4, WithoutDistinct
<1>6. DocsIn(w) = DocsIn(s) \ {i.doc}
  <2>1. \A j \in ToSet(s) : j.doc = i.doc => j = i
    BY OneRowEach
  <2>2. DocsIn(w) = {j.doc : j \in ToSet(w)} /\ DocsIn(s) = {j.doc : j \in ToSet(s)}
    BY DocsAre
  <2> QED
    BY <1>3, <2>1, <2>2
<1> QED
  BY <1>2, <1>3, <1>5, <1>6 DEF Listing, Left

LEMMA DocRemoved ==
  ASSUME NEW f \in Seq(Nat), IsInjective(f), NEW d, NEW g, g = Without(f, {d})
  PROVE  g \in Seq(Nat) /\ IsInjective(g) /\ ToSet(g) = ToSet(f) \ {d}
<1>1. Left(g, f, {d}, Nat)
  BY WithoutLeaves
<1>2. ToSet(g) = ToSet(f) \ {d}
  BY <1>1, LeftSet
<1> QED
  BY <1>1, <1>2 DEF Left

LEMMA LongerRange ==
  ASSUME NEW a \in Nat, NEW b \in Nat, 1..a = 1..b
  PROVE  a <= b
<1>1. CASE a = 0
  BY <1>1
<1>2. CASE a > 0
  <2>1. a \in 1..a
    BY <1>2
  <2>2. a \in 1..b
    BY <2>1
  <2> QED
    BY <2>2
<1> QED
  BY <1>1, <1>2

LEMMA BothRemoved ==
  ASSUME NEW s, Listing(s), NEW f \in Seq(Nat), DocsOf(s) = f, NEW i \in ToSet(s)
  PROVE  DocsOf(Without(s, {i})) = Without(f, {i.doc})
<1>1. s \in Seq(Row)
  BY DEF Listing
<1>2. PICK n \in DOMAIN s : i = s[n]
  BY DEF ToSet
<1>3. DOMAIN s = 1..Len(s) /\ Len(s) \in Nat /\ DOMAIN f = 1..Len(f) /\ Len(f) \in Nat /\ DOMAIN f = DOMAIN s
  BY <1>1 DEF DocsOf
<1>4. Len(s) = Len(f)
  <2>1. 1..Len(s) = 1..Len(f)
    BY <1>3
  <2>2. \A a, b \in Nat : 1..a = 1..b => a <= b
    BY LongerRange
  <2> DEFINE x == Len(s)
             y == Len(f)
  <2>3. x \in Nat /\ y \in Nat /\ 1..x = 1..y /\ 1..y = 1..x
    BY <1>3, <2>1
  <2> HIDE DEF x, y
  <2>4. x <= y
    BY <2>2, <2>3
  <2>5. y <= x
    BY <2>2, <2>3
  <2>6. x = y
    BY <2>3, <2>4, <2>5
  <2> QED
    BY <2>6 DEF x, y
<1>5. \A m \in 1..Len(s) : s[m].doc = f[m]
  BY <1>3 DEF DocsOf
<1>6. \A m \in 1..Len(s) : s[m].doc = s[n].doc => m = n
  BY <1>2, <1>3 DEF Listing, IsInjective, DocsOf
<1>7. \A m \in 1..Len(s) : s[m] \in {i} <=> f[m] \in {i.doc}
  BY <1>2, <1>5, <1>6
<1>8. Alike(s, {i}, f, {i.doc})
  BY <1>4, <1>5, <1>7 DEF Alike
<1> QED
  BY <1>1, <1>8, WithoutMatches

LEMMA RemovingKeeps ==
  ASSUME RowsOK, NEW n \in DOMAIN preflight, RemoveFromReview(n)
  PROVE  RowsOK' /\ Settled
<1> DEFINE i == preflight[n]
<1>0. /\ SelectionOK /\ RunsRows /\ AllReviewed /\ i \in ToSet(preflight)
      /\ Listing(preflight) /\ files \in Seq(Nat) /\ IsInjective(files)
  BY DEF RowsOK, SelectionOK, ToSet
<1>1. /\ step = 2 /\ step' = 2 /\ placing = NoItem /\ placing' = NoItem
      /\ preflight' = Without(preflight, {i}) /\ files' = Without(files, {i.doc})
      /\ UNCHANGED <<picked, written, run, reviewRun, propagationRun, running, reviewError, propagating>>
  BY DEF RemoveFromReview, runVars, statusVars, placerVars
<1> HIDE DEF i
<1>2. /\ Listing(preflight') /\ ToSet(preflight') = ToSet(preflight) \ {i}
      /\ DocsIn(preflight') = DocsIn(preflight) \ {i.doc}
  BY <1>0, <1>1, RowRemoved
<1>3. files' \in Seq(Nat) /\ IsInjective(files') /\ ToSet(files') = ToSet(files) \ {i.doc}
  BY <1>0, <1>1, DocRemoved
<1>4. SelectionOK'
  BY <1>0, <1>1, <1>2, <1>3 DEF SelectionOK
<1>5. RunsRows'
  <2> SUFFICES ASSUME NEW k \in Runs
               PROVE  (Located(k) /\ ReviewOK(k) /\ PropagationOK(k))'
    BY DEF RunsRows
  <2>0. Located(k) /\ ReviewOK(k) /\ PropagationOK(k)
    BY <1>0 DEF RunsRows
  <2>1. Located(k)'
    BY <1>1, <2>0 DEF Located
  <2>2. ReviewOK(k)'
    <3> SUFFICES ASSUME ReviewNow(k)
                 PROVE  ReviewRows(run[k], preflight', files', written) /\ ReviewCovers(run[k], files')
      BY <1>1 DEF ReviewOK, ReviewNow, Current
    <3>1. ReviewRows(run[k], preflight, files, written) /\ ReviewCovers(run[k], files)
      BY <1>1, <2>0 DEF ReviewOK
    <3>2. ReviewRows(run[k], preflight', files', written)
      BY <1>2, <1>3, <3>1 DEF ReviewRows
    <3>3. ReviewCovers(run[k], files')
      BY <1>3, <3>1 DEF ReviewCovers
    <3> QED
      BY <3>2, <3>3
  <2>3. PropagationOK(k)'
    <3> SUFFICES ASSUME PropagationNow(k)
                 PROVE  PropagationRows(run[k], preflight', files') /\ propagating = ToSet(run[k].list)
      BY <1>1 DEF PropagationOK, PropagationNow, Current
    <3>1. PropagationRows(run[k], preflight, files) /\ propagating = ToSet(run[k].list)
      BY <1>1, <2>0 DEF PropagationOK
    <3>2. PropagationRows(run[k], preflight', files')
      BY <1>2, <1>3, <3>1 DEF PropagationRows
    <3> QED
      BY <3>1, <3>2
  <2> QED
    BY <2>1, <2>2, <2>3
<1>6. PlacingOK'
  BY <1>1 DEF PlacingOK
<1>7. AllReviewed'
  <2> SUFFICES ASSUME ~running, ~reviewError
               PROVE  DocsOf(preflight') = files'
    BY <1>1 DEF AllReviewed
  <2>1. DocsOf(preflight) = files
    BY <1>0, <1>1 DEF AllReviewed
  <2> QED
    BY <1>0, <1>1, <2>1, BothRemoved
<1>8. Settled
  <2> SUFFICES ASSUME NEW j \in ToSet(preflight), j.status = "ready", j.doc \in ToSet(files')
               PROVE  j \in ToSet(preflight')
    BY DEF Settled
  <2> QED
    BY <1>2, <1>3
<1> QED
  BY <1>4, <1>5, <1>6, <1>7, <1>8 DEF RowsOK

-----------------------------------------------------------------------------
(* Leaving the review and coming back to it.                               *)

LEMMA BackKeepsRows ==
  ASSUME SignerIInv, RowsOK, Back
  PROVE  RowsOK' /\ Settled
<1> DEFINE stopped == Abort(run, {"review", "propagation"})
<1>0. SelectionOK /\ RunsRows /\ RunsOK /\ picked \in Nat
  BY DEF RowsOK, SelectionOK, SignerIInv
<1>1. /\ step' = 1 /\ placing' = NoItem /\ run' = stopped /\ propagating' = {}
      /\ UNCHANGED <<files, picked, preflight, written, reviewRun, propagationRun>>
  BY DEF Back, placerVars
<1>2. \A k \in Runs : SameRun(run[k], stopped[k])
  BY <1>0, AbortedIs
<1> HIDE DEF stopped
<1>3. SelectionOK'
  BY <1>0, <1>1 DEF SelectionOK
<1>4. RunsRows'
  <2> SUFFICES ASSUME NEW k \in Runs
               PROVE  (Located(k) /\ ReviewOK(k) /\ PropagationOK(k))'
    BY DEF RunsRows
  <2>0. Located(k) /\ ReviewOK(k) /\ PropagationOK(k) /\ SameRun(run[k], run'[k])
    BY <1>0, <1>1, <1>2 DEF RunsRows
  <2>1. Located(k)'
    <3>1. run'[k].at \in 0..Len(run'[k].list) /\ (run'[k].at > 0 => UnderWay(run[k], picked))
      BY <2>0 DEF Located, SameRun
    <3>2. UnderWay(run[k], picked) => UnderWay(run'[k], picked)
      BY <1>0, <2>0, SameUnderWay
    <3> QED
      BY <1>1, <3>1, <3>2 DEF Located
  <2>2. ReviewOK(k)'
    <3> SUFFICES ASSUME ReviewNow(k)
                 PROVE  ReviewRows(run'[k], preflight, files, written)
      BY <1>1, <2>0 DEF ReviewOK, ReviewNow, Current, SameRun
    <3> QED
      BY <2>0, SameRows DEF ReviewOK
  <2>3. PropagationOK(k)'
    <3> SUFFICES ASSUME PropagationNow(k)
                 PROVE  PropagationRows(run'[k], preflight, files)
      BY <1>1, <2>0 DEF PropagationOK, PropagationNow, Current, SameRun
    <3> QED
      BY <2>0, SameRows DEF PropagationOK
  <2> QED
    BY <2>1, <2>2, <2>3
<1>5. PlacingOK' /\ AllReviewed' /\ Settled
  BY <1>1 DEF PlacingOK, AllReviewed, Settled
<1> QED
  BY <1>3, <1>4, <1>5 DEF RowsOK

\* Where the counters move on, what was in flight is no longer current.
LEMMA NoneCurrent ==
  ASSUME RunsOK, reviewRun' = reviewRun + 1, propagationRun' = propagationRun + 1,
         NEW k \in Runs, run[k].at > 0
  PROVE  ~Current(k)'
<1>1. k[2] <= CounterOf(k) /\ reviewRun \in Nat /\ propagationRun \in Nat /\ k[2] \in Nat
  BY RunShape DEF RunsOK
<1> QED
  BY <1>1, RunShape DEF CounterOf, Current

LEMMA RestartKeepsRows ==
  ASSUME SignerIInv, RowsOK, Restart
  PROVE  RowsOK' /\ Settled
<1> DEFINE stopped == Abort(run, {"review", "propagation"})
<1>0. SelectionOK /\ RunsRows /\ RunsOK /\ picked \in Nat
  BY DEF RowsOK, SelectionOK, SignerIInv
<1>1. /\ step' = 1 /\ placing' = NoItem /\ run' = stopped /\ propagating' = {}
      /\ files' = <<>> /\ preflight' = <<>> /\ UNCHANGED <<picked, written>>
      /\ reviewRun' = reviewRun + 1 /\ propagationRun' = propagationRun + 1
  BY DEF Restart, Supersede
<1>2. \A k \in Runs : SameRun(run[k], stopped[k])
  BY <1>0, AbortedIs
<1> HIDE DEF stopped
<1>3. SelectionOK'
  <2>1. /\ files' \in Seq(Nat) /\ preflight' \in Seq(Row) /\ DOMAIN files' = {} /\ DOMAIN preflight' = {}
    BY <1>1
  <2>2. IsInjective(files') /\ Listing(preflight') /\ ToSet(files') = {} /\ DocsIn(preflight') = {}
    BY <2>1 DEF IsInjective, Listing, DocsOf, ToSet, DocsIn
  <2> QED
    BY <1>0, <1>1, <2>1, <2>2 DEF SelectionOK
<1>4. RunsRows'
  <2> SUFFICES ASSUME NEW k \in Runs
               PROVE  (Located(k) /\ ReviewOK(k) /\ PropagationOK(k))'
    BY DEF RunsRows
  <2>0. Located(k) /\ SameRun(run[k], run'[k])
    BY <1>0, <1>1, <1>2 DEF RunsRows
  <2>1. Located(k)'
    <3>1. run'[k].at \in 0..Len(run'[k].list) /\ (run'[k].at > 0 => UnderWay(run[k], picked))
      BY <2>0 DEF Located, SameRun
    <3>2. UnderWay(run[k], picked) => UnderWay(run'[k], picked)
      BY <1>0, <2>0, SameUnderWay
    <3> QED
      BY <1>1, <3>1, <3>2 DEF Located
  <2>2. ReviewOK(k)' /\ PropagationOK(k)'
    <3>1. run'[k].at > 0 => ~Current(k)'
      BY <1>0, <1>1, <2>0, NoneCurrent DEF SameRun
    <3> QED
      BY <3>1 DEF ReviewOK, PropagationOK, ReviewNow, PropagationNow
  <2> QED
    BY <2>1, <2>2
<1>5. PlacingOK' /\ AllReviewed' /\ Settled
  BY <1>1 DEF PlacingOK, AllReviewed, Settled
<1> QED
  BY <1>3, <1>4, <1>5 DEF RowsOK

-----------------------------------------------------------------------------
(* The review begins.                                                      *)

LEMMA PendingIs ==
  ASSUME NEW s, NEW f \in Seq(Nat), IsInjective(f), NEW g, g = Without(f, ToSet(DocsOf(s)))
  PROVE  /\ g \in Seq(Nat) /\ IsInjective(g) /\ ToSet(g) = ToSet(f) \ DocsIn(s)
         /\ g # <<>> => 1 \in 1..Len(g)
<1>1. Left(g, f, DocsIn(s), Nat)
  BY WithoutLeaves, DocsAre
<1>2. g \in Seq(Nat) /\ ToSet(g) = ToSet(f) \ DocsIn(s) /\ IsInjective(g)
  <2>1. ToSet(g) = ToSet(f) \ DocsIn(s)
    BY <1>1, LeftSet
  <2>2. g \in Seq(Nat) /\ IsInjective(g)
    BY <1>1 DEF Left
  <2> QED
    BY <2>1, <2>2
<1>3. g # <<>> => 1 \in 1..Len(g)
  BY <1>2
<1> QED
  BY <1>2, <1>3

\* A review begins with what it keeps and what is pending.
LEMMA FreshReview ==
  ASSUME NEW s, Listing(s), NEW p \in Nat, DocsIn(s) \subseteq 1..p, NEW f \in Seq(Nat), IsInjective(f),
         ToSet(f) \subseteq 1..p, NEW w, OrderedWell(w, s, f),
         NEW g, g = Without(f, ToSet(DocsOf(s))), g # <<>>, NEW r, r = NewRun(g, w)
  PROVE  UnderWay(r, p) /\ ReviewRows(r, w, f, {}) /\ ReviewCovers(r, f)
<1>1. g \in Seq(Nat) /\ IsInjective(g) /\ ToSet(g) = ToSet(f) \ DocsIn(s) /\ 1 \in 1..Len(g)
  BY PendingIs
<1>2. r.list = g /\ r.at = 1 /\ r.photo = w /\ r.items = <<>> /\ r.aborted = FALSE
  BY DEF NewRun
<1>3. Listing(w) /\ DocsIn(w) = DocsIn(s) \cap ToSet(f) /\ DocsIn(<<>>) = {}
  BY DEF OrderedWell, DocsIn
<1>4. UnderWay(r, p)
  BY <1>1, <1>2, <1>3 DEF UnderWay
<1>5. ReviewRows(r, w, f, {})
  <2>1. \A m \in 1..Len(g) : g[m] \in ToSet(g)
    <3>1. DOMAIN g = 1..Len(g)
      BY <1>1
    <3> QED
      BY <3>1 DEF ToSet
  <2> QED
    BY <1>1, <1>2, <1>3, <2>1 DEF ReviewRows
<1>6. ReviewCovers(r, f)
  BY <1>1, <1>2, <1>3 DEF ReviewCovers
<1> QED
  BY <1>4, <1>5, <1>6

LEMMA GoingKeepsRows ==
  ASSUME SignerIInv, RowsOK, GoToReview
  PROVE  RowsOK' /\ Settled
<1> DEFINE stopped == Abort(run, {"review", "propagation"})
           mine == <<"review", reviewRun + 1>>
           fresh == NewRun(Pending, Kept)
           kept == Kept
           due == Pending
<1>0. /\ SelectionOK /\ RunsRows /\ RunsOK /\ PlacingOK /\ picked \in Nat
      /\ Listing(preflight) /\ files \in Seq(Nat) /\ IsInjective(files)
      /\ ToSet(files) \subseteq 1..picked /\ DocsIn(preflight) \subseteq 1..picked
  BY DEF RowsOK, SelectionOK, SignerIInv
<1>1. /\ step' = 2 /\ preflight' = kept /\ written' = {} /\ propagating' = {}
      /\ UNCHANGED <<files, picked, placing>> /\ placing = NoItem
      /\ reviewRun' = reviewRun + 1 /\ propagationRun' = propagationRun + 1
      /\ mine \in Runs
  <2>1. /\ step' = 2 /\ preflight' = kept /\ written' = {} /\ propagating' = {}
        /\ UNCHANGED <<files, picked, placing>> /\ (step = 1 \/ placing = NoItem)
    BY DEF GoToReview, placerVars
  <2>2. /\ reviewRun' = reviewRun + 1 /\ propagationRun' = propagationRun + 1
        /\ reviewRun < MaxReviews /\ reviewRun \in Nat
    BY <1>0 DEF GoToReview, Supersede, RunsOK
  <2>3. mine \in Runs
    BY <2>2, FirstRun
  <2>4. placing = NoItem
    BY <1>0, <2>1 DEF PlacingOK
  <2> QED
    BY <2>1, <2>2, <2>3, <2>4
<1>2. \/ due # <<>> /\ running' /\ run' = [stopped EXCEPT ![mine] = fresh]
      \/ due # <<>> /\ reviewError' /\ run' = stopped
      \/ due = <<>> /\ run' = stopped
  BY DEF GoToReview
<1>3. OrderedWell(kept, preflight, files)
  <2>1. kept = Ordered(preflight, files)
    BY DEF Kept, Ordered
  <2> HIDE DEF kept
  <2> QED
    BY <1>0, <2>1, OrderedIs
<1>4. due = Without(files, ToSet(DocsOf(preflight))) /\ fresh = NewRun(due, kept)
  BY DEF Pending
<1>5. stopped = [k \in Runs |-> stopped[k]] /\ \A k \in Runs : SameRun(run[k], stopped[k])
  BY <1>0, AbortKeeps, AbortedIs
<1> HIDE DEF stopped, fresh, kept, due, mine
<1>6. due # <<>> => UnderWay(fresh, picked) /\ ReviewRows(fresh, kept, files, {}) /\ ReviewCovers(fresh, files)
  BY <1>0, <1>3, <1>4, FreshReview
<1>7. \A k \in Runs : \/ k = mine /\ run'[k] = fresh /\ due # <<>>
                      \/ run'[k] = stopped[k]
  BY <1>1, <1>2, <1>5
<1>8. SelectionOK'
  BY <1>0, <1>1, <1>3 DEF SelectionOK, OrderedWell
<1>9. RunsRows'
  <2> SUFFICES ASSUME NEW k \in Runs
               PROVE  (Located(k) /\ ReviewOK(k) /\ PropagationOK(k))'
    BY DEF RunsRows
  <2>1. CASE k = mine /\ run'[k] = fresh /\ due # <<>>
    <3>1. Located(k)'
      BY <1>1, <1>6, <2>1 DEF Located, UnderWay
    <3>2. ReviewOK(k)'
      BY <1>1, <1>6, <2>1 DEF ReviewOK
    <3>3. PropagationOK(k)'
      BY <2>1 DEF PropagationOK, PropagationNow, mine
    <3> QED
      BY <3>1, <3>2, <3>3
  <2>2. CASE run'[k] = stopped[k]
    <3>0. Located(k) /\ SameRun(run[k], run'[k])
      BY <1>0, <1>5, <2>2 DEF RunsRows
    <3>1. Located(k)'
      <4>1. run'[k].at \in 0..Len(run'[k].list) /\ (run'[k].at > 0 => UnderWay(run[k], picked))
        BY <3>0 DEF Located, SameRun
      <4>2. UnderWay(run[k], picked) => UnderWay(run'[k], picked)
        BY <1>0, <3>0, SameUnderWay
      <4> QED
        BY <1>1, <4>1, <4>2 DEF Located
    <3>2. run'[k].at > 0 => ~Current(k)'
      BY <1>0, <1>1, <3>0, NoneCurrent DEF SameRun
    <3>3. ReviewOK(k)' /\ PropagationOK(k)'
      BY <3>2 DEF ReviewOK, PropagationOK, ReviewNow, PropagationNow
    <3> QED
      BY <3>1, <3>3
  <2> QED
    BY <1>7, <2>1, <2>2
<1>10. PlacingOK'
  BY <1>1 DEF PlacingOK
<1>11. AllReviewed'
  <2> SUFFICES ASSUME ~running', ~reviewError'
               PROVE  DocsOf(preflight') = files
    BY <1>1 DEF AllReviewed
  <2>1. due = <<>>
    BY <1>2
  <2>2. ToSet(due) = ToSet(files) \ DocsIn(preflight) /\ ToSet(<<>>) = {}
    <3>1. ToSet(due) = ToSet(files) \ DocsIn(preflight)
      BY <1>0, <1>4, PendingIs
    <3>2. ToSet(<<>>) = {}
      BY DEF ToSet
    <3> QED
      BY <3>1, <3>2
  <2> QED
    BY <1>1, <1>3, <2>1, <2>2 DEF OrderedWell
<1>12. Settled
  <2> SUFFICES ASSUME NEW i \in ToSet(preflight), i.status = "ready", i.doc \in ToSet(files')
               PROVE  i \in ToSet(preflight')
    BY DEF Settled
  <2> QED
    BY <1>1, <1>3 DEF OrderedWell
<1> QED
  BY <1>8, <1>9, <1>10, <1>11, <1>12 DEF RowsOK

-----------------------------------------------------------------------------
(* A placement by hand.                                                    *)

Chosen(c, s) == Listing(c) /\ ToSet(c) \subseteq ToSet(s) /\ \A i \in ToSet(c) : i.status = "needs_review"

LEMMA CandidatesAre ==
  ASSUME NEW s, Listing(s), NEW u
  PROVE  Chosen(Candidates(s, u), s) /\ Chosen(<<>>, s)
<1> DEFINE S == {i \in ToSet(s) : \/ i.doc = u.doc \/ i.status # "needs_review" \/ ~i.geo
                                  \/ ~({i.doc, u.doc} \subseteq Template)}
           c == Candidates(s, u)
<1>1. s \in Seq(Row) /\ c = Without(s, S) /\ \A i \in ToSet(s) \ S : i.status = "needs_review"
  BY DEF Listing, Candidates
<1> HIDE DEF S, c
<1>2. Left(c, s, S, Row)
  BY <1>1, WithoutLeaves
<1>3. ToSet(c) = ToSet(s) \ S
  BY <1>2, LeftSet
<1>4. Distinct(s, S)
  BY DEF Distinct, Listing, IsInjective, DocsOf
<1>5. IsInjective(DocsOf(c))
  BY <1>1, <1>4, WithoutDistinct
<1>6. Chosen(c, s)
  BY <1>1, <1>2, <1>3, <1>5 DEF Chosen, Listing, Left
<1>7. Chosen(<<>>, s)
  BY DEF Chosen, Listing, IsInjective, DocsOf, ToSet
<1> QED
  BY <1>6, <1>7 DEF c

\* The rows once one of them is replaced.
Replaced(w, s, i, u) ==
  /\ Listing(w) /\ DocsOf(w) = DocsOf(s) /\ DocsIn(w) = DocsIn(s)
  /\ u \in ToSet(w)
  /\ \A j \in ToSet(w) : j = u \/ (j \in ToSet(s) /\ j.doc # i.doc)
  /\ \A j \in ToSet(s) : j.doc # i.doc => j \in ToSet(w)

LEMMA ReplacedIs ==
  ASSUME NEW s, Listing(s), NEW i \in ToSet(s), NEW u \in Row, u.doc = i.doc,
         NEW w, w = [n \in DOMAIN s |-> IF s[n].doc = i.doc THEN u ELSE s[n]]
  PROVE  Replaced(w, s, i, u)
<1>0. s \in Seq(Row) /\ DOMAIN w = DOMAIN s /\ w = [n \in DOMAIN s |-> w[n]]
  BY DEF Listing
<1>1. \A n \in DOMAIN s : w[n] \in Row /\ w[n].doc = s[n].doc
  BY <1>0
<1>2. Listing(w) /\ DocsOf(w) = DocsOf(s) /\ DocsIn(w) = DocsIn(s)
  BY <1>0, <1>1, RowsRewritten DEF Rewritten
<1>3. u \in ToSet(w)
  <2>1. PICK n \in DOMAIN s : i = s[n]
    BY DEF ToSet
  <2>2. w[n] = u /\ n \in DOMAIN w
    BY <2>1
  <2> QED
    BY <2>2 DEF ToSet
<1>4. \A j \in ToSet(w) : j = u \/ (j \in ToSet(s) /\ j.doc # i.doc)
  BY DEF ToSet
<1>5. \A j \in ToSet(s) : j.doc # i.doc => j \in ToSet(w)
  <2> SUFFICES ASSUME NEW n \in DOMAIN s, s[n].doc # i.doc
               PROVE  s[n] \in ToSet(w)
    BY DEF ToSet
  <2>1. w[n] = s[n] /\ n \in DOMAIN w
    OBVIOUS
  <2> QED
    BY <2>1 DEF ToSet
<1> QED
  BY <1>2, <1>3, <1>4, <1>5 DEF Replaced

LEMMA PlacedRow ==
  ASSUME NEW i \in Row, NEW rotated
  PROVE  Placed(i, rotated) \in Row /\ Placed(i, rotated).doc = i.doc /\ Placed(i, rotated).status = "ready"
<1> DEFINE rect == IF rotated THEN i.rect ELSE "person"
           u == Placed(i, rotated)
<1>1. u = [i EXCEPT !.status = "ready", !.source = "person", !.rect = rect] /\ rect \in {"engine", "none", "hint", "person"}
  BY DEF Placed, Row
<1> HIDE DEF rect, u
<1>2. i \in [doc : 1..NumFiles, status : {"ready", "needs_review", "unreadable"},
             source : {"engine", "hint", "person"}, geo : BOOLEAN,
             rect : {"engine", "none", "hint", "person"}]
  BY DEF Row
<1>3. /\ u \in [doc : 1..NumFiles, status : {"ready", "needs_review", "unreadable"},
                source : {"engine", "hint", "person"}, geo : BOOLEAN,
                rect : {"engine", "none", "hint", "person"}]
      /\ u.doc = i.doc /\ u.status = "ready"
  BY <1>1, <1>2
<1> QED
  BY <1>3 DEF Row, u

\* A propagation begins with the rows it is about.
LEMMA FreshPropagation ==
  ASSUME NEW s, Listing(s), NEW p \in Nat, DocsIn(s) \subseteq 1..p, NEW f, NEW c, Chosen(c, s), c # <<>>,
         NEW r, r = NewRun(DocsOf(c), c)
  PROVE  UnderWay(r, p) /\ PropagationRows(r, s, f) /\ ToSet(r.list) = DocsIn(c)
<1>1. r.list = DocsOf(c) /\ r.at = 1 /\ r.photo = c /\ r.items = <<>>
  BY DEF NewRun
<1>2. /\ Listing(c) /\ c \in Seq(Row) /\ IsInjective(DocsOf(c)) /\ ToSet(c) \subseteq ToSet(s)
      /\ Len(c) \in Nat /\ DOMAIN c = 1..Len(c) /\ 1 \in 1..Len(c)
  BY DEF Chosen, Listing
<1>3. DocsIn(c) \subseteq DocsIn(s) /\ ToSet(DocsOf(c)) = DocsIn(c)
  BY <1>2, DocsAre
<1>4. DocsOf(c) \in Seq(Nat) /\ Len(DocsOf(c)) = Len(c) /\ DOMAIN DocsOf(c) = DOMAIN c
  <2>1. \A n \in DOMAIN c : c[n].doc \in DocsIn(c)
    BY DEF DocsIn
  <2>2. \A n \in DOMAIN c : c[n].doc \in Nat
    BY <1>3, <2>1
  <2> QED
    BY <1>2, <2>2 DEF DocsOf
<1>5. UnderWay(r, p)
  BY <1>1, <1>2, <1>3, <1>4 DEF UnderWay
<1>6. PropagationRows(r, s, f)
  <2>1. \A i \in ToSet(s), m \in DOMAIN r.list : i.doc = r.list[m] => i = After(r, m)
    <3> SUFFICES ASSUME NEW i \in ToSet(s), NEW m \in DOMAIN c, i.doc = c[m].doc
                 PROVE  i = After(r, m)
      BY <1>1, <1>4 DEF DocsOf
    <3>1. c[m] \in ToSet(s)
      BY <1>2 DEF ToSet
    <3>2. i = c[m]
      BY <3>1, OneRowEach
    <3>3. After(r, m) = c[m]
      BY <1>1, <1>2 DEF After
    <3> QED
      BY <3>2, <3>3
  <2> QED
    BY <1>1, <1>3, <2>1 DEF PropagationRows, Chosen
<1> QED
  BY <1>1, <1>3, <1>5, <1>6

-----------------------------------------------------------------------------
(* The placement is published and propagated.                              *)

Commits(u, c) ==
  /\ u \in Row /\ u.doc = placing.doc /\ u.status = "ready"
  /\ Replaced(preflight', preflight, placing, u)
  /\ Chosen(c, preflight')
  /\ \/ UNCHANGED <<run, propagationRun, propagating>>
     \/ /\ propagationRun' = propagationRun + 1 /\ propagationRun' <= MaxPropagations
        /\ \/ run' = Abort(run, {"propagation"}) /\ propagating' = {}
           \/ /\ c # <<>> /\ propagating' = DocsIn(c)
              /\ run' = [Abort(run, {"propagation"}) EXCEPT ![<<"propagation", propagationRun + 1>>] =
                           NewRun(DocsOf(c), c)]

LEMMA CommitIs ==
  ASSUME SelectionOK, PlacingOK, CommitPlacement
  PROVE  \E u, c : Commits(u, c)
<1>0. placing \in ToSet(preflight) /\ placing \in Row /\ Listing(preflight)
  <2>1. placing \in ToSet(preflight) /\ Listing(preflight)
    BY DEF CommitPlacement, PlacingOK, SelectionOK
  <2> QED
    BY <2>1 DEF Listing, ToSet
<1>1. PICK rotated \in BOOLEAN, opens \in BOOLEAN :
       LET updated == Placed(placing, rotated)
           shown == [n \in DOMAIN preflight |->
                       IF preflight[n].doc = placing.doc THEN updated ELSE preflight[n]]
           cands == IF updated.geo /\ updated.rect # "none" THEN Candidates(shown, updated) ELSE <<>>
           targets == ToSet(DocsOf(cands))
           next == propagationRun + 1
       IN  /\ preflight' = shown
           /\ IF targets = {}
              THEN UNCHANGED <<run, propagationRun, propagating>>
              ELSE /\ next <= MaxPropagations
                   /\ propagationRun' = next
                   /\ propagating' = IF opens THEN targets ELSE {}
                   /\ run' = LET stopped == Abort(run, {"propagation"}) IN
                             IF opens THEN [stopped EXCEPT ![<<"propagation", next>>] =
                                              NewRun(DocsOf(cands), cands)]
                                      ELSE stopped
  BY DEF CommitPlacement
<1> DEFINE u == Placed(placing, rotated)
           s == preflight'
           c == IF u.geo /\ u.rect # "none" THEN Candidates(s, u) ELSE <<>>
<1>2. s = [n \in DOMAIN preflight |-> IF preflight[n].doc = placing.doc THEN u ELSE preflight[n]]
  BY <1>1
<1>3. \/ UNCHANGED <<run, propagationRun, propagating>>
      \/ /\ ToSet(DocsOf(c)) # {} /\ propagationRun' = propagationRun + 1 /\ propagationRun' <= MaxPropagations
         /\ \/ run' = Abort(run, {"propagation"}) /\ propagating' = {}
            \/ /\ propagating' = ToSet(DocsOf(c))
               /\ run' = [Abort(run, {"propagation"}) EXCEPT ![<<"propagation", propagationRun + 1>>] =
                            NewRun(DocsOf(c), c)]
  BY <1>1
<1>4. u \in Row /\ u.doc = placing.doc /\ u.status = "ready"
  BY <1>0, PlacedRow
<1> HIDE DEF u
<1>5. Replaced(s, preflight, placing, u)
  BY <1>0, <1>2, <1>4, ReplacedIs
<1>6. Chosen(c, s)
  <2>1. Listing(s)
    BY <1>5 DEF Replaced
  <2>2. Chosen(Candidates(s, u), s) /\ Chosen(<<>>, s)
    BY <2>1, CandidatesAre
  <2> QED
    BY <2>2
<1> HIDE DEF c
<1>7. ToSet(DocsOf(c)) = DocsIn(c)
  BY DocsAre
<1>8. DocsIn(c) # {} => c # <<>>
  BY DEF DocsIn
<1>9. Commits(u, c)
  BY <1>3, <1>4, <1>5, <1>6, <1>7, <1>8 DEF Commits
<1> QED
  BY <1>9

LEMMA CommittingKeepsRows ==
  ASSUME SignerIInv, RowsOK, CommitPlacement
  PROVE  RowsOK' /\ Settled
<1>0. /\ SelectionOK /\ RunsRows /\ RunsOK /\ PlacingOK /\ ReviewIsAnnounced /\ AllReviewed
      /\ picked \in Nat /\ DocsIn(preflight) \subseteq 1..picked /\ Listing(preflight)
  BY DEF RowsOK, SelectionOK, SignerIInv
<1>1. PICK u, c : Commits(u, c)
  BY <1>0, CommitIs
<1>2. /\ step = 2 /\ step' = 2 /\ placing' = NoItem /\ placing # NoItem
      /\ UNCHANGED <<files, picked, running, reviewError, reviewRun>> /\ written' = Written(placing.doc)
      /\ placing \in ToSet(preflight) /\ placing.source # "person" /\ placing.doc \notin propagating
  BY <1>0 DEF CommitPlacement, PlacingOK
<1>3. /\ Listing(preflight') /\ DocsOf(preflight') = DocsOf(preflight) /\ DocsIn(preflight') = DocsIn(preflight)
      /\ \A j \in ToSet(preflight') : j = u \/ (j \in ToSet(preflight) /\ j.doc # placing.doc)
      /\ \A j \in ToSet(preflight) : j.doc # placing.doc => j \in ToSet(preflight')
      /\ u \in ToSet(preflight') /\ u.doc = placing.doc /\ u.status = "ready"
  BY <1>1 DEF Commits, Replaced
<1> DEFINE stopped == Abort(run, {"propagation"})
           mine == <<"propagation", propagationRun + 1>>
           fresh == NewRun(DocsOf(c), c)
<1>4. /\ stopped = [k \in Runs |-> stopped[k]]
      /\ \A k \in Runs : SameRun(run[k], stopped[k]) /\ (k[1] # "propagation" => stopped[k] = run[k])
  BY <1>0, AbortKeeps, AbortedIs
<1> HIDE DEF stopped, fresh
<1>5. propagationRun \in Nat /\ reviewRun \in Nat /\ (propagationRun + 1 <= MaxPropagations => mine \in Runs)
  <2>1. propagationRun \in Nat /\ reviewRun \in Nat
    BY <1>0 DEF RunsOK
  <2>2. propagationRun + 1 <= MaxPropagations => propagationRun < MaxPropagations
    BY <2>1, ReviewAssumption
  <2> QED
    BY <2>1, <2>2, FirstRun
<1> HIDE DEF mine
<1>6. \/ UNCHANGED <<run, propagationRun, propagating>>
      \/ /\ propagationRun' = propagationRun + 1 /\ mine \in Runs
         /\ \/ run' = stopped /\ propagating' = {}
            \/ c # <<>> /\ propagating' = DocsIn(c) /\ run' = [stopped EXCEPT ![mine] = fresh]
  BY <1>1, <1>5 DEF Commits, stopped, mine, fresh
<1>7. c # <<>> => /\ UnderWay(fresh, picked) /\ PropagationRows(fresh, preflight', files)
                  /\ ToSet(fresh.list) = DocsIn(c)
  <2>1. Chosen(c, preflight') /\ DocsIn(preflight') \subseteq 1..picked
    BY <1>0, <1>1, <1>3 DEF Commits
  <2> QED
    BY <1>0, <1>3, <2>1, FreshPropagation DEF fresh
<1>8. DocsIn(c) \subseteq 1..NumFiles
  <2>1. ToSet(c) \subseteq ToSet(preflight')
    BY <1>1 DEF Commits, Chosen
  <2>2. DocsIn(c) \subseteq DocsIn(preflight')
    BY <2>1, DocsAre
  <2> QED
    BY <1>0, <1>3, <2>2, ReviewAssumption DEF SelectionOK
<1>9. SelectionOK'
  <2>1. placing.doc \in DocsIn(preflight)
    BY <1>2, DocsAre
  <2>2. placing.doc \in 1..NumFiles
    BY <1>0, <2>1, ReviewAssumption DEF SelectionOK
  <2>3. written' \subseteq 1..NumFiles
    BY <1>0, <1>2, <2>2 DEF SelectionOK, Written
  <2>4. propagating' \subseteq 1..NumFiles
    BY <1>0, <1>6, <1>8 DEF SelectionOK
  <2> QED
    BY <1>0, <1>2, <1>3, <2>3, <2>4 DEF SelectionOK
<1>10. \A k \in Runs : \/ k = mine /\ run'[k] = fresh /\ c # <<>> /\ propagating' = DocsIn(c)
                       \/ run'[k] = run[k] /\ UNCHANGED <<propagationRun, propagating>>
                       \/ run'[k] = stopped[k] /\ propagationRun' = propagationRun + 1
  BY <1>4, <1>6
<1>11. RunsRows'
  <2> SUFFICES ASSUME NEW k \in Runs
               PROVE  (Located(k) /\ ReviewOK(k) /\ PropagationOK(k))'
    BY DEF RunsRows
  <2>0. Located(k) /\ ReviewOK(k) /\ PropagationOK(k)
    BY <1>0 DEF RunsRows
  <2>1. CASE k = mine /\ run'[k] = fresh /\ c # <<>> /\ propagating' = DocsIn(c)
    <3>1. Located(k)'
      BY <1>2, <1>7, <2>1 DEF Located, UnderWay
    <3>2. ReviewOK(k)'
      BY <2>1 DEF ReviewOK, ReviewNow, mine
    <3>3. PropagationOK(k)'
      BY <1>2, <1>7, <2>1 DEF PropagationOK
    <3> QED
      BY <3>1, <3>2, <3>3
  <2>2. CASE SameRun(run[k], run'[k]) /\ (k[1] = "review" => run'[k] = run[k])
              /\ \/ run'[k] = run[k] /\ UNCHANGED <<propagationRun, propagating>>
                 \/ propagationRun' = propagationRun + 1
    <3>1. Located(k)'
      <4>1. run'[k].at \in 0..Len(run'[k].list) /\ (run'[k].at > 0 => UnderWay(run[k], picked))
        BY <2>0, <2>2 DEF Located, SameRun
      <4>2. UnderWay(run[k], picked) => UnderWay(run'[k], picked)
        BY <1>0, <2>2, SameUnderWay
      <4> QED
        BY <1>2, <4>1, <4>2 DEF Located
    <3>2. ReviewOK(k)'
      <4> SUFFICES ASSUME k[1] = "review", Current(k), run[k].at > 0
                   PROVE  ReviewRows(run[k], preflight', files, written') /\ ReviewCovers(run[k], files)
        BY <1>2, <2>2 DEF ReviewOK, ReviewNow, Current
      <4>1. ReviewRows(run[k], preflight, files, written) /\ ReviewCovers(run[k], files)
        BY <1>2, <2>0 DEF ReviewOK, ReviewNow
      <4>2. running
        BY <1>0 DEF ReviewIsAnnounced, Current
      <4>3. written' = written \cup {placing.doc}
        BY <1>2, <4>2 DEF Written
      <4>4. ReviewRows(run[k], preflight', files, written')
        BY <1>3, <4>1, <4>3 DEF ReviewRows
      <4> QED
        BY <4>1, <4>4
    <3>3. PropagationOK(k)'
      <4> SUFFICES ASSUME k[1] = "propagation", Current(k)', run'[k].at > 0
                   PROVE  PropagationRows(run'[k], preflight', files) /\ propagating' = ToSet(run'[k].list)
        BY <1>2 DEF PropagationOK, PropagationNow
      <4>1. ~(propagationRun' = propagationRun + 1)
        <5>1. k[2] <= propagationRun /\ k[2] \in Nat
          BY <1>0, <2>2, RunShape DEF RunsOK, CounterOf, SameRun
        <5> QED
          BY <1>5, <5>1 DEF Current
      <4>2. run'[k] = run[k] /\ propagating' = propagating /\ Current(k)
        BY <2>2, <4>1 DEF Current
      <4>3. PropagationRows(run[k], preflight, files) /\ propagating = ToSet(run[k].list)
        BY <1>2, <2>0, <4>2 DEF PropagationOK, PropagationNow
      <4>4. \A i \in ToSet(preflight'), m \in DOMAIN run[k].list :
              i.doc = run[k].list[m] => i \in ToSet(preflight)
        <5> SUFFICES ASSUME NEW m \in DOMAIN run[k].list
                     PROVE  run[k].list[m] # u.doc
          BY <1>3
        <5>1. run[k].list[m] \in propagating
          BY <4>3 DEF ToSet
        <5> QED
          BY <1>2, <1>3, <5>1
      <4>5. PropagationRows(run[k], preflight', files)
        BY <1>3, <4>3, <4>4 DEF PropagationRows
      <4> QED
        BY <4>2, <4>3, <4>5
    <3> QED
      BY <3>1, <3>2, <3>3
  <2>3. SameRun(run[k], run[k])
    BY DEF SameRun
  <2> QED
    BY <1>4, <1>10, <2>1, <2>2, <2>3
<1>12. PlacingOK' /\ AllReviewed'
  BY <1>0, <1>2, <1>3 DEF PlacingOK, AllReviewed
<1>13. Settled
  <2> SUFFICES ASSUME NEW i \in ToSet(preflight), i.status = "ready"
               PROVE  \E j \in ToSet(preflight') :
                        j.doc = i.doc /\ j.status = "ready" /\ (i.source = "person" => j = i)
    BY DEF Settled
  <2>1. CASE i.doc = placing.doc
    <3>1. i = placing
      BY <1>0, <1>2, <2>1, OneRowEach
    <3> QED
      BY <1>2, <1>3, <3>1
  <2>2. CASE i.doc # placing.doc
    BY <1>3, <2>2
  <2> QED
    BY <2>1, <2>2
<1> QED
  BY <1>9, <1>11, <1>12, <1>13 DEF RowsOK

-----------------------------------------------------------------------------
(* A document of a run settles.                                            *)

LEMMA OutcomeIs ==
  ASSUME NEW kind, NEW d \in 1..NumFiles, NEW i \in Outcomes(kind, d)
  PROVE  i \in Row /\ i.doc = d
<1>1. \E status \in {"ready", "needs_review", "unreadable"}, source \in {"engine", "hint"},
         geo \in BOOLEAN, rect \in {"engine", "none", "hint", "person"} :
        i = [doc |-> d, status |-> status, source |-> source, geo |-> geo, rect |-> rect]
  BY DEF Outcomes, Item, Failed
<1> QED
  BY <1>1 DEF Row

\* The run goes on to its next document.
Advances(r, q, i) ==
  /\ r.at # Len(r.list) /\ i.doc = r.list[r.at]
  /\ q.list = r.list /\ q.photo = r.photo /\ q.at = r.at + 1 /\ q.items = Append(r.items, i)
  /\ q.aborted = r.aborted

\* The items of a run once one more is in.
Gathers(r, t, i) ==
  /\ t \in Seq(Row) /\ Len(t) = r.at /\ DOMAIN t = 1..r.at /\ t[r.at] = i
  /\ \A m \in 1..r.at : m \in DOMAIN r.list /\ t[m].doc = r.list[m]
  /\ \A m \in 1..r.at : m # r.at => m \in DOMAIN r.items /\ m < r.at /\ t[m] = r.items[m]
  /\ ToSet(t) = ToSet(r.items) \cup {i} /\ DocsIn(t) = DocsIn(r.items) \cup {i.doc}
  /\ IsInjective(DocsOf(t))

LEMMA OneGathered ==
  ASSUME NEW r, NEW p, UnderWay(r, p), NEW i \in Row, i.doc = r.list[r.at], NEW t, t = Append(r.items, i)
  PROVE  Gathers(r, t, i)
<1>1. /\ r.items \in Seq(Row) /\ Len(r.items) = r.at - 1 /\ r.at \in 1..Len(r.list) /\ r.list \in Seq(Nat)
      /\ r.at \in Nat /\ DOMAIN r.list = 1..Len(r.list) /\ Len(r.list) \in Nat
      /\ \A m \in DOMAIN r.items : r.items[m].doc = r.list[m]
  BY DEF UnderWay
<1>2. /\ t \in Seq(Row) /\ Len(t) = Len(r.items) + 1 /\ t[Len(r.items) + 1] = i
      /\ \A m \in 1..Len(r.items) : t[m] = r.items[m]
  BY <1>1
<1>3. Len(r.items) + 1 = r.at /\ DOMAIN r.items = 1..(r.at - 1)
  BY <1>1
<1>4. t \in Seq(Row) /\ Len(t) = r.at /\ DOMAIN t = 1..r.at /\ t[r.at] = i
  BY <1>2, <1>3
<1>5. \A m \in 1..r.at : m # r.at => m \in DOMAIN r.items /\ m < r.at /\ t[m] = r.items[m]
  BY <1>1, <1>2, <1>3
<1>6. \A m \in 1..r.at : m \in DOMAIN r.list /\ t[m].doc = r.list[m]
  BY <1>1, <1>4, <1>5
<1>7. \A m \in DOMAIN r.items : m \in DOMAIN t /\ t[m] = r.items[m]
  BY <1>1, <1>3, <1>4, <1>5
<1>8. r.at \in DOMAIN t
  BY <1>1, <1>4
<1>9. ToSet(t) = ToSet(r.items) \cup {i}
  BY <1>4, <1>5, <1>7, <1>8 DEF ToSet
<1>10. DocsIn(t) = DocsIn(r.items) \cup {i.doc}
  BY <1>4, <1>5, <1>7, <1>8 DEF DocsIn
<1>11. IsInjective(DocsOf(t))
  <2> SUFFICES ASSUME NEW a \in DOMAIN t, NEW b \in DOMAIN t, t[a].doc = t[b].doc
               PROVE  a = b
    BY DEF IsInjective, DocsOf
  <2>1. r.list[a] = r.list[b] /\ a \in DOMAIN r.list /\ b \in DOMAIN r.list
    BY <1>4, <1>6
  <2> QED
    BY <2>1 DEF UnderWay, IsInjective
<1> QED
  BY <1>4, <1>5, <1>6, <1>9, <1>10, <1>11 DEF Gathers

LEMMA AdvancedUnderWay ==
  ASSUME NEW r, NEW p, UnderWay(r, p), NEW i \in Row, NEW q, Advances(r, q, i)
  PROVE  UnderWay(q, p) /\ Gathers(r, q.items, i)
<1>1. Gathers(r, q.items, i)
  BY OneGathered DEF Advances
<1>2. r.at + 1 \in 1..Len(r.list) /\ r.at + 1 - 1 = r.at
  BY DEF UnderWay, Advances
<1>3. UnderWay(q, p)
  <2>1. /\ q.list = r.list /\ q.photo = r.photo /\ q.at = r.at + 1 /\ r.at + 1 \in 1..Len(r.list)
        /\ q.items \in Seq(Row) /\ Len(q.items) = r.at /\ DOMAIN q.items = 1..r.at /\ q.at - 1 = r.at
    BY <1>1, <1>2 DEF Advances, Gathers
  <2>2. \A m \in DOMAIN q.items : q.items[m].doc = q.list[m]
    BY <1>1, <2>1 DEF Gathers
  <2> QED
    BY <2>1, <2>2 DEF UnderWay
<1> QED
  BY <1>1, <1>3

-----------------------------------------------------------------------------
(* A review answers.                                                       *)

\* The rows on screen once the item is in, if its document is still selected.
Lands(s, v, i, f) ==
  /\ Listing(v) /\ i.doc \notin DocsIn(s) /\ ToSet(s) \subseteq ToSet(v)
  /\ \A j \in ToSet(v) : j \in ToSet(s) \/ (j = i /\ i.doc \in ToSet(f))
  /\ i.doc \in ToSet(f) => i \in ToSet(v)

LEMMA ReviewLands ==
  ASSUME NEW s, Listing(s), NEW i \in Row, i.doc \notin DocsIn(s), NEW f, NEW v,
         v = IF i.doc \in ToSet(f) THEN Append(s, i) ELSE s
  PROVE  Lands(s, v, i, f)
<1>1. CASE i.doc \in ToSet(f)
  <2>1. v = Append(s, i)
    BY <1>1
  <2>2. Listing(v) /\ ToSet(v) = ToSet(s) \cup {i}
    BY <2>1, RowAdded
  <2> QED
    BY <1>1, <2>2 DEF Lands
<1>2. CASE i.doc \notin ToSet(f)
  BY <1>2 DEF Lands
<1> QED
  BY <1>1, <1>2

\* What the review relates, once the item is in.
Covered(r, t, v, f, w) ==
  /\ (DocsIn(r.photo) \cup DocsIn(t)) \cap ToSet(f) \subseteq DocsIn(v)
  /\ \A m \in DOMAIN r.list : m > r.at => r.list[m] \notin DocsIn(v)
  /\ \A j \in ToSet(v) : j.doc \in w \/ j \in ToSet(r.photo) \cup ToSet(t)
  /\ DocsIn(r.photo) \cap DocsIn(t) = {}

LEMMA LandedCovered ==
  ASSUME NEW r, NEW p, UnderWay(r, p), NEW s, NEW f, NEW w, ReviewRows(r, s, f, w),
         NEW i \in Row, i.doc = r.list[r.at], NEW v, Lands(s, v, i, f), NEW t, Gathers(r, t, i)
  PROVE  Covered(r, t, v, f, w)
<1>0. /\ DocsIn(v) = {j.doc : j \in ToSet(v)} /\ DocsIn(s) = {j.doc : j \in ToSet(s)}
      /\ r.at \in Nat /\ r.at \in DOMAIN r.list /\ DOMAIN r.list = 1..Len(r.list)
  BY DocsAre DEF UnderWay
<1>1. (DocsIn(r.photo) \cup DocsIn(t)) \cap ToSet(f) \subseteq DocsIn(v)
  <2> SUFFICES ASSUME NEW d \in ToSet(f), d \in DocsIn(r.photo) \cup DocsIn(t)
               PROVE  d \in DocsIn(v)
    OBVIOUS
  <2>1. CASE d = i.doc
    BY <1>0, <2>1 DEF Lands
  <2>2. CASE d # i.doc
    <3>1. d \in DocsIn(s)
      BY <2>2 DEF Gathers, ReviewRows
    <3> QED
      BY <1>0, <3>1 DEF Lands
  <2> QED
    BY <2>1, <2>2
<1>2. \A m \in DOMAIN r.list : m > r.at => r.list[m] \notin DocsIn(v)
  <2> SUFFICES ASSUME NEW m \in DOMAIN r.list, m > r.at, NEW j \in ToSet(v), j.doc = r.list[m]
               PROVE  FALSE
    BY <1>0
  <2>1. m \in r.at..Len(r.list)
    BY <1>0
  <2>2. r.list[m] \notin DocsIn(s)
    BY <2>1 DEF ReviewRows
  <2>3. j = i
    BY <1>0, <2>2 DEF Lands
  <2>4. m = r.at
    BY <1>0, <2>3 DEF UnderWay, IsInjective
  <2> QED
    BY <1>0, <2>4
<1>3. \A j \in ToSet(v) : j.doc \in w \/ j \in ToSet(r.photo) \cup ToSet(t)
  BY DEF Lands, Gathers, ReviewRows
<1>4. DocsIn(r.photo) \cap DocsIn(t) = {}
  <2>1. DocsIn(t) \subseteq ToSet(r.list)
    <3>1. DocsIn(r.items) \subseteq ToSet(r.list)
      BY UnderWayDocs
    <3>2. i.doc \in ToSet(r.list)
      BY <1>0 DEF ToSet
    <3> QED
      BY <3>1, <3>2 DEF Gathers
  <2> QED
    BY <2>1 DEF ReviewRows
<1> QED
  BY <1>1, <1>2, <1>3, <1>4 DEF Covered

LEMMA AdvancedReview ==
  ASSUME NEW r, NEW p, UnderWay(r, p), NEW s, NEW f, NEW w, ReviewRows(r, s, f, w), NEW i, NEW q,
         Advances(r, q, i), NEW v, Covered(r, q.items, v, f, w)
  PROVE  ReviewRows(q, v, f, w) /\ (ReviewCovers(r, f) => ReviewCovers(q, f))
<1>0. r.at \in Nat /\ DOMAIN r.list = 1..Len(r.list) /\ Len(r.list) \in Nat /\ 1 <= r.at
  BY DEF UnderWay
<1>1. \A m \in q.at..Len(q.list) : q.list[m] \notin DocsIn(v)
  <2> SUFFICES ASSUME NEW m \in (r.at + 1)..Len(r.list)
               PROVE  r.list[m] \notin DocsIn(v)
    BY DEF Advances
  <2>1. m \in DOMAIN r.list /\ m > r.at
    BY <1>0
  <2> QED
    BY <2>1 DEF Covered
<1>2. ReviewRows(q, v, f, w)
  BY <1>1 DEF ReviewRows, Covered, Advances
<1> QED
  BY <1>2 DEF ReviewCovers, Advances

\* Lists of different documents, one after the other.
LEMMA Joined ==
  ASSUME NEW a, Listing(a), NEW b, Listing(b), DocsIn(a) \cap DocsIn(b) = {}, NEW c, c = a \o b
  PROVE  Listing(c) /\ ToSet(c) = ToSet(a) \cup ToSet(b)
<1>1. /\ a \in Seq(Row) /\ b \in Seq(Row) /\ Len(a) \in Nat /\ Len(b) \in Nat
      /\ DOMAIN a = 1..Len(a) /\ DOMAIN b = 1..Len(b)
  BY DEF Listing
<1>2. /\ c \in Seq(Row) /\ Len(c) = Len(a) + Len(b)
      /\ \A n \in 1..(Len(a) + Len(b)) : c[n] = IF n <= Len(a) THEN a[n] ELSE b[n - Len(a)]
  BY <1>1, ConcatProperties
<1>3. DOMAIN c = 1..(Len(a) + Len(b))
  BY <1>1, <1>2
<1>4. \A n \in DOMAIN c : \/ n \in DOMAIN a /\ c[n] = a[n]
                          \/ n - Len(a) \in DOMAIN b /\ c[n] = b[n - Len(a)] /\ n > Len(a)
  <2> TAKE n \in DOMAIN c
  <2>1. n \in 1..(Len(a) + Len(b)) /\ n \in Nat
    BY <1>1, <1>3
  <2>2. CASE n <= Len(a)
    BY <1>1, <1>2, <2>1, <2>2
  <2>3. CASE ~(n <= Len(a))
    <3>1. n - Len(a) \in 1..Len(b) /\ n > Len(a)
      BY <1>1, <2>1, <2>3
    <3> QED
      BY <1>1, <1>2, <2>1, <2>3, <3>1
  <2> QED
    BY <2>2, <2>3
<1>5. \A n \in DOMAIN a : n \in DOMAIN c /\ c[n] = a[n]
  BY <1>1, <1>2, <1>3
<1>6. \A n \in DOMAIN b : n + Len(a) \in DOMAIN c /\ c[n + Len(a)] = b[n]
  <2> TAKE n \in DOMAIN b
  <2> DEFINE m == n + Len(a)
  <2>1. m \in 1..(Len(a) + Len(b)) /\ ~(m <= Len(a)) /\ m - Len(a) = n
    BY <1>1
  <2> HIDE DEF m
  <2>2. m \in DOMAIN c /\ c[m] = b[n]
    BY <1>2, <1>3, <2>1
  <2> QED
    BY <2>2 DEF m
<1>7. ToSet(c) = ToSet(a) \cup ToSet(b)
  <2>1. ToSet(c) \subseteq ToSet(a) \cup ToSet(b)
    BY <1>4 DEF ToSet
  <2>2. ToSet(a) \subseteq ToSet(c)
    BY <1>5 DEF ToSet
  <2>3. ToSet(b) \subseteq ToSet(c)
    <3> SUFFICES ASSUME NEW n \in DOMAIN b
                 PROVE  b[n] \in ToSet(c)
      BY DEF ToSet
    <3>1. n + Len(a) \in DOMAIN c /\ c[n + Len(a)] = b[n]
      BY <1>6
    <3> QED
      BY <3>1 DEF ToSet
  <2> QED
    BY <2>1, <2>2, <2>3
<1>8. IsInjective(DocsOf(c))
  <2> SUFFICES ASSUME NEW x \in DOMAIN c, NEW y \in DOMAIN c, c[x].doc = c[y].doc
               PROVE  x = y
    BY DEF IsInjective, DocsOf
  <2>1. \A m \in DOMAIN a, n \in DOMAIN b : a[m].doc # b[n].doc
    BY DEF DocsIn
  <2>2. (\A m, n \in DOMAIN a : a[m].doc = a[n].doc => m = n) /\ (\A m, n \in DOMAIN b : b[m].doc = b[n].doc => m = n)
    BY DEF Listing, IsInjective, DocsOf
  <2>3. x \in Nat /\ y \in Nat /\ (x - Len(a) = y - Len(a) => x = y)
    BY <1>1, <1>3
  <2> QED
    BY <1>4, <2>1, <2>2, <2>3
<1> QED
  BY <1>2, <1>7, <1>8 DEF Listing

-----------------------------------------------------------------------------
(* A document of a review settles.                                         *)

\* At the end of a review, what the report has and what the screen has come to the same.
LEMMA RebuildIs ==
  ASSUME NEW v, Listing(v), NEW r, Listing(r.photo), NEW t, Listing(t), Covered(r, t, v, files, written)
  PROVE  Rebuild(v, r.photo, t) = Ordered(v, files)
<1> DEFINE all == r.photo \o t
           row(d) == IF d \in written /\ Has(v, d) THEN Latest(v, d) ELSE Get(all, d)
<1>1. Listing(all) /\ ToSet(all) = ToSet(r.photo) \cup ToSet(t)
  BY Joined DEF Covered
<1> HIDE DEF all
<1>2. DocsIn(all) = DocsIn(r.photo) \cup DocsIn(t)
  <2>1. /\ DocsIn(all) = {i.doc : i \in ToSet(all)} /\ DocsIn(t) = {i.doc : i \in ToSet(t)}
        /\ DocsIn(r.photo) = {i.doc : i \in ToSet(r.photo)}
    BY DocsAre
  <2> QED
    BY <1>1, <2>1
<1>3. ASSUME NEW n \in DOMAIN files
      PROVE  row(files[n]) = Get(v, files[n])
  <2> DEFINE d == files[n]
  <2>0. d \in ToSet(files)
    BY DEF ToSet
  <2> HIDE DEF d
  <2>1. CASE d \in DocsIn(v)
    <3>1. PICK m \in DOMAIN v : v[m].doc = d
      BY <2>1 DEF DocsIn
    <3>2. v \in Seq(Row) /\ IsInjective(DocsOf(v)) /\ all \in Seq(Row) /\ IsInjective(DocsOf(all))
      BY <1>1 DEF Listing
    <3>3. Latest(v, d) = v[m] /\ Get(v, d) = v[m]
      BY <3>1, <3>2, LatestOfOne
    <3>4. d \notin written => Get(all, d) = v[m]
      <4> SUFFICES ASSUME d \notin written
                   PROVE  Get(all, d) = v[m]
        OBVIOUS
      <4>1. v[m] \in ToSet(v)
        BY <3>1 DEF ToSet
      <4>2. v[m] \in ToSet(all)
        BY <1>1, <3>1, <4>1 DEF Covered
      <4>3. PICK x \in DOMAIN all : all[x] = v[m]
        BY <4>2 DEF ToSet
      <4>4. all[x].doc = d
        BY <3>1, <4>3
      <4> QED
        BY <3>2, <4>3, <4>4, LatestOfOne
    <3>5. Has(v, d)
      BY <3>1 DEF Has
    <3> QED
      BY <3>3, <3>4, <3>5 DEF d
  <2>2. CASE d \notin DocsIn(v)
    <3>1. ~Has(v, d)
      BY <2>2 DEF Has, DocsIn
    <3>2. d \notin DocsIn(all)
      BY <1>2, <2>0, <2>2 DEF Covered
    <3>3. ~Has(all, d)
      BY <3>2 DEF Has, DocsIn
    <3> QED
      BY <3>1, <3>3 DEF Get, d
  <2> QED
    BY <2>1, <2>2
<1>4. Rebuild(v, r.photo, t) = Without([n \in DOMAIN files |-> row(files[n])], {NoItem})
  BY DEF Rebuild, all
<1> HIDE DEF row
<1>5. [n \in DOMAIN files |-> row(files[n])] = [n \in DOMAIN files |-> Get(v, files[n])]
  BY <1>3
<1> QED
  BY <1>4, <1>5 DEF Ordered

-----------------------------------------------------------------------------
(* What every answer does to the runs.                                     *)

Ends(k, throws) == throws \/ run[k].aborted \/ run[k].at = Len(run[k].list)

Done(k, i, throws) ==
  /\ i \in Row /\ i.doc = run[k].list[run[k].at] /\ UnderWay(run[k], picked) /\ run[k].at > 0
  /\ UNCHANGED <<step, files, picked, reviewRun, propagationRun, placing>>
  /\ \A j \in Runs : j # k => run'[j] = run[j]
  /\ run'[k].at > 0 => ~Ends(k, throws) /\ Advances(run[k], run'[k], i)
  /\ \A j \in Runs : Located(j)'

LEMMA DocInSelection ==
  ASSUME SelectionOK, NEW r, UnderWay(r, picked)
  PROVE  r.list[r.at] \in 1..NumFiles
<1>1. r.at \in DOMAIN r.list
  BY DEF UnderWay
<1>2. r.list[r.at] \in 1..picked /\ picked \in 0..NumFiles /\ NumFiles \in Nat
  BY <1>1, ReviewAssumption DEF UnderWay, SelectionOK, ToSet
<1> QED
  BY <1>2

LEMMA DoneIs ==
  ASSUME RunsOK, SelectionOK, RunsRows, NEW k \in Runs, DocumentDone(k)
  PROVE  \E i, throws : throws \in BOOLEAN /\ Settles(k, i, throws) /\ Done(k, i, throws)
<1>1. PICK i \in Outcomes(k[1], run[k].list[run[k].at]), throws \in BOOLEAN : Settles(k, i, throws)
  BY DEF DocumentDone
<1>2. run[k].at > 0 /\ UnderWay(run[k], picked)
  BY DEF DocumentDone, RunsRows, Located
<1>3. i \in Row /\ i.doc = run[k].list[run[k].at]
  <2>1. run[k].list[run[k].at] \in 1..NumFiles
    BY <1>2, DocInSelection
  <2> QED
    BY <2>1, OutcomeIs
<1>4. UNCHANGED <<step, files, picked, reviewRun, propagationRun, placing>>
  BY <1>1 DEF Settles, placerVars
<1> DEFINE items == Append(run[k].items, i)
           next == [run[k] EXCEPT !.at = run[k].at + 1, !.items = items]
<1>5. run' = [run EXCEPT ![k] = IF Ends(k, throws) THEN NoRun ELSE next]
  BY <1>1 DEF Settles, Ends
<1>6. next.list = run[k].list /\ next.photo = run[k].photo /\ next.at = run[k].at + 1
      /\ next.items = items /\ next.aborted = run[k].aborted
  <2> DEFINE r == run[k]
             q == [r EXCEPT !.at = r.at + 1, !.items = items]
             a == r.at + 1
  <2>1. DOMAIN r = {"list", "at", "photo", "items", "aborted"} /\ q = [r EXCEPT !.at = a, !.items = items]
    BY DEF RunsOK, Fields
  <2> HIDE DEF r, items, a, q
  <2>2. q.list = r.list /\ q.photo = r.photo /\ q.at = a /\ q.items = items /\ q.aborted = r.aborted
    BY <2>1
  <2> QED
    BY <2>2 DEF r, q, a
<1> HIDE DEF next
<1>7. /\ \A j \in Runs : j # k => run'[j] = run[j]
      /\ run'[k] = IF Ends(k, throws) THEN NoRun ELSE next
  BY <1>5 DEF RunsOK
<1>8. run'[k].at > 0 => ~Ends(k, throws) /\ Advances(run[k], run'[k], i)
  <2> SUFFICES ASSUME run'[k].at > 0
               PROVE  ~Ends(k, throws) /\ Advances(run[k], run'[k], i)
    OBVIOUS
  <2>1. ~Ends(k, throws)
    BY <1>7 DEF NoRun
  <2>2. run[k].at # Len(run[k].list)
    BY <2>1 DEF Ends
  <2> QED
    BY <1>3, <1>6, <1>7, <2>1, <2>2 DEF Advances
<1>9. \A j \in Runs : Located(j)'
  <2> SUFFICES ASSUME NEW j \in Runs
               PROVE  Located(j)'
    OBVIOUS
  <2>1. CASE j # k
    BY <1>4, <1>7, <2>1 DEF RunsRows, Located
  <2>2. CASE j = k /\ Ends(k, throws)
    BY <1>7, <2>2 DEF NoRun, Located
  <2>3. CASE j = k /\ ~Ends(k, throws)
    <3>1. run'[k] = next /\ run[k].at # Len(run[k].list)
      BY <1>7, <2>3 DEF Ends
    <3>2. Advances(run[k], next, i)
      BY <1>3, <1>6, <3>1 DEF Advances
    <3>3. UnderWay(next, picked)
      BY <1>2, <1>3, <3>2, AdvancedUnderWay
    <3>4. next.at \in 0..Len(next.list)
      BY <3>3 DEF UnderWay
    <3> QED
      BY <1>4, <2>3, <3>1, <3>3, <3>4 DEF Located
  <2> QED
    BY <2>1, <2>2, <2>3
<1>10. Done(k, i, throws)
  BY <1>2, <1>3, <1>4, <1>7, <1>8, <1>9 DEF Done
<1> QED
  BY <1>1, <1>10

\* A run that was superseded writes nothing.
LEMMA SupersededKeepsRows ==
  ASSUME RowsOK, NEW k \in Runs, NEW i, NEW throws \in BOOLEAN, Settles(k, i, throws), Done(k, i, throws),
         ~Current(k)
  PROVE  RowsOK' /\ Settled
<1>1. /\ preflight' = preflight /\ written' = written /\ propagating' = propagating
      /\ (running => running') /\ (reviewError => reviewError')
  BY DEF Settles, Arrived
<1>2. /\ UNCHANGED <<step, files, picked, reviewRun, propagationRun, placing>>
      /\ \A j \in Runs : Located(j)' /\ (Current(j)' <=> Current(j)) /\ (j # k => run'[j] = run[j])
  BY DEF Done, Current
<1>3. SelectionOK' /\ PlacingOK' /\ AllReviewed' /\ Settled
  BY <1>1, <1>2 DEF RowsOK, SelectionOK, PlacingOK, AllReviewed, Settled
<1>4. RunsRows'
  <2> SUFFICES ASSUME NEW j \in Runs
               PROVE  ReviewOK(j)' /\ PropagationOK(j)'
    BY <1>2 DEF RunsRows
  <2>0. ReviewOK(j) /\ PropagationOK(j)
    BY DEF RowsOK, RunsRows
  <2>1. CASE j = k
    BY <1>2, <2>1 DEF ReviewOK, ReviewNow, PropagationOK, PropagationNow
  <2>2. CASE j # k
    BY <1>1, <1>2, <2>0, <2>2 DEF ReviewOK, ReviewNow, PropagationOK, PropagationNow
  <2> QED
    BY <2>1, <2>2
<1> QED
  BY <1>3, <1>4 DEF RowsOK

-----------------------------------------------------------------------------
(* A review that is current answers.                                       *)

\* The rows on screen afterwards: those that landed, or those of the selection.
Landed(w, v, f) ==
  /\ Listing(w) /\ ToSet(w) \subseteq ToSet(v)
  /\ \A j \in ToSet(v) : j.doc \in ToSet(f) => j \in ToSet(w)

LEMMA ReviewAnswers ==
  ASSUME RowsOK, NEW k \in Runs, NEW i, NEW throws \in BOOLEAN, Settles(k, i, throws), Done(k, i, throws),
         Current(k), k[1] = "review"
  PROVE  \E v, t : /\ Lands(preflight, v, i, files) /\ Gathers(run[k], t, i)
                   /\ Covered(run[k], t, v, files, written)
                   /\ preflight' = IF Ends(k, throws) /\ ~throws THEN Ordered(v, files) ELSE v
<1> DEFINE r == run[k]
           t == Append(r.items, i)
           v == Arrived(k, i)
<1>0. /\ SelectionOK /\ Listing(preflight) /\ files \in Seq(Nat) /\ UnderWay(r, picked) /\ i \in Row
      /\ i.doc = r.list[r.at] /\ ReviewRows(r, preflight, files, written)
  BY DEF RowsOK, SelectionOK, Done, RunsRows, ReviewOK, ReviewNow
<1>1. v = IF i.doc \in ToSet(files) THEN Append(preflight, i) ELSE preflight
  <2>1. Contains(files, i.doc) <=> i.doc \in ToSet(files)
    <3>1. DOMAIN files = 1..Len(files)
      BY <1>0
    <3> QED
      BY <3>1 DEF Contains, ToSet
  <2> QED
    BY <2>1 DEF Arrived
<1>2. /\ Settles(k, i, throws)
      /\ preflight' = IF ~Ends(k, throws) \/ throws THEN v ELSE Rebuild(v, r.photo, t)
  BY DEF Settles, Ends
<1> HIDE DEF v, t, r
<1>3. i.doc \notin DocsIn(preflight)
  <2>1. r.at \in r.at..Len(r.list)
    BY <1>0 DEF UnderWay
  <2> QED
    BY <1>0, <2>1 DEF ReviewRows
<1>4. Lands(preflight, v, i, files)
  BY <1>0, <1>1, <1>3, ReviewLands
<1>5. Gathers(r, t, i)
  BY <1>0, OneGathered DEF t
<1>6. Covered(r, t, v, files, written)
  BY <1>0, <1>4, <1>5, LandedCovered
<1>7. Rebuild(v, r.photo, t) = Ordered(v, files)
  <2>1. Listing(v) /\ Listing(r.photo) /\ Listing(t)
    BY <1>0, <1>4, <1>5 DEF Lands, UnderWay, Gathers, Listing
  <2> QED
    BY <1>6, <2>1, RebuildIs
<1>8. preflight' = IF Ends(k, throws) /\ ~throws THEN Ordered(v, files) ELSE v
  BY <1>2, <1>7
<1> QED
  BY <1>4, <1>5, <1>6, <1>8 DEF r

LEMMA ReviewKeepsRows ==
  ASSUME SignerIInv, RowsOK, NEW k \in Runs, NEW i, NEW throws \in BOOLEAN, Settles(k, i, throws),
         Done(k, i, throws), Current(k), k[1] = "review"
  PROVE  RowsOK' /\ Settled
<1>0. /\ SelectionOK /\ RunsRows /\ PlacingOK /\ Listing(preflight) /\ files \in Seq(Nat) /\ IsInjective(files)
      /\ ReviewIsAnnounced
  BY DEF RowsOK, SelectionOK, SignerIInv
<1>1. /\ i \in Row /\ i.doc = run[k].list[run[k].at] /\ UnderWay(run[k], picked) /\ run[k].at > 0
      /\ UNCHANGED <<step, files, picked, reviewRun, propagationRun, placing>>
      /\ run'[k].at > 0 => ~Ends(k, throws) /\ Advances(run[k], run'[k], i)
      /\ \A j \in Runs : Located(j)' /\ (Current(j)' <=> Current(j)) /\ (j # k => run'[j] = run[j])
  BY DEF Done, Current
<1>2. ReviewRows(run[k], preflight, files, written) /\ (step = 2 => ReviewCovers(run[k], files)) /\ running
  BY <1>0, <1>1 DEF RunsRows, ReviewOK, ReviewNow, ReviewIsAnnounced, Current
<1>3. /\ written' = written /\ propagating' = propagating
      /\ running' = (running /\ ~Ends(k, throws)) /\ (throws => reviewError')
  BY DEF Settles, Ends
<1>4. PICK v, t : /\ Lands(preflight, v, i, files) /\ Gathers(run[k], t, i)
                  /\ Covered(run[k], t, v, files, written)
                  /\ preflight' = IF Ends(k, throws) /\ ~throws THEN Ordered(v, files) ELSE v
  BY ReviewAnswers
<1>5. Listing(v) /\ OrderedWell(Ordered(v, files), v, files)
  BY <1>0, <1>4, OrderedIs DEF Lands
<1>6. Landed(preflight', v, files)
  BY <1>4, <1>5 DEF Landed, OrderedWell
<1>7. \A j \in ToSet(preflight') : \/ j \in ToSet(preflight)
                                   \/ j.doc = i.doc /\ i.doc \in ToSet(files) /\ i.doc \notin DocsIn(preflight)
  BY <1>4, <1>6 DEF Landed, Lands
<1>8. \A j \in ToSet(preflight) : j.doc \in ToSet(files) => j \in ToSet(preflight')
  BY <1>4, <1>6 DEF Landed, Lands
<1>9. SelectionOK'
  <2>1. Listing(preflight')
    BY <1>6 DEF Landed
  <2>2. DocsIn(preflight') = {j.doc : j \in ToSet(preflight')} /\ DocsIn(preflight) = {j.doc : j \in ToSet(preflight)}
    BY DocsAre
  <2>3. DocsIn(preflight') \subseteq DocsIn(preflight) \cup ToSet(files)
    BY <1>7, <2>2
  <2> QED
    BY <1>0, <1>1, <1>3, <2>1, <2>3 DEF SelectionOK
<1>10. ReviewOK(k)'
  <2> SUFFICES ASSUME run'[k].at > 0
               PROVE  ReviewRows(run'[k], preflight', files, written) /\ (step = 2 => ReviewCovers(run'[k], files))
    BY <1>1, <1>3 DEF ReviewOK, ReviewNow
  <2>1. ~Ends(k, throws) /\ Advances(run[k], run'[k], i) /\ preflight' = v
    BY <1>1, <1>4
  <2>2. run'[k].items = t
    <3>1. Gathers(run[k], run'[k].items, i)
      BY <1>1, <2>1, AdvancedUnderWay
    <3>2. \A m \in 1..run[k].at : t[m] = run'[k].items[m]
      BY <1>4, <3>1 DEF Gathers
    <3> DEFINE q == run'[k].items
               a == run[k].at
    <3>3. t \in Seq(Row) /\ q \in Seq(Row) /\ Len(t) = a /\ Len(q) = a
      BY <1>4, <3>1 DEF Gathers
    <3>4. \A m \in 1..a : t[m] = q[m]
      BY <3>2
    <3> HIDE DEF q, a
    <3>5. t = q
      BY <3>3, <3>4
    <3> QED
      BY <3>5 DEF q
  <2>3. Covered(run[k], run'[k].items, v, files, written)
    BY <1>4, <2>2
  <2> QED
    BY <1>1, <1>2, <2>1, <2>3, AdvancedReview
<1>11. ASSUME NEW j \in Runs, j # k
       PROVE  ReviewOK(j)' /\ PropagationOK(j)'
  <2>1. ~(j[1] = "review" /\ Current(j))
    BY <1>11 DEF Current, Runs
  <2>2. ReviewOK(j)'
    BY <1>1, <2>1 DEF ReviewOK, ReviewNow
  <2>3. PropagationOK(j)'
    <3> SUFFICES ASSUME PropagationNow(j)
                 PROVE  /\ PropagationRows(run[j], preflight', files)
                        /\ step = 2 => propagating = ToSet(run[j].list)
      BY <1>1, <1>3, <1>11 DEF PropagationOK, PropagationNow
    <3>1. PropagationRows(run[j], preflight, files) /\ (step = 2 => propagating = ToSet(run[j].list))
      BY <1>0 DEF RunsRows, PropagationOK
    <3>2. \A x \in ToSet(preflight'), m \in DOMAIN run[j].list :
            x.doc = run[j].list[m] => x \in ToSet(preflight)
      <4> SUFFICES ASSUME NEW m \in DOMAIN run[j].list, run[j].list[m] = i.doc, i.doc \in ToSet(files),
                          i.doc \notin DocsIn(preflight)
                   PROVE  FALSE
        BY <1>7
      <4>1. i.doc \in ToSet(run[j].list)
        BY DEF ToSet
      <4> QED
        BY <3>1, <4>1 DEF PropagationRows
    <3>3. ToSet(files) \cap ToSet(run[j].list) \subseteq DocsIn(preflight')
      <4>1. DocsIn(preflight') = {x.doc : x \in ToSet(preflight')} /\ DocsIn(preflight) = {x.doc : x \in ToSet(preflight)}
        BY DocsAre
      <4> QED
        BY <1>8, <3>1, <4>1 DEF PropagationRows
    <3> QED
      BY <3>1, <3>2, <3>3 DEF PropagationRows
  <2> QED
    BY <2>2, <2>3
<1>12. RunsRows'
  <2> SUFFICES ASSUME NEW j \in Runs
               PROVE  ReviewOK(j)' /\ PropagationOK(j)'
    BY <1>1 DEF RunsRows
  <2>1. PropagationOK(k)'
    BY DEF PropagationOK, PropagationNow
  <2> QED
    BY <1>10, <1>11, <2>1
<1>13. PlacingOK'
  <2> SUFFICES ASSUME placing # NoItem
               PROVE  placing \in ToSet(preflight')
    BY <1>0, <1>1, <1>3 DEF PlacingOK
  <2>1. placing \in ToSet(preflight) /\ step = 2
    BY <1>0 DEF PlacingOK
  <2>2. placing.doc \in DocsIn(preflight)
    BY <2>1, DocsAre
  <2> QED
    BY <1>0, <1>8, <2>1, <2>2 DEF SelectionOK
<1>14. AllReviewed'
  <2> SUFFICES ASSUME step = 2, ~running', ~reviewError'
               PROVE  DocsOf(preflight') = files
    BY <1>1 DEF AllReviewed
  <2>1. Ends(k, throws) /\ ~throws
    BY <1>2, <1>3
  <2>2. ReviewCovers(run[k], files)
    BY <1>2
  <2>3. run[k].at = Len(run[k].list)
    BY <2>1, <2>2 DEF Ends, ReviewCovers
  <2>4. ToSet(run[k].list) \subseteq DocsIn(t)
    <3> SUFFICES ASSUME NEW m \in DOMAIN run[k].list
                 PROVE  run[k].list[m] \in DocsIn(t)
      BY DEF ToSet
    <3>1. m \in 1..run[k].at
      BY <1>1, <2>3 DEF UnderWay
    <3> QED
      BY <1>4, <3>1 DEF Gathers, DocsIn
  <2>5. ToSet(files) \subseteq DocsIn(v)
    BY <1>4, <2>2, <2>4 DEF ReviewCovers, Covered
  <2> QED
    BY <1>4, <1>5, <2>1, <2>5 DEF OrderedWell
<1>15. Settled
  <2> SUFFICES ASSUME NEW x \in ToSet(preflight), x.status = "ready", x.doc \in ToSet(files)
               PROVE  x \in ToSet(preflight')
    BY <1>1 DEF Settled
  <2> QED
    BY <1>8
<1> QED
  BY <1>9, <1>12, <1>13, <1>14, <1>15 DEF RowsOK

-----------------------------------------------------------------------------
(* A propagation that is current answers.                                  *)

LEMMA MergeIs ==
  ASSUME NEW a \in Row, NEW b \in Row, a.doc = b.doc
  PROVE  MergePropagation(a, b) \in Row /\ MergePropagation(a, b).doc = a.doc
  BY DEF MergePropagation

\* The rows once the result of the document d is merged.
Merged(w, s, d, u) ==
  /\ Listing(w) /\ DocsOf(w) = DocsOf(s) /\ DocsIn(w) = DocsIn(s) /\ u.doc = d
  /\ \A j \in ToSet(w) : (j = u /\ d \in DocsIn(s)) \/ (j \in ToSet(s) /\ j.doc # d)
  /\ \A j \in ToSet(s) : j.doc # d => j \in ToSet(w)

LEMMA MergedIs ==
  ASSUME NEW s, Listing(s), NEW d, NEW u \in Row, u.doc = d,
         NEW w, w = [n \in DOMAIN s |-> IF s[n].doc = d THEN u ELSE s[n]]
  PROVE  Merged(w, s, d, u)
<1>0. s \in Seq(Row) /\ DOMAIN w = DOMAIN s /\ w = [n \in DOMAIN s |-> w[n]]
  BY DEF Listing
<1>1. \A n \in DOMAIN s : w[n] \in Row /\ w[n].doc = s[n].doc
  BY <1>0
<1>2. Listing(w) /\ DocsOf(w) = DocsOf(s) /\ DocsIn(w) = DocsIn(s)
  BY <1>0, <1>1, RowsRewritten DEF Rewritten
<1>3. \A j \in ToSet(w) : (j = u /\ d \in DocsIn(s)) \/ (j \in ToSet(s) /\ j.doc # d)
  BY DEF ToSet, DocsIn
<1>4. \A j \in ToSet(s) : j.doc # d => j \in ToSet(w)
  <2> SUFFICES ASSUME NEW n \in DOMAIN s, s[n].doc # d
               PROVE  s[n] \in ToSet(w)
    BY DEF ToSet
  <2>1. w[n] = s[n] /\ n \in DOMAIN w
    OBVIOUS
  <2> QED
    BY <2>1 DEF ToSet
<1> QED
  BY <1>2, <1>3, <1>4 DEF Merged

\* Each row the propagation is about, once the item is in.
Agree(v, r, t) ==
  \A j \in ToSet(v), m \in DOMAIN r.list :
    j.doc = r.list[m] => j = IF m < r.at + 1 THEN MergePropagation(r.photo[m], t[m]) ELSE r.photo[m]

LEMMA PropagationAgrees ==
  ASSUME NEW r, NEW p, UnderWay(r, p), NEW s, NEW f, PropagationRows(r, s, f), NEW i \in Row,
         i.doc = r.list[r.at], NEW v, Merged(v, s, i.doc, MergePropagation(r.photo[r.at], i)),
         NEW t, Gathers(r, t, i)
  PROVE  Agree(v, r, t)
<1>0. r.at \in Nat /\ r.at \in DOMAIN r.list /\ DOMAIN r.list = 1..Len(r.list) /\ IsInjective(r.list)
  BY DEF UnderWay
<1> DEFINE u == MergePropagation(r.photo[r.at], i)
<1> SUFFICES ASSUME NEW j \in ToSet(v), NEW m \in DOMAIN r.list, j.doc = r.list[m]
             PROVE  j = IF m < r.at + 1 THEN MergePropagation(r.photo[m], t[m]) ELSE r.photo[m]
  BY DEF Agree
<1>1. (j = u /\ u.doc = i.doc) \/ (j \in ToSet(s) /\ j.doc # i.doc)
  BY DEF Merged
<1>2. CASE j = u /\ u.doc = i.doc
  <2>1. m = r.at
    BY <1>0, <1>2 DEF IsInjective
  <2>2. t[r.at] = i
    BY DEF Gathers
  <2> QED
    BY <1>0, <1>2, <2>1, <2>2
<1>3. CASE j \in ToSet(s) /\ j.doc # i.doc
  <2>1. j = After(r, m) /\ m # r.at
    BY <1>3 DEF PropagationRows
  <2>2. m \in Nat /\ (m < r.at + 1 <=> m < r.at)
    BY <1>0, <2>1
  <2>3. CASE m < r.at
    <3>1. m \in 1..r.at
      BY <1>0, <2>3
    <3>2. t[m] = r.items[m]
      BY <2>1, <3>1 DEF Gathers
    <3> QED
      BY <2>1, <2>2, <2>3, <3>2 DEF After
  <2>4. CASE ~(m < r.at)
    BY <2>1, <2>2, <2>4 DEF After
  <2> QED
    BY <2>3, <2>4
<1> QED
  BY <1>1, <1>2, <1>3

\* The row the run began with.
LEMMA PhotoAt ==
  ASSUME NEW r, NEW p, UnderWay(r, p), r.list = DocsOf(r.photo), NEW m \in DOMAIN r.list
  PROVE  /\ Latest(r.photo, r.list[m]) = r.photo[m] /\ r.photo[m] \in Row
         /\ r.photo[m] \in ToSet(r.photo) /\ r.photo[m].doc = r.list[m]
<1>1. r.photo \in Seq(Row) /\ IsInjective(DocsOf(r.photo)) /\ m \in DOMAIN r.photo
  BY DEF UnderWay, Listing, DocsOf
<1>2. r.photo[m].doc = r.list[m]
  BY <1>1 DEF DocsOf
<1>3. Latest(r.photo, r.list[m]) = r.photo[m]
  <2> DEFINE s == r.photo
             d == r.list[m]
  <2>1. s \in Seq(Row) /\ IsInjective(DocsOf(s)) /\ m \in DOMAIN s /\ s[m].doc = d
    BY <1>1, <1>2
  <2> HIDE DEF s, d
  <2>2. Latest(s, d) = s[m]
    BY <2>1, LatestOfOne
  <2> QED
    BY <2>2 DEF s, d
<1> QED
  BY <1>1, <1>2, <1>3 DEF ToSet

\* At the end of a propagation its results are on screen already.
LEMMA RemergeIs ==
  ASSUME NEW r, NEW p, UnderWay(r, p), r.list = DocsOf(r.photo), NEW i, NEW t, Gathers(r, t, i),
         NEW v, Listing(v), Agree(v, r, t)
  PROVE  Remerge(v, r.photo, t) = v
<1>1. ASSUME NEW n \in DOMAIN v, Has(t, v[n].doc)
      PROVE  MergePropagation(Latest(r.photo, v[n].doc), Latest(t, v[n].doc)) = v[n]
  <2> DEFINE d == v[n].doc
  <2>1. PICK m \in DOMAIN t : t[m].doc = d
    BY <1>1 DEF Has
  <2>2. m \in 1..r.at /\ m \in DOMAIN r.list /\ r.list[m] = d /\ t \in Seq(Row) /\ IsInjective(DocsOf(t))
    BY <2>1 DEF Gathers
  <2>3. Latest(t, d) = t[m]
    <3> HIDE DEF d
    <3> QED
      BY <2>1, <2>2, LatestOfOne
  <2>4. Latest(r.photo, d) = r.photo[m]
    BY <2>2, PhotoAt
  <2>5. v[n] \in ToSet(v) /\ m < r.at + 1
    BY <2>2 DEF ToSet, UnderWay
  <2>6. v[n] = MergePropagation(r.photo[m], t[m])
    BY <2>2, <2>5 DEF Agree
  <2> QED
    BY <2>3, <2>4, <2>6
<1>2. v = [n \in DOMAIN v |-> v[n]]
  BY DEF Listing
<1>3. \A n \in DOMAIN v :
        (IF Has(t, v[n].doc) THEN MergePropagation(Latest(r.photo, v[n].doc), Latest(t, v[n].doc)) ELSE v[n]) = v[n]
  BY <1>1
<1> QED
  BY <1>2, <1>3 DEF Remerge

LEMMA PropagationAnswers ==
  ASSUME RowsOK, NEW k \in Runs, NEW i, NEW throws \in BOOLEAN, Settles(k, i, throws), Done(k, i, throws),
         Current(k), k[1] = "propagation"
  PROVE  \E u, t : /\ Merged(preflight', preflight, i.doc, u) /\ Gathers(run[k], t, i)
                   /\ Agree(preflight', run[k], t) /\ t = Append(run[k].items, i)
<1> DEFINE r == run[k]
           t == Append(r.items, i)
           v == Arrived(k, i)
           u == MergePropagation(r.photo[r.at], i)
<1>0. /\ Listing(preflight) /\ UnderWay(r, picked) /\ i \in Row /\ i.doc = r.list[r.at]
      /\ PropagationRows(r, preflight, files) /\ r.at \in DOMAIN r.list
  BY DEF RowsOK, SelectionOK, Done, RunsRows, PropagationOK, PropagationNow, UnderWay
<1>1. /\ Latest(r.photo, i.doc) = r.photo[r.at] /\ r.photo[r.at] \in Row /\ r.photo[r.at].doc = i.doc
      /\ r.list = DocsOf(r.photo)
  <2>1. r.list = DocsOf(r.photo)
    BY <1>0 DEF PropagationRows
  <2> HIDE DEF r
  <2> QED
    BY <1>0, <2>1, PhotoAt
<1>2. v = [n \in DOMAIN preflight |-> IF preflight[n].doc = i.doc THEN u ELSE preflight[n]]
  BY <1>1 DEF Arrived
<1>3. preflight' = IF ~Ends(k, throws) \/ throws THEN v ELSE Remerge(v, r.photo, t)
  BY DEF Settles, Ends
<1>4. u \in Row /\ u.doc = i.doc
  BY <1>0, <1>1, MergeIs
<1> HIDE DEF v, t, r
<1>5. Merged(v, preflight, i.doc, u)
  <2> HIDE DEF u
  <2> QED
    BY <1>0, <1>2, <1>4, MergedIs
<1>6. Gathers(r, t, i)
  BY <1>0, OneGathered DEF t
<1>7. Agree(v, r, t)
  BY <1>0, <1>5, <1>6, PropagationAgrees
<1>8. Listing(v)
  BY <1>5 DEF Merged
<1>9. Remerge(v, r.photo, t) = v
  BY <1>0, <1>1, <1>6, <1>7, <1>8, RemergeIs
<1>10. preflight' = v
  BY <1>3, <1>9
<1> HIDE DEF u
<1> QED
  BY <1>5, <1>6, <1>7, <1>10 DEF r, t

LEMMA PropagationKeepsRows ==
  ASSUME SignerIInv, RowsOK, NEW k \in Runs, NEW i, NEW throws \in BOOLEAN, Settles(k, i, throws),
         Done(k, i, throws), Current(k), k[1] = "propagation"
  PROVE  RowsOK' /\ Settled
<1>0. /\ SelectionOK /\ RunsRows /\ PlacingOK /\ AllReviewed /\ ReviewIsAnnounced
  BY DEF RowsOK, SignerIInv
<1>1. /\ i \in Row /\ i.doc = run[k].list[run[k].at] /\ UnderWay(run[k], picked) /\ run[k].at > 0
      /\ UNCHANGED <<step, files, picked, reviewRun, propagationRun, placing>>
      /\ run'[k].at > 0 => ~Ends(k, throws) /\ Advances(run[k], run'[k], i)
      /\ \A j \in Runs : Located(j)' /\ (Current(j)' <=> Current(j)) /\ (j # k => run'[j] = run[j])
      /\ run[k].at \in DOMAIN run[k].list
  BY DEF Done, Current, UnderWay
<1>2. PropagationRows(run[k], preflight, files) /\ (step = 2 => propagating = ToSet(run[k].list))
  BY <1>0, <1>1 DEF RunsRows, PropagationOK, PropagationNow
<1>3. /\ written' = IF Has(preflight, i.doc) THEN Written(i.doc) ELSE written
      /\ propagating' = IF Ends(k, throws) THEN {} ELSE propagating
      /\ running' = running /\ reviewError' = reviewError
  BY DEF Settles, Ends
<1>4. PICK u, t : /\ Merged(preflight', preflight, i.doc, u) /\ Gathers(run[k], t, i)
                  /\ Agree(preflight', run[k], t) /\ t = Append(run[k].items, i)
  BY PropagationAnswers
<1>5. /\ Listing(preflight') /\ DocsOf(preflight') = DocsOf(preflight) /\ DocsIn(preflight') = DocsIn(preflight)
      /\ \A j \in ToSet(preflight') : (j.doc = i.doc /\ i.doc \in DocsIn(preflight)) \/ j \in ToSet(preflight)
      /\ \A j \in ToSet(preflight) : j.doc # i.doc => j \in ToSet(preflight')
  BY <1>4 DEF Merged
<1>6. Has(preflight, i.doc) <=> i.doc \in DocsIn(preflight)
  BY DEF Has, DocsIn
<1>7. i.doc \in ToSet(run[k].list)
  BY <1>1 DEF ToSet
<1>8. SelectionOK'
  <2>1. i.doc \in 1..NumFiles
    BY <1>0, <1>1, DocInSelection
  <2>2. written' \subseteq 1..NumFiles
    BY <1>0, <1>3, <2>1 DEF SelectionOK, Written
  <2>3. propagating' \subseteq 1..NumFiles
    BY <1>0, <1>3 DEF SelectionOK
  <2> QED
    BY <1>0, <1>1, <1>5, <2>2, <2>3 DEF SelectionOK
<1>9. PropagationOK(k)'
  <2> SUFFICES ASSUME run'[k].at > 0
               PROVE  /\ PropagationRows(run'[k], preflight', files)
                      /\ step = 2 => propagating' = ToSet(run'[k].list)
    BY <1>1 DEF PropagationOK, PropagationNow
  <2>1. /\ ~Ends(k, throws) /\ run'[k].list = run[k].list /\ run'[k].photo = run[k].photo
        /\ run'[k].at = run[k].at + 1 /\ run'[k].items = t
    BY <1>1, <1>4 DEF Advances
  <2>2. \A j \in ToSet(preflight'), m \in DOMAIN run'[k].list :
          j.doc = run'[k].list[m] => j = After(run'[k], m)
    <3> TAKE j \in ToSet(preflight'), m \in DOMAIN run'[k].list
    <3> HAVE j.doc = run'[k].list[m]
    <3>1. m \in DOMAIN run[k].list /\ j.doc = run[k].list[m]
      BY <2>1
    <3>2. j = IF m < run[k].at + 1 THEN MergePropagation(run[k].photo[m], t[m]) ELSE run[k].photo[m]
      BY <1>4, <3>1 DEF Agree
    <3> QED
      BY <2>1, <3>2 DEF After
  <2>3. PropagationRows(run'[k], preflight', files)
    BY <1>2, <1>5, <2>1, <2>2 DEF PropagationRows
  <2> QED
    BY <1>2, <1>3, <2>1, <2>3
<1>10. ASSUME NEW j \in Runs, j # k
       PROVE  ReviewOK(j)' /\ PropagationOK(j)'
  <2>1. ~(j[1] = "propagation" /\ Current(j))
    BY <1>10 DEF Current, Runs
  <2>2. PropagationOK(j)'
    BY <1>1, <2>1 DEF PropagationOK, PropagationNow
  <2>3. ReviewOK(j)'
    <3> SUFFICES ASSUME ReviewNow(j)
                 PROVE  /\ ReviewRows(run[j], preflight', files, written')
                        /\ step = 2 => ReviewCovers(run[j], files)
      BY <1>1, <1>10 DEF ReviewOK, ReviewNow
    <3>1. ReviewRows(run[j], preflight, files, written) /\ (step = 2 => ReviewCovers(run[j], files))
      BY <1>0 DEF RunsRows, ReviewOK
    <3>2. running
      BY <1>0 DEF ReviewIsAnnounced, ReviewNow, Current
    <3>3. written \subseteq written' /\ (i.doc \in DocsIn(preflight) => i.doc \in written')
      BY <1>3, <1>6, <3>2 DEF Written
    <3>4. \A x \in ToSet(preflight') : x.doc \in written' \/ x \in ToSet(run[j].photo) \cup ToSet(run[j].items)
      BY <1>5, <3>1, <3>3 DEF ReviewRows
    <3>5. ReviewRows(run[j], preflight', files, written')
      BY <1>5, <3>1, <3>4 DEF ReviewRows
    <3> QED
      BY <3>1, <3>5
  <2> QED
    BY <2>2, <2>3
<1>11. RunsRows'
  <2> SUFFICES ASSUME NEW j \in Runs
               PROVE  ReviewOK(j)' /\ PropagationOK(j)'
    BY <1>1 DEF RunsRows
  <2>1. ReviewOK(k)'
    BY DEF ReviewOK, ReviewNow
  <2> QED
    BY <1>9, <1>10, <2>1
<1>12. PlacingOK'
  <2> SUFFICES ASSUME placing # NoItem
               PROVE  placing \in ToSet(preflight') /\ placing.doc \notin propagating'
    BY <1>0, <1>1 DEF PlacingOK
  <2>1. placing \in ToSet(preflight) /\ step = 2 /\ placing.doc \notin propagating
    BY <1>0 DEF PlacingOK
  <2>2. placing.doc # i.doc
    BY <1>2, <1>7, <2>1
  <2> QED
    BY <1>3, <1>5, <2>1, <2>2
<1>13. AllReviewed'
  BY <1>0, <1>1, <1>3, <1>5 DEF AllReviewed
<1>14. Settled
  <2> SUFFICES ASSUME NEW x \in ToSet(preflight), x.status = "ready"
               PROVE  x \in ToSet(preflight')
    BY DEF Settled
  <2>1. x.doc # i.doc
    <3> SUFFICES ASSUME x.doc = i.doc
                 PROVE  FALSE
      OBVIOUS
    <3>1. x = After(run[k], run[k].at)
      BY <1>1, <1>2 DEF PropagationRows
    <3>2. x = run[k].photo[run[k].at]
      BY <1>1, <3>1 DEF After, UnderWay
    <3>3. x.status = "needs_review"
      <4>1. run[k].list = DocsOf(run[k].photo)
        BY <1>2 DEF PropagationRows
      <4>2. x \in ToSet(run[k].photo)
        BY <1>1, <3>2, <4>1, PhotoAt
      <4> QED
        BY <1>2, <4>2 DEF PropagationRows
    <3> QED
      BY <3>3
  <2> QED
    BY <1>5, <2>1
<1> QED
  BY <1>8, <1>11, <1>12, <1>13, <1>14 DEF RowsOK

-----------------------------------------------------------------------------
(* The theorems.                                                           *)

LEMMA ReviewStarts == ReviewInit => RowsIInv
<1> SUFFICES ASSUME ReviewInit
             PROVE  RowsIInv
  OBVIOUS
<1>1. SignerIInv
  BY ReviewInitIInv
<1>2. FlagsOK
  <2>1. MaxReviews \in Nat /\ MaxPropagations \in Nat
    BY ReviewAssumption
  <2>2. reviewRun = 0 /\ propagationRun = 0
    BY DEF ReviewInit
  <2>3. /\ running = FALSE /\ reviewError = FALSE /\ propagationError = FALSE
        /\ p12 = FALSE /\ pin = FALSE /\ signing = FALSE
    BY DEF ReviewInit
  <2>4. reviewRun \in 0..MaxReviews /\ propagationRun \in 0..MaxPropagations
    BY <2>1, <2>2
  <2>5. {running, reviewError, propagationError, p12, pin, signing} \subseteq BOOLEAN
    BY <2>3
  <2> QED
    BY <2>4, <2>5 DEF FlagsOK
<1>3. SelectionOK
  <2>1. /\ files = <<>> /\ preflight = <<>> /\ picked = 0 /\ written = {} /\ propagating = {} /\ step = 1
        /\ NumFiles \in Nat
    BY ReviewAssumption DEF ReviewInit
  <2>2. files \in Seq(Nat) /\ preflight \in Seq(Row) /\ DOMAIN files = {} /\ DOMAIN preflight = {}
    BY <2>1
  <2>3. IsInjective(files) /\ Listing(preflight) /\ ToSet(files) = {} /\ DocsIn(preflight) = {}
    BY <2>2 DEF IsInjective, Listing, DocsOf, ToSet, DocsIn
  <2> QED
    BY <2>1, <2>2, <2>3 DEF SelectionOK
<1>4. RunsRows
  <2> SUFFICES ASSUME NEW k \in Runs
               PROVE  Located(k) /\ ReviewOK(k) /\ PropagationOK(k)
    BY DEF RunsRows
  <2>1. run[k] = NoRun
    BY DEF ReviewInit
  <2>2. run[k].at = 0 /\ run[k].list = <<>>
    BY <2>1 DEF NoRun
  <2> QED
    BY <2>2 DEF Located, ReviewOK, ReviewNow, PropagationOK, PropagationNow
<1>5. PlacingOK /\ AllReviewed
  BY DEF ReviewInit, PlacingOK, AllReviewed
<1> QED
  BY <1>1, <1>2, <1>3, <1>4, <1>5 DEF RowsIInv, RowsOK

LEMMA RowsStep ==
  ASSUME SignerIInv, RowsOK, [ReviewNext]_reviewVars
  PROVE  RowsOK' /\ Settled
<1>1. CASE Selection
  BY <1>1, SelectionKeeps
<1>2. CASE GoToReview
  BY <1>2, GoingKeepsRows
<1>3. CASE Back
  BY <1>3, BackKeepsRows
<1>4. CASE Aside
  BY <1>4, AsideKeeps
<1>5. CASE \E n \in DOMAIN preflight : RemoveFromReview(n)
  BY <1>5, RemovingKeeps
<1>6. CASE CommitPlacement
  BY <1>6, CommittingKeepsRows
<1>7. CASE Restart
  BY <1>7, RestartKeepsRows
<1>8. CASE \E k \in Runs : DocumentDone(k)
  <2>1. PICK k \in Runs : DocumentDone(k)
    BY <1>8
  <2>2. RunsOK /\ SelectionOK /\ RunsRows
    BY DEF SignerIInv, RowsOK
  <2>3. PICK i, throws : throws \in BOOLEAN /\ Settles(k, i, throws) /\ Done(k, i, throws)
    BY <2>1, <2>2, DoneIs
  <2>4. k[1] = "review" \/ k[1] = "propagation"
    BY RunShape
  <2>5. CASE ~Current(k)
    BY <2>3, <2>5, SupersededKeepsRows
  <2>6. CASE Current(k) /\ k[1] = "review"
    BY <2>3, <2>6, ReviewKeepsRows
  <2>7. CASE Current(k) /\ k[1] = "propagation"
    BY <2>3, <2>7, PropagationKeepsRows
  <2> QED
    BY <2>4, <2>5, <2>6, <2>7
<1> QED
  BY <1>1, <1>2, <1>3, <1>4, <1>5, <1>6, <1>7, <1>8 DEF ReviewNext, Placement, Signing, Aside

LEMMA FlagsStep ==
  ASSUME FlagsOK, [ReviewNext]_reviewVars
  PROVE  FlagsOK'
<1> DEFINE Switches == /\ running \in BOOLEAN /\ reviewError \in BOOLEAN /\ propagationError \in BOOLEAN
                    /\ p12 \in BOOLEAN /\ pin \in BOOLEAN /\ signing \in BOOLEAN
           Counters == reviewRun \in 0..MaxReviews /\ propagationRun \in 0..MaxPropagations
<1>0. FlagsOK <=> Switches /\ Counters
  BY DEF FlagsOK
<1>1. FlagsOK' <=> Switches' /\ Counters'
  BY DEF FlagsOK
<1>2. MaxReviews \in Nat /\ MaxPropagations \in Nat
  BY ReviewAssumption
<1>3. CASE Selection \/ Continue \/ Back \/ PlacerReady \/ Warn \/ MoveBox \/ ClosePlacer
           \/ (\E n \in DOMAIN preflight : OpenPlacer(n) \/ RemoveFromReview(n)) \/ UNCHANGED reviewVars
  <2>1. UNCHANGED <<running, reviewError, propagationError, p12, pin, signing, reviewRun, propagationRun>>
    BY <1>3 DEF Selection, AddFile, RemoveFile, ClearFiles, Continue, Back, PlacerReady, Warn,
          MoveBox,
      ClosePlacer, OpenPlacer, RemoveFromReview, reviewVars, runVars, statusVars, signVars
  <2> QED
    BY <1>0, <1>1, <2>1
<1>4. CASE GoToReview
  <2>1. Counters'
    BY <1>0, <1>2, <1>4 DEF GoToReview, Supersede
  <2>2. Switches'
    BY <1>0, <1>4 DEF GoToReview, signVars
  <2> QED
    BY <1>1, <2>1, <2>2
<1>5. CASE CommitPlacement
  <2>1. Counters'
    <3>1. UNCHANGED reviewRun
      BY <1>5 DEF CommitPlacement
    <3>2. \/ UNCHANGED propagationRun
          \/ propagationRun + 1 <= MaxPropagations /\ propagationRun' = propagationRun + 1
      BY <1>5 DEF CommitPlacement
    <3>3. /\ reviewRun \in 0..MaxReviews /\ propagationRun \in Nat /\ propagationRun <= MaxPropagations
      BY <1>0, <1>2
    <3>4. propagationRun' \in Nat /\ propagationRun' <= MaxPropagations
      BY <3>2, <3>3
    <3>5. propagationRun' \in 0..MaxPropagations
      BY <1>2, <3>4
    <3> QED
      BY <3>1, <3>3, <3>5
  <2>2. Switches'
    <3>1. UNCHANGED <<running, reviewError, p12, pin, signing>>
      BY <1>5 DEF CommitPlacement, signVars
    <3>2. PICK opens \in BOOLEAN : propagationError' = FALSE \/ propagationError' = ~opens
      BY <1>5 DEF CommitPlacement
    <3> QED
      BY <1>0, <3>1, <3>2
  <2> QED
    BY <1>1, <2>1, <2>2
<1>6. CASE PickP12 \/ TypePin \/ StartSigning \/ SigningEnds \/ Download
  <2>1. Counters'
    BY <1>0, <1>6 DEF PickP12, TypePin, StartSigning, SigningEnds, Download, runVars
  <2>2. Switches'
    BY <1>0, <1>6 DEF PickP12, TypePin, StartSigning, SigningEnds, Download, statusVars
  <2> QED
    BY <1>1, <2>1, <2>2
<1>7. CASE Restart
  <2>1. Counters'
    BY <1>0, <1>2, <1>7 DEF Restart, Supersede
  <2>2. Switches'
    BY <1>0, <1>7 DEF Restart
  <2> QED
    BY <1>1, <2>1, <2>2
<1>8. CASE \E k \in Runs : DocumentDone(k)
  <2>1. Counters'
    BY <1>0, <1>8 DEF DocumentDone, Settles
  <2>2. Switches'
    <3>0. PICK k \in Runs : DocumentDone(k)
      BY <1>8
    <3>1. PICK item \in Outcomes(k[1], run[k].list[run[k].at]), throws \in BOOLEAN : Settles(k, item, throws)
      BY <3>0 DEF DocumentDone
    <3>2. UNCHANGED <<p12, pin, signing>>
      BY <3>1 DEF Settles, signVars
    <3>3. running' \in BOOLEAN
      <4>1. CASE k[1] = "review"
        BY <1>0, <3>1, <4>1, Zenon DEF Settles
      <4>2. CASE k[1] # "review"
        BY <1>0, <3>1, <4>2, Zenon DEF Settles
      <4> QED
        BY <4>1, <4>2
    <3>4. reviewError' \in BOOLEAN
      <4>1. CASE k[1] = "review"
        BY <1>0, <3>1, <4>1, Zenon DEF Settles
      <4>2. CASE k[1] # "review"
        BY <1>0, <3>1, <4>2, Zenon DEF Settles
      <4> QED
        BY <4>1, <4>2
    <3>5. propagationError' \in BOOLEAN
      <4>1. CASE k[1] = "review"
        BY <1>0, <3>1, <4>1, Zenon DEF Settles
      <4>2. CASE k[1] # "review"
        BY <1>0, <3>1, <4>2, Zenon DEF Settles
      <4> QED
        BY <4>1, <4>2
    <3> QED
      BY <1>0, <3>2, <3>3, <3>4, <3>5
  <2> QED
    BY <1>1, <2>1, <2>2
<1> QED
  BY <1>3, <1>4, <1>5, <1>6, <1>7, <1>8 DEF ReviewNext, Placement, Signing

LEMMA RowsIInvStep == RowsIInv /\ [ReviewNext]_reviewVars => RowsIInv'
  BY ReviewStep, RowsStep, FlagsStep DEF RowsIInv

LEMMA RowsIInvImplies == RowsIInv => ReviewInv
<1> SUFFICES ASSUME RowsIInv
             PROVE  ReviewInv
  OBVIOUS
<1>1. ReviewTypeOK
  <2>1. step \in 1..4
    BY DEF RowsIInv, SignerIInv, StepsOK
  <2>2. \A k \in Runs : run[k].at \in 0..Len(run[k].list)
    BY DEF RowsIInv, RowsOK, RunsRows, Located
  <2> QED
    BY <2>1, <2>2 DEF RowsIInv, RowsOK, SelectionOK, FlagsOK, ReviewTypeOK
<1>2. OneRowPerDocument
  BY DEF RowsIInv, RowsOK, SelectionOK, Listing, OneRowPerDocument
<1>3. AllReviewed /\ SecretsAreDropped
  BY DEF RowsIInv, RowsOK, SignerIInv
<1> QED
  BY <1>1, <1>2, <1>3 DEF ReviewInv

\* FirmarLote.svelte: no document is listed twice, and a review that ended well shows
\* every document picked, in their order, whatever reviews and propagations were left
\* in flight and whatever the person did meanwhile.
THEOREM ReviewInvariance == ReviewSpec => []ReviewInv
<1> QED
  BY ReviewStarts, RowsIInvStep, RowsIInvImplies, PTL DEF ReviewSpec

\* FirmarLote.svelte, propagation.ts: a document that was settled stays so while it is
\* in the list, and one the person placed keeps the placement: no late result undoes it.
THEOREM SettledForGood == ReviewSpec => SettledStays
<1> DEFINE Kept1 ==
      \A n \in DOMAIN preflight :
        LET i == preflight[n] IN
        (i.status = "ready" /\ step' \in {2, 3} /\ step # 4 /\ Contains(files', i.doc)) =>
          /\ Has(preflight', i.doc)
          /\ Latest(preflight', i.doc).status = "ready"
          /\ i.source = "person" => Latest(preflight', i.doc) = i
<1>1. ASSUME RowsIInv, RowsIInv', [ReviewNext]_reviewVars
      PROVE  Kept1
  <2> SUFFICES ASSUME NEW n \in DOMAIN preflight, preflight[n].status = "ready", step' \in {2, 3}, step # 4,
                      Contains(files', preflight[n].doc)
               PROVE  /\ Has(preflight', preflight[n].doc)
                      /\ Latest(preflight', preflight[n].doc).status = "ready"
                      /\ preflight[n].source = "person" => Latest(preflight', preflight[n].doc) = preflight[n]
    OBVIOUS
  <2> DEFINE i == preflight[n]
             s == preflight'
  <2>1. Settled
    BY <1>1, RowsStep DEF RowsIInv
  <2>2. s \in Seq(Row) /\ IsInjective(DocsOf(s)) /\ files' \in Seq(Nat)
    BY <1>1 DEF RowsIInv, RowsOK, SelectionOK, Listing
  <2>3. i.doc \in ToSet(files')
    <3>1. DOMAIN files' = 1..Len(files')
      BY <2>2
    <3> QED
      BY <3>1 DEF Contains, ToSet
  <2>4. i \in ToSet(preflight)
    BY DEF ToSet
  <2>5. PICK j \in ToSet(s) : j.doc = i.doc /\ j.status = "ready" /\ (i.source = "person" => j = i)
    BY <2>1, <2>3, <2>4 DEF Settled
  <2>6. PICK m \in DOMAIN s : j = s[m]
    BY DEF ToSet
  <2> DEFINE d == i.doc
  <2>7. s[m].doc = d
    BY <2>5, <2>6
  <2> HIDE DEF s, d
  <2>8. Has(s, d) /\ Latest(s, d) = s[m]
    BY <2>2, <2>6, <2>7, LatestOfOne
  <2> QED
    BY <2>5, <2>6, <2>8 DEF s, d
<1>2. RowsIInv /\ RowsIInv' /\ [ReviewNext]_reviewVars => [Kept1]_reviewVars
  BY <1>1
<1> QED
  BY ReviewStarts, RowsIInvStep, <1>2, PTL DEF ReviewSpec, SettledStays
=============================================================================
