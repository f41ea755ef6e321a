----------------------------- MODULE SignScreen -----------------------------
(***************************************************************************)
(* The single-document screen (apps/pwa/src/routes/Firmar.svelte): six     *)
(* steps, and the calls that may answer after the person has moved on -    *)
(* the file being read, the placement engine (a worker of                  *)
(* preflight-bus.ts), the preview's scan for earlier signatures, the       *)
(* certificate's worker and the signer's.                                  *)
(*                                                                         *)
(* Who places the box is a cascade: the person, the engine, a free slot    *)
(* beside the earlier signatures, the centre of the page.  Rectangles are  *)
(* reduced to who put them there, for which document, and whether the page *)
(* they are on is the one shown.                                           *)
(***************************************************************************)
EXTENDS Naturals, FiniteSets

CONSTANTS
  MaxFiles,  \* bound on the files picked, numbered as they are
  MaxAgain   \* bound on the times "sign another" is pressed

ASSUME ScreenAssumption == MaxFiles \in Nat \ {0} /\ MaxAgain \in Nat

Files == 1..MaxFiles

VARIABLES
  guided,          \* the guided mode, whose placer brings its own scan
  at, pdf, prior,  \* currentStep; the document, 0 for none, and whether it is signed
  chosen, loads,   \* files picked so far; calls of onPdfSelect in flight
  box,             \* boxPos: who placed it, for which document
  hidden,          \* the preview shows another page than the box's
  autoDefault,     \* autoPlaceDefault
  placementRun, enginePending, liveAnalysis,
  engine,          \* the analyses in flight, by file: their run, and whether they live
  scanDue,         \* the preview on screen has not reported its scan
  scanSeen, pendingScan,
  pfx, password, parsed, pinValidating, pinCall,
  signingNow, signCall, signed, again

loadVars   == <<chosen, loads>>
placeVars  == <<box, hidden>>
engineVars == <<placementRun, enginePending, liveAnalysis, engine>>
scanVars   == <<scanDue, scanSeen, pendingScan>>
pinVars    == <<pfx, password, parsed, pinValidating, pinCall>>
callVars   == <<signingNow, signCall, signed, again>>
screenVars == <<guided, at, pdf, prior, loadVars, placeVars, autoDefault, engineVars, scanVars,
                pinVars, callVars>>

NoBox == [by |-> "nobody", of |-> 0]
Box(by, of) == [by |-> by, of |-> of]
NoAnalysis == [run |-> 0, live |-> FALSE]

\* Opening the route may find a document handed over: it is being fetched.
SignInit ==
  /\ guided \in BOOLEAN
  /\ at = 1 /\ pdf = 0 /\ prior = FALSE
  /\ chosen \in {0, 1} /\ loads = 1..chosen
  /\ box = NoBox /\ hidden = FALSE /\ autoDefault = TRUE
  /\ placementRun = 0 /\ enginePending = FALSE /\ liveAnalysis = 0
  /\ engine = [f \in Files |-> NoAnalysis]
  /\ scanDue = FALSE /\ scanSeen = FALSE /\ pendingScan = FALSE
  /\ pfx = FALSE /\ password = FALSE /\ parsed = FALSE /\ pinValidating = FALSE /\ pinCall = FALSE
  /\ signingNow = FALSE /\ signCall = 0 /\ signed = 0 /\ again = 0

Terminated(f) == [engine EXCEPT ![f].live = FALSE]
Stopped == IF liveAnalysis = 0 THEN engine ELSE Terminated(liveAnalysis)

\* When the centred default may come back: the guided mode, a box there already,
\* nothing to avoid, or the scan that was to avoid it has had its turn.
RestoresDefault(has, seen) == guided \/ has \/ ~prior \/ seen

-----------------------------------------------------------------------------
(* Step 1: the document.                                                   *)

PickPdf ==
  /\ at = 1 /\ chosen < MaxFiles
  /\ chosen' = chosen + 1
  /\ loads' = loads \cup {chosen'}
  /\ UNCHANGED <<guided, at, pdf, prior, placeVars, autoDefault, engineVars, scanVars, pinVars,
                 callVars>>

ReadFails(f) ==
  /\ f \in loads
  /\ loads' = loads \ {f}
  /\ UNCHANGED <<guided, at, pdf, prior, chosen, placeVars, autoDefault, engineVars, scanVars,
                 pinVars, callVars>>

\* The file is read and its signatures detected: it is the document, whatever
\* the screen shows by then, and its analysis is dispatched.
Loaded(f) ==
  /\ f \in loads
  /\ loads' = loads \ {f}
  /\ pdf' = f /\ prior' \in BOOLEAN
  /\ at' = 2
  /\ box' = NoBox /\ hidden' = FALSE
  /\ placementRun' = placementRun + 1
  /\ scanDue' = TRUE /\ scanSeen' = FALSE /\ pendingScan' = FALSE
  /\ \/ /\ engine' = [Stopped EXCEPT ![f] = [run |-> placementRun', live |-> TRUE]]
        /\ liveAnalysis' = f
        /\ enginePending' = TRUE /\ autoDefault' = FALSE
     \/ /\ engine' = Stopped  \* the worker cannot be created
        /\ liveAnalysis' = 0
        /\ enginePending' = FALSE /\ autoDefault' = (guided \/ ~prior')
  /\ UNCHANGED <<guided, chosen, pinVars, callVars>>

-----------------------------------------------------------------------------
(* Step 2: who places the box.                                             *)

\* mutant: the result of a document that is no longer there lands
IsCurrentAlways(f) == TRUE

IsCurrent(f) == engine[f].run = placementRun

\* The box once the engine answered: one that is there stays; failing the
\* engine, the scan that came meanwhile may find a free slot.
BoxAfter(f, answer, seen) ==
  IF box # NoBox THEN box
  ELSE IF answer = "placed" THEN Box("engine", f)
  ELSE IF seen THEN Box("beside", f) ELSE NoBox

\* The preview is turned to the page of a box that was placed for the person.
ShowBox == hidden' = (hidden /\ box' = box)

\* The analysis answers, declines, dies or times out (a terminated one only
\* times out), and the worker is terminated.
EngineEnds(f) ==
  /\ engine[f].run # 0
  /\ engine' = [engine EXCEPT ![f] = NoAnalysis]
  /\ liveAnalysis' = IF liveAnalysis = f THEN 0 ELSE liveAnalysis
  /\ IF IsCurrent(f)
     THEN /\ \E answer \in {"placed", "declined"}, slot \in BOOLEAN :
               /\ answer = "placed" => engine[f].live
               /\ slot => pendingScan
               /\ box' = BoxAfter(f, answer, slot)
               /\ ShowBox
               /\ pendingScan' = (pendingScan /\ answer = "placed")
          /\ enginePending' = FALSE
          /\ autoDefault' = RestoresDefault(box' # NoBox, scanSeen)
     ELSE UNCHANGED <<placeVars, pendingScan, enginePending, autoDefault>>
  /\ UNCHANGED <<guided, at, pdf, prior, loadVars, placementRun, scanDue, scanSeen, pinVars,
                 callVars>>

\* mutant: the scan places a box although the engine is still deciding.
SignaturesScannedFirst ==
  /\ at = 2 /\ ~guided /\ scanDue
  /\ scanDue' = FALSE /\ scanSeen' = TRUE
  /\ \E slot \in BOOLEAN : box' = IF slot THEN Box("beside", pdf) ELSE box
  /\ ShowBox
  /\ autoDefault' = TRUE
  /\ UNCHANGED <<guided, at, pdf, prior, loadVars, pendingScan, engineVars, pinVars, callVars>>

\* The preview reports the earlier signatures; the engine, still at work, goes first.
SignaturesScanned ==
  /\ at = 2 /\ ~guided /\ scanDue
  /\ scanDue' = FALSE /\ scanSeen' = TRUE
  /\ IF enginePending
     THEN pendingScan' = TRUE /\ UNCHANGED <<placeVars, autoDefault>>
     ELSE /\ \E slot \in BOOLEAN :
               box' = IF box = NoBox /\ slot THEN Box("beside", pdf) ELSE box
          /\ ShowBox
          /\ autoDefault' = TRUE
          /\ UNCHANGED pendingScan
  /\ UNCHANGED <<guided, at, pdf, prior, loadVars, engineVars, pinVars, callVars>>

\* The person turns away from the page of the box, or back to it, or the preview
\* opens at the last page.  The box stays.
TurnPage ==
  /\ at = 2 /\ box # NoBox
  /\ hidden' = ~hidden
  /\ UNCHANGED <<guided, at, pdf, prior, loadVars, box, autoDefault, engineVars, scanVars, pinVars,
                 callVars>>

\* What the placer on the page shown is told: the standard one of no box but one
\* on its page, the guided one of the stored box.
ShowsNoBox == box = NoBox \/ (hidden /\ ~guided)

\* The placer, told of no box, puts its default in the centre of its page, and
\* that becomes the stored box.
PlaceDefault ==
  /\ at = 2 /\ autoDefault /\ ShowsNoBox
  /\ box' = Box("centre", pdf) /\ hidden' = FALSE
  /\ UNCHANGED <<guided, at, pdf, prior, loadVars, autoDefault, engineVars, scanVars, pinVars,
                 callVars>>

\* On the page shown, wherever a box was before.
PersonPlaces ==
  /\ at = 2
  /\ box' = Box("person", pdf) /\ hidden' = FALSE
  /\ UNCHANGED <<guided, at, pdf, prior, loadVars, autoDefault, engineVars, scanVars, pinVars,
                 callVars>>

ConfirmBox ==
  /\ at = 2 /\ box # NoBox
  /\ at' = 3
  /\ UNCHANGED <<guided, pdf, prior, loadVars, placeVars, autoDefault, engineVars, scanVars,
                 pinVars, callVars>>

-----------------------------------------------------------------------------
(* Steps 3 to 6: the certificate, the password, the signature.             *)

PickPfx ==
  /\ at = 3
  /\ pfx' = TRUE /\ parsed' = FALSE /\ password' = FALSE
  /\ at' = 4
  /\ UNCHANGED <<guided, pdf, prior, loadVars, placeVars, autoDefault, engineVars, scanVars,
                 pinValidating, pinCall, callVars>>

TypePassword ==
  /\ at = 4 /\ ~pinValidating /\ ~password
  /\ password' = TRUE
  /\ UNCHANGED <<guided, at, pdf, prior, loadVars, placeVars, autoDefault, engineVars, scanVars,
                 pfx, parsed, pinValidating, pinCall, callVars>>

PinSubmit ==
  /\ at = 4 /\ pfx /\ password /\ ~pinValidating
  /\ pinValidating' = TRUE /\ pinCall' = TRUE
  /\ UNCHANGED <<guided, at, pdf, prior, loadVars, placeVars, autoDefault, engineVars, scanVars,
                 pfx, password, parsed, callVars>>

\* The certificate's worker answers, wherever the person is by then.
PinChecked ==
  /\ pinCall
  /\ pinCall' = FALSE /\ pinValidating' = FALSE
  /\ \/ parsed' = TRUE /\ at' = 5
     \/ parsed' = FALSE /\ UNCHANGED at  \* expired, or not valid yet
     \/ UNCHANGED <<parsed, at>>         \* a wrong password, a broken container
  /\ UNCHANGED <<guided, pdf, prior, loadVars, placeVars, autoDefault, engineVars, scanVars, pfx,
                 password, callVars>>

SignNow ==
  /\ at = 5 /\ pdf # 0 /\ pfx /\ password /\ box # NoBox /\ ~signingNow
  /\ signingNow' = TRUE /\ signCall' = pdf
  /\ UNCHANGED <<guided, at, pdf, prior, loadVars, placeVars, autoDefault, engineVars, scanVars,
                 pinVars, signed, again>>

\* The signer answers: the document, or one of the errors that send the person
\* back to the step that can mend them.
SignEnds ==
  /\ signCall # 0
  /\ signCall' = 0 /\ signingNow' = FALSE
  /\ \/ signed' = signCall /\ password' = FALSE /\ parsed' = FALSE /\ at' = 6
        /\ UNCHANGED <<pdf, scanDue>>
     \/ password' = FALSE /\ at' = 4 /\ UNCHANGED <<signed, parsed, pdf, scanDue>>
     \/ pdf' = 0 /\ at' = 1 /\ UNCHANGED <<signed, parsed, password, scanDue>>
     \/ at' = 2 /\ scanDue' = TRUE /\ UNCHANGED <<signed, parsed, password, pdf>>
     \/ UNCHANGED <<signed, parsed, password, pdf, at, scanDue>>
  /\ UNCHANGED <<guided, prior, loadVars, placeVars, autoDefault, engineVars, scanSeen,
                 pendingScan, pfx, pinValidating, pinCall, again>>

-----------------------------------------------------------------------------
(* Navigation.                                                             *)

\* Steps 1, 3 and 6 have no way back.
OnBack ==
  /\ at \in {2, 4, 5}
  /\ at' = at - 1
  /\ password' = IF at = 2 THEN password ELSE FALSE
  /\ parsed' = IF at = 5 THEN FALSE ELSE parsed
  /\ UNCHANGED <<guided, pdf, prior, loadVars, placeVars, autoDefault, engineVars, scanVars, pfx,
                 pinValidating, pinCall, callVars>>

\* Everything is reset, and the analysis in flight is told to stop; the calls
\* of the other workers are not.
SignAgain ==
  /\ at = 6 /\ again < MaxAgain
  /\ again' = again + 1
  /\ at' = 1 /\ pdf' = 0 /\ box' = NoBox /\ hidden' = FALSE /\ autoDefault' = TRUE
  /\ engine' = Stopped /\ liveAnalysis' = 0
  /\ enginePending' = FALSE /\ placementRun' = placementRun + 1
  /\ scanSeen' = FALSE /\ pendingScan' = FALSE
  /\ pfx' = FALSE /\ password' = FALSE /\ parsed' = FALSE /\ pinValidating' = FALSE
  /\ signingNow' = FALSE /\ signed' = 0
  /\ UNCHANGED <<guided, prior, loadVars, scanDue, pinCall, signCall>>

Placing == SignaturesScanned \/ PlaceDefault \/ \E f \in Files : EngineEnds(f)

SignNext ==
  \/ PickPdf \/ (\E f \in Files : ReadFails(f) \/ Loaded(f))
  \/ Placing \/ PersonPlaces \/ TurnPage \/ ConfirmBox
  \/ PickPfx \/ TypePassword \/ PinSubmit \/ PinChecked \/ SignNow \/ SignEnds
  \/ OnBack \/ SignAgain

SignSpec == SignInit /\ [][SignNext]_screenVars

-----------------------------------------------------------------------------
(* Properties.                                                             *)

SignTypeOK ==
  /\ at \in 1..6 /\ pdf \in 0..MaxFiles /\ chosen \in 0..MaxFiles /\ loads \subseteq 1..chosen
  /\ box \in [by : {"nobody", "person", "engine", "beside", "centre"}, of : 0..MaxFiles]
  /\ {liveAnalysis, signCall, signed} \subseteq 0..MaxFiles
  /\ placementRun \in Nat /\ engine \in [Files -> [run : 0..placementRun, live : BOOLEAN]]
  /\ again \in 0..MaxAgain
  /\ {guided, prior, hidden, autoDefault, enginePending, scanDue, scanSeen, pendingScan, pfx,
      password, parsed, pinValidating, pinCall, signingNow} \subseteq BOOLEAN

\* One analysis lives at a time, with its copy of the document: the one that is
\* in liveAnalysis, which the next document terminates.
OneLiveAnalysis == \A f \in Files : engine[f].live => liveAnalysis = f

\* The engine's lock is held while, and only while, somebody will release it.
LockHasOwner == enginePending => \E f \in Files : engine[f].run = placementRun

\* A signed document leaves no password on the screen.
PasswordIsDropped == at = 6 => ~password /\ ~parsed

\* A box is for the document on screen: no answer of an earlier one lands on it.
BoxIsOfThisDocument == (pdf # 0 /\ box # NoBox) => box.of = pdf

SignInv ==
  SignTypeOK /\ OneLiveAnalysis /\ LockHasOwner /\ PasswordIsDropped /\ BoxIsOfThisDocument

\* The cascade: while the document stays, nobody but the person replaces a box on
\* the page it is on, whoever put it there; only the centre of another page,
\* which the standard placer takes for empty, displaces it.  And the engine,
\* while it decides, comes before the scan and the centre (380-424, 487-505).
BoxesYield ==
  [][ (box' # box /\ box' # NoBox) =>
        /\ (box # NoBox /\ pdf' = pdf) =>
             \/ box'.by = "person"
             \/ hidden /\ ~guided /\ box' = Box("centre", pdf)
        /\ (enginePending /\ box'.by \in {"beside", "centre"}) => ~enginePending' ]_screenVars

\* Said of the code but not kept by it (README, section 5).

\* "Going back from 5 or 6 invalidates PIN — force retype" (Firmar.svelte:910).
ConfirmHasPassword == at = 5 => password

\* "If page changed and no box on this one yet, hide it (keep stored)"
\* (Firmar.svelte:1029): the person's box gives way to nobody else's.
TurningKeepsTheBox ==
  [][ (box.by = "person" /\ box' # box /\ pdf' = pdf) =>
        box'.by \in {"person", "nobody"} ]_screenVars

\* What is offered for download is the document on screen.
SignedIsOnScreen == at = 6 => signed = pdf
=============================================================================
