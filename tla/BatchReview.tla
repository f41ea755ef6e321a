---------------------------- MODULE BatchReview -----------------------------
(***************************************************************************)
(* The batch screen (apps/pwa/src/routes/FirmarLote.svelte) over the       *)
(* analysis of its documents (lib/batch/preflight.ts, preflight-bus.ts),   *)
(* the placement made by hand (manualPlacement.ts) and its propagation to  *)
(* documents of the same format (propagation.ts).                          *)
(*                                                                         *)
(* A review and a propagation are runs of preflightBatch: a loop that      *)
(* awaits one document after the other on a worker of its own.  Several    *)
(* may be in flight, the superseded ones included; between two awaits a    *)
(* run is atomic.  The screen is left and entered through its counters and *)
(* abort signals, which is what the properties are about.                  *)
(***************************************************************************)
EXTENDS Integers, SequencesExt

CONSTANTS
  NumFiles,  \* bound on the File objects picked, numbered as they are
  Template,  \* those whose pages have the same format
  MaxReviews, MaxPropagations  \* bounds on preflightRun and propagationRun

ASSUME ReviewAssumption ==
  {NumFiles, MaxReviews, MaxPropagations} \subseteq Nat \ {0} /\ Template \subseteq 1..NumFiles

VARIABLES
  step, files,
  picked,            \* history: how many File objects were picked; none comes back
  preflight,         \* the items on screen
  running, reviewError, written, propagating, propagationError,
  reviewRun, propagationRun,
  run,               \* the calls of preflightBatch
  placing, placer,   \* the item being placed by hand, and its sub-view
  p12, pin, signing,
  input,             \* what the signer was given
  result             \* "none", "ready" or "saved"

runVars    == <<reviewRun, propagationRun, run>>
statusVars == <<running, reviewError, propagating, propagationError>>
placerVars == <<placing, placer>>
signVars   == <<p12, pin, signing, input, result>>
reviewVars == <<step, files, picked, preflight, written, runVars, statusVars, placerVars, signVars>>

-----------------------------------------------------------------------------
(* Items and runs.                                                         *)

\* source: who decided; geo: the geometry of its pages is known; rect: whose
\* rectangle is signed ("engine" whether it is published or left to the signer,
\* which asks the same engine).
Item(doc, status, source, geo, rect) ==
  [doc |-> doc, status |-> status, source |-> source, geo |-> geo, rect |-> rect]

\* What the analysis of a document comes to. The last is a failure of the
\* infrastructure, told apart from an unreadable document.
Failed(d) == Item(d, "needs_review", "engine", FALSE, "none")
Outcomes(kind, d) ==
  {Item(d, "ready", "engine", TRUE, "engine"), Item(d, "needs_review", "engine", TRUE, "none"),
   Item(d, "unreadable", "engine", FALSE, "none"), Failed(d)}
    \cup IF kind = "propagation" THEN {Item(d, "ready", "hint", TRUE, "hint")} ELSE {}

NoItem == [doc |-> "none"]

\* The items by document, a Map in the code: the last one of a document wins.
Has(items, d) == \E n \in DOMAIN items : items[n].doc = d
Latest(items, d) == items[Max({n \in DOMAIN items : items[n].doc = d})]
Get(items, d) == IF Has(items, d) THEN Latest(items, d) ELSE NoItem
DocsOf(items) == [n \in DOMAIN items |-> items[n].doc]

\* The elements of a sequence that are not in a set.
Without(s, S) ==
  LET kept[n \in 0..Len(s)] ==
        IF n = 0 THEN <<>> ELSE IF s[n] \in S THEN kept[n - 1] ELSE Append(kept[n - 1], s[n])
  IN kept[Len(s)]

Runs == ({"review"} \X (1..MaxReviews)) \cup ({"propagation"} \X (1..MaxPropagations))
NoRun == [list |-> <<>>, at |-> 0, photo |-> <<>>, items |-> <<>>, aborted |-> FALSE]
NewRun(list, photo) == [list |-> list, at |-> 1, photo |-> photo, items |-> <<>>, aborted |-> FALSE]

\* mutant: a superseded run still writes
AnyRun(k) == TRUE

Current(k) == k[2] = IF k[1] = "review" THEN reviewRun ELSE propagationRun

Abort(runs, kinds) ==
  [k \in Runs |-> IF k[1] \in kinds /\ runs[k].at > 0 THEN [runs[k] EXCEPT !.aborted = TRUE]
                                                      ELSE runs[k]]

\* What a review under way is to find written from the screen; nobody reads it
\* at other times.
Written(d) == IF running THEN written \cup {d} ELSE {}

Ready(items) == SelectSeq(items, LAMBDA i : i.status = "ready")
Signable == Ready(preflight)

ReviewInit ==
  /\ step = 1 /\ files = <<>> /\ picked = 0 /\ preflight = <<>> /\ written = {}
  /\ running = FALSE /\ reviewError = FALSE /\ propagating = {} /\ propagationError = FALSE
  /\ reviewRun = 0 /\ propagationRun = 0 /\ run = [k \in Runs |-> NoRun]
  /\ placing = NoItem /\ placer = "loading"
  /\ p12 = FALSE /\ pin = FALSE /\ signing = FALSE /\ input = <<>> /\ result = "none"

-----------------------------------------------------------------------------
(* Step 1: the selection.                                                  *)

AddFile ==
  /\ step = 1 /\ picked < NumFiles
  /\ picked' = picked + 1
  /\ files' = Append(files, picked')
  /\ UNCHANGED <<step, preflight, written, runVars, statusVars, placerVars, signVars>>

RemoveFile(n) ==
  /\ step = 1
  /\ files' = RemoveAt(files, n)
  /\ UNCHANGED <<step, picked, preflight, written, runVars, statusVars, placerVars, signVars>>

ClearFiles ==
  /\ step = 1 /\ files # <<>>
  /\ files' = <<>>
  /\ UNCHANGED <<step, picked, preflight, written, runVars, statusVars, placerVars, signVars>>

-----------------------------------------------------------------------------
(* Step 2: the review.                                                     *)

Kept == Without([n \in DOMAIN files |-> Get(preflight, files[n])], {NoItem})
Pending == Without(files, ToSet(DocsOf(preflight)))

\* What goToReview does to whatever was in flight.
Supersede ==
  /\ reviewRun < MaxReviews /\ propagationRun < MaxPropagations
  /\ reviewRun' = reviewRun + 1
  /\ propagationRun' = propagationRun + 1

\* Analyses what is new and keeps what was already resolved. Opening the
\* worker may throw, which the screen shows and lets the person retry.
GoToReview ==
  /\ \/ step = 1 /\ files # <<>>
     \/ step = 2 /\ reviewError /\ placing = NoItem
  /\ Supersede
  /\ step' = 2
  /\ preflight' = Kept
  /\ written' = {}
  /\ propagating' = {} /\ propagationError' = FALSE
  /\ \E opens \in BOOLEAN :
       LET stopped == Abort(run, {"review", "propagation"}) IN
       /\ running' = (Pending # <<>> /\ opens)
       /\ reviewError' = (Pending # <<>> /\ ~opens)
       /\ run' = IF running' THEN [stopped EXCEPT ![<<"review", reviewRun + 1>>] = NewRun(Pending, Kept)]
                             ELSE stopped
  /\ UNCHANGED <<files, picked, placerVars, signVars>>

\* A propagation may add, never turn a document known to be readable unreadable.
Downgrade(previous, next) == next.status = "unreadable" /\ previous.status # "unreadable"
MergePropagation(previous, next) == IF Downgrade(previous, next) THEN previous ELSE next

\* What the screen shows once the item arrives.
Arrived(k, item) ==
  IF ~Current(k) THEN preflight
  ELSE IF k[1] = "review"
       THEN IF Contains(files, item.doc) THEN Append(preflight, item) ELSE preflight
       ELSE [n \in DOMAIN preflight |->
               IF preflight[n].doc = item.doc
               THEN MergePropagation(Latest(run[k].photo, item.doc), item) ELSE preflight[n]]

\* mutant: the list the person edited is forgotten at the end of the review
RebuildFromPhoto(shown, photo, items) ==
  LET all == photo \o items IN Without([n \in DOMAIN files |-> Get(all, files[n])], {NoItem})

\* The review ends: in the order of the selection, what was written meanwhile
\* from the screen, the rest from the report.
Rebuild(shown, photo, items) ==
  LET all == photo \o items
      row(d) == IF d \in written /\ Has(shown, d) THEN Latest(shown, d) ELSE Get(all, d)
  IN  Without([n \in DOMAIN files |-> row(files[n])], {NoItem})

\* The propagation ends: every result is merged again.
Remerge(shown, photo, items) ==
  [n \in DOMAIN shown |->
     IF Has(items, shown[n].doc)
     THEN MergePropagation(Latest(photo, shown[n].doc), Latest(items, shown[n].doc))
     ELSE shown[n]]

\* The analysis of one document settles and its run goes on to the next await
\* or to its end. A worker that died or timed out is replaced, unless the run
\* was aborted; the replacement may fail to open, even after the last document.
Settles(k, item, throws) ==
  LET r == run[k]
      items == Append(r.items, item)
      shown == Arrived(k, item)
      ends == throws \/ r.aborted \/ r.at = Len(r.list)
      mine == ends /\ Current(k)
  IN  /\ throws => ~r.aborted /\ item = Failed(item.doc)
      /\ run' = [run EXCEPT ![k] = IF ends THEN NoRun ELSE [r EXCEPT !.at = r.at + 1, !.items = items]]
      /\ preflight' = IF ~mine \/ throws THEN shown
                      ELSE IF k[1] = "review" THEN Rebuild(shown, r.photo, items)
                      ELSE Remerge(shown, r.photo, items)
      /\ written' = IF k[1] = "propagation" /\ Current(k) /\ Has(preflight, item.doc)
                    THEN Written(item.doc) ELSE written
      /\ IF k[1] = "review"
         THEN /\ running' = (running /\ ~mine)
              /\ reviewError' = (reviewError \/ (mine /\ throws))
              /\ UNCHANGED <<propagating, propagationError>>
         ELSE /\ propagating' = IF mine THEN {} ELSE propagating
              /\ propagationError' =
                   (propagationError \/ (mine /\ (throws \/ \E n \in DOMAIN items :
                      Downgrade(Latest(r.photo, items[n].doc), items[n]))))
              /\ UNCHANGED <<running, reviewError>>
      /\ UNCHANGED <<step, files, picked, reviewRun, propagationRun, placerVars, signVars>>

DocumentDone(k) ==
  /\ run[k].at > 0
  /\ \E item \in Outcomes(k[1], run[k].list[run[k].at]), throws \in BOOLEAN :
       Settles(k, item, throws)

RemoveFromReview(n) ==
  /\ step = 2 /\ placing = NoItem
  /\ preflight' = Without(preflight, {preflight[n]})
  /\ files' = Without(files, {preflight[n].doc})
  /\ UNCHANGED <<step, picked, written, runVars, statusVars, placerVars, signVars>>

-----------------------------------------------------------------------------
(* Step 2: placement by hand.                                              *)

Placeable(i) ==
  /\ i.doc \notin propagating
  /\ i.status = "needs_review" \/ (i.status = "ready" /\ i.source = "hint")

OpenPlacer(n) ==
  /\ step = 2 /\ placing = NoItem
  /\ Placeable(preflight[n])
  /\ placing' = preflight[n]
  /\ placer' = "loading"
  /\ UNCHANGED <<step, files, picked, preflight, written, runVars, statusVars, signVars>>

\* The bytes are read and the first page is rendered: the box lands in its centre.
PlacerReady ==
  /\ placing # NoItem /\ placer = "loading"
  /\ placer' = "placed"
  /\ UNCHANGED <<step, files, picked, preflight, written, runVars, statusVars, placing, signVars>>

\* requestConfirm, the box over an earlier signature or the scan blind to part
\* of the document: a second confirmation is asked for.
Warn ==
  /\ placing # NoItem /\ placer = "placed"
  /\ placer' = "warned"
  /\ UNCHANGED <<step, files, picked, preflight, written, runVars, statusVars, placing, signVars>>

\* Another rectangle is another question.
MoveBox ==
  /\ placing # NoItem /\ placer = "warned"
  /\ placer' = "placed"
  /\ UNCHANGED <<step, files, picked, preflight, written, runVars, statusVars, placing, signVars>>

ClosePlacer ==
  /\ placing # NoItem
  /\ placing' = NoItem /\ placer' = "loading"
  /\ UNCHANGED <<step, files, picked, preflight, written, runVars, statusVars, signVars>>

\* Same pages, still to be placed, known to be readable.
Candidates(items, source) ==
  Without(items, {i \in ToSet(items) :
    \/ i.doc = source.doc \/ i.status # "needs_review" \/ ~i.geo
    \/ ~({i.doc, source.doc} \subseteq Template)})

\* commitPlacement: what is left of the item when the page is rotated keeps
\* the rectangle it had.
Placed(item, rotated) ==
  [item EXCEPT !.status = "ready", !.source = "person",
               !.rect = IF rotated THEN item.rect ELSE "person"]

\* The placement is published and propagated to the documents like it. The
\* hint needs a rectangle and the geometry of its page.
CommitPlacement ==
  /\ placing # NoItem /\ placer # "loading"
  /\ \E rotated, opens \in BOOLEAN :
       LET updated == Placed(placing, rotated)
           shown == [n \in DOMAIN preflight |->
                       IF preflight[n].doc = placing.doc THEN updated ELSE preflight[n]]
           cands == IF updated.geo /\ updated.rect # "none" THEN Candidates(shown, updated) ELSE <<>>
           targets == ToSet(DocsOf(cands))
           next == propagationRun + 1
       IN  /\ rotated => placing.geo
           /\ preflight' = shown
           /\ IF targets = {}
              THEN propagationError' = FALSE /\ UNCHANGED <<run, propagationRun, propagating>>
              ELSE /\ next <= MaxPropagations
                   /\ propagationRun' = next
                   /\ propagating' = IF opens THEN targets ELSE {}
                   /\ propagationError' = ~opens
                   /\ run' = LET stopped == Abort(run, {"propagation"}) IN
                             IF opens THEN [stopped EXCEPT ![<<"propagation", next>>] =
                                              NewRun(DocsOf(cands), cands)]
                                      ELSE stopped
  /\ written' = Written(placing.doc)
  /\ placing' = NoItem /\ placer' = "loading"
  /\ UNCHANGED <<step, files, picked, running, reviewError, reviewRun, signVars>>

-----------------------------------------------------------------------------
(* Navigation, and steps 3 and 4: the certificate, the signature, the ZIP. *)

\* mutant: the review is superseded and nobody is left to say that it ended
BackSuperseding ==
  /\ step = 2 /\ placing = NoItem
  /\ step' = 1
  /\ run' = Abort(run, {"review", "propagation"})
  /\ propagating' = {}
  /\ reviewRun < MaxReviews /\ reviewRun' = reviewRun + 1
  /\ UNCHANGED <<files, picked, preflight, written, running, reviewError, propagationError,
                 propagationRun, placerVars, signVars>>

\* Back aborts both runs and bumps neither counter: the document in flight of
\* each still arrives.
Back ==
  /\ step = 2 /\ placing = NoItem
  /\ step' = 1
  /\ run' = Abort(run, {"review", "propagation"})
  /\ propagating' = {}
  /\ UNCHANGED <<files, picked, preflight, written, running, reviewError, propagationError,
                 reviewRun, propagationRun, placerVars, signVars>>

\* mutant: only the review is waited for
CanContinueEarly == ~running /\ Signable # <<>>

CanContinue == ~running /\ propagating = {} /\ Signable # <<>>

Continue ==
  /\ step = 2 /\ placing = NoItem /\ CanContinue
  /\ step' = 3
  /\ UNCHANGED <<files, picked, preflight, written, runVars, statusVars, placerVars, signVars>>

PickP12 ==
  /\ step = 3 /\ ~signing
  /\ p12' = ~p12
  /\ UNCHANGED <<step, files, picked, preflight, written, runVars, statusVars, placerVars, pin,
                 signing, input, result>>

TypePin ==
  /\ step = 3 /\ ~signing /\ p12 /\ ~pin
  /\ pin' = TRUE
  /\ UNCHANGED <<step, files, picked, preflight, written, runVars, statusVars, placerVars, p12,
                 signing, input, result>>

StartSigning ==
  /\ step = 3 /\ p12 /\ pin /\ ~signing
  /\ signing' = TRUE /\ pin' = FALSE
  /\ input' = Signable
  /\ UNCHANGED <<step, files, picked, preflight, written, runVars, statusVars, placerVars, p12,
                 result>>

\* signBatchToZip resolves, a cancelled batch included, or rejects.
SigningEnds ==
  /\ signing
  /\ signing' = FALSE
  /\ input' = <<>>
  /\ \/ step' = 4 /\ p12' = FALSE /\ result' = "ready"
     \/ UNCHANGED <<step, p12, result>>
  /\ UNCHANGED <<files, picked, preflight, written, runVars, statusVars, placerVars, pin>>

Download ==
  /\ step = 4 /\ result' = "saved"
  /\ UNCHANGED <<step, files, picked, preflight, written, runVars, statusVars, placerVars, p12, pin,
                 signing, input>>

Restart ==
  /\ step = 4
  /\ Supersede
  /\ run' = Abort(run, {"review", "propagation"})
  /\ step' = 1 /\ files' = <<>> /\ preflight' = <<>>
  /\ running' = FALSE /\ reviewError' = FALSE /\ propagating' = {} /\ propagationError' = FALSE
  /\ placing' = NoItem /\ placer' = "loading"
  /\ p12' = FALSE /\ pin' = FALSE /\ result' = "none"
  /\ UNCHANGED <<picked, written, signing, input>>

-----------------------------------------------------------------------------
Selection == AddFile \/ (\E n \in DOMAIN files : RemoveFile(n)) \/ ClearFiles
Placement ==
  \/ \E n \in DOMAIN preflight : OpenPlacer(n) \/ RemoveFromReview(n)
  \/ PlacerReady \/ Warn \/ MoveBox \/ ClosePlacer \/ CommitPlacement
Signing == PickP12 \/ TypePin \/ StartSigning \/ SigningEnds \/ Download \/ Restart

ReviewNext ==
  \/ Selection \/ GoToReview \/ Placement \/ Back \/ Continue \/ Signing
  \/ \E k \in Runs : DocumentDone(k)

ReviewSpec == ReviewInit /\ [][ReviewNext]_reviewVars

-----------------------------------------------------------------------------
(* Properties.                                                             *)

ReviewTypeOK ==
  /\ step \in 1..4 /\ IsInjective(files) /\ ToSet(files) \subseteq 1..picked /\ picked \in 0..NumFiles
  /\ {running, reviewError, propagationError, p12, pin, signing} \subseteq BOOLEAN
  /\ written \subseteq 1..NumFiles /\ propagating \subseteq 1..NumFiles
  /\ reviewRun \in 0..MaxReviews /\ propagationRun \in 0..MaxPropagations
  /\ \A k \in Runs : run[k].at \in 0..Len(run[k].list)

\* No document is listed twice, whatever the reviews left behind.
OneRowPerDocument == IsInjective(DocsOf(preflight))

\* A review that ended well has a row for every document picked, in their order.
AllReviewed ==
  (step = 2 /\ ~running /\ ~reviewError) => DocsOf(preflight) = files

\* From step 3 on nothing in flight can write the list that is being signed.
NothingMovesUnderTheSigner ==
  step >= 3 => /\ \A k \in Runs : run[k].at > 0 => ~Current(k)
               /\ signing => input = Signable

\* The password is gone once it is used, and the certificate once it has signed.
SecretsAreDropped == (pin => step = 3 /\ ~signing) /\ (step = 4 => ~p12)

ReviewInv == ReviewTypeOK /\ OneRowPerDocument /\ AllReviewed /\ SecretsAreDropped

\* A document that was settled stays so while it is in the list, and one the
\* person placed keeps the placement: no late result undoes it.
SettledStays ==
  [][ \A n \in DOMAIN preflight :
        LET i == preflight[n] IN
        (i.status = "ready" /\ step' \in {2, 3} /\ step # 4 /\ Contains(files', i.doc)) =>
          /\ Has(preflight', i.doc)
          /\ Latest(preflight', i.doc).status = "ready"
          /\ i.source = "person" => Latest(preflight', i.doc) = i ]_reviewVars

\* A review and a propagation end, however many workers die on the way.
ReviewEnds == (running ~> ~running) /\ (propagating # {} ~> propagating = {})

\* Said of the code but not kept by it (README, section 5).

\* "Si la página está rotada, NO se publica el rect" (FirmarLote.svelte:691).
ManualRectIsThePersons ==
  \A n \in DOMAIN preflight :
    preflight[n].source = "person" => preflight[n].rect \in {"person", "none"}

\* "la propagación puede SUMAR información ..., nunca destruirla" (propagation.ts:176).
PropagationOnlyAdds ==
  [][ \A n \in DOMAIN preflight : \A m \in DOMAIN preflight' :
        (preflight[n].doc = preflight'[m].doc /\ preflight[n].geo) => preflight'[m].geo ]_reviewVars
=============================================================================
