------------------------------ MODULE VerifyBus ------------------------------
(***************************************************************************)
(* The verification of a document in the PWA: runVerifyAll of              *)
(* apps/pwa/src/lib/workers/bus.ts, its worker (verify.worker.ts), the     *)
(* main thread that takes over from a worker that never boots, and         *)
(* verifyAllSignatures of packages/verifier/src/index.ts, which either of  *)
(* them runs.                                                              *)
(*                                                                         *)
(* A document is the sequence of what was appended to it.  A signature     *)
(* covers everything before its end.  The timers of the bus may fire at    *)
(* any time: how long a phase takes is not modelled.                       *)
(***************************************************************************)
EXTENDS Naturals, Sequences

CONSTANT MaxParts  \* bound on the parts of a document

ASSUME BusAssumption == MaxParts \in Nat

VARIABLES
  file,     \* parts: "signature", "stamp" (of the document), "bytes" (any other)
  engine,   \* who verifies: "worker", "main", or "nobody" once it is over
  loaded,   \* the worker's module runs
  mail,     \* messages of the worker not yet delivered
  booted,   \* the bus has heard from it
  done,     \* the part up to which signatures are verified
  worst,    \* the status of them together
  answer    \* what the caller got: "none", a status, "timeout" or "error"

engineVars == <<done, worst>>
verifyVars == <<file, engine, loaded, mail, booted, engineVars, answer>>

Parts == {"signature", "stamp", "bytes"}
Pdfs == UNION {[1..n -> Parts] : n \in 0..MaxParts}

BusInit ==
  /\ file \in Pdfs
  /\ engine = "worker" /\ loaded = FALSE /\ mail = <<>> /\ booted = FALSE
  /\ done = 0 /\ worst = "valid" /\ answer = "none"

-----------------------------------------------------------------------------
(* verifyAllSignatures.                                                    *)

\* The document's own time stamps are not signatures of a person.
Signatures == {k \in 1..Len(file) : file[k] = "signature"}

\* mutant: the latest among the time stamps too
LatestOfAll(k) == \A j \in 1..Len(file) : file[j] # "bytes" => j <= k

Latest(k) == \A j \in Signatures : j <= k
Updated(k) == k < Len(file)
WrappedByStamp(k) == \E d \in 1..Len(file) : d > k /\ file[d] = "stamp" /\ d = Len(file)
Unaccounted(k) == Updated(k) /\ Latest(k) /\ ~WrappedByStamp(k)

Rank == [valid |-> 0, warning |-> 1, no_signature |-> 2, invalid |-> 3]
Worse(a, b) == IF Rank[b] > Rank[a] THEN b ELSE a

Computing == engine = "main" \/ (engine = "worker" /\ loaded)
Verified == \A k \in Signatures : k <= done
Overall == IF Signatures = {} /\ worst = "valid" THEN "no_signature" ELSE worst
Posted == \E k \in 1..Len(mail) : mail[k] = "result"

\* The next signature of the file, its phases' beacons as one.  Its own verdict is
\* SignatureVerdict's.
VerifySignature ==
  /\ Computing
  /\ \E k \in Signatures, own \in {"valid", "warning", "invalid"} :
       /\ k > done /\ \A j \in Signatures : j <= done \/ k <= j
       /\ done' = k
       /\ worst' = Worse(worst, IF own = "valid" /\ Unaccounted(k) THEN "warning" ELSE own)
  /\ mail' = IF engine = "worker" THEN Append(mail, "progress") ELSE mail
  /\ UNCHANGED <<file, engine, loaded, booted, answer>>

\* The file cannot be scanned, or the trust roots cannot be had: the answer is
\* an invalid document, not an error.
ScanThrows ==
  /\ Computing /\ done = 0 /\ ~Posted
  /\ done' = Len(file) /\ worst' = "invalid"
  /\ UNCHANGED <<file, engine, loaded, mail, booted, answer>>

-----------------------------------------------------------------------------
(* The worker.                                                             *)

WorkerBoots ==
  /\ engine = "worker" /\ ~loaded
  /\ loaded' = TRUE
  /\ mail' = Append(mail, "progress")
  /\ UNCHANGED <<file, engine, booted, engineVars, answer>>

WorkerAnswers ==
  /\ engine = "worker" /\ loaded /\ Verified /\ ~Posted
  /\ mail' = Append(mail, "result")
  /\ UNCHANGED <<file, engine, loaded, booted, engineVars, answer>>

-----------------------------------------------------------------------------
(* The bus.  settle terminates the worker; what it had posted is lost.     *)

Settles(a) ==
  /\ answer' = a
  /\ engine' = "nobody" /\ mail' = <<>>

\* fallbackToMainThread: from the copy of the bytes, from the start.
FallsBack ==
  /\ engine' = "main" /\ mail' = <<>>
  /\ done' = 0 /\ worst' = "valid"

HearProgress ==
  /\ engine = "worker" /\ mail # <<>> /\ Head(mail) = "progress"
  /\ mail' = Tail(mail)
  /\ booted' = TRUE
  /\ UNCHANGED <<file, engine, loaded, engineVars, answer>>

HearResult ==
  /\ engine = "worker" /\ mail # <<>> /\ Head(mail) = "result"
  /\ Settles(Overall)
  /\ UNCHANGED <<file, loaded, booted, engineVars>>

\* postMessage throws, the module fails to load with an error event, or the
\* worker is silent until the boot deadline.
Stillborn ==
  /\ engine = "worker" /\ ~booted
  /\ FallsBack
  /\ UNCHANGED <<file, loaded, booted, answer>>

\* The worker crashes once it was heard from, answers with an error, or posts
\* what cannot be deserialised.
WorkerFails ==
  /\ engine = "worker" /\ (booted \/ mail # <<>>)
  /\ Settles("error")
  /\ UNCHANGED <<file, loaded, booted, engineVars>>

WatchdogFires ==
  /\ engine = "worker"
  /\ Settles("timeout")
  /\ UNCHANGED <<file, loaded, booted, engineVars>>

MainThreadAnswers ==
  /\ engine = "main" /\ Verified
  /\ Settles(Overall)
  /\ UNCHANGED <<file, loaded, booted, engineVars>>

MainThreadFails ==
  /\ engine = "main"
  /\ Settles("error")
  /\ UNCHANGED <<file, loaded, booted, engineVars>>

BusNext ==
  \/ VerifySignature \/ ScanThrows \/ WorkerBoots \/ WorkerAnswers
  \/ HearProgress \/ HearResult \/ Stillborn \/ WorkerFails \/ WatchdogFires
  \/ MainThreadAnswers \/ MainThreadFails

BusSpec == BusInit /\ [][BusNext]_verifyVars

-----------------------------------------------------------------------------
(* Properties.                                                             *)

BusTypeOK ==
  /\ file \in Pdfs
  /\ engine \in {"worker", "main", "nobody"} /\ loaded \in BOOLEAN /\ booted \in BOOLEAN
  /\ mail \in Seq({"progress", "result"})
  /\ done \in 0..MaxParts /\ worst \in {"valid", "warning", "invalid"}
  /\ answer \in {"none", "valid", "warning", "invalid", "no_signature", "timeout", "error"}

\* A document is "valid" only if whoever answered verified all its signatures,
\* and nobody appended to it after the last of them, save time stamps up to the
\* very end.
ValidAccountsForTheTail ==
  answer = "valid" =>
    /\ Signatures # {} /\ Verified
    /\ file[Len(file)] # "bytes"

\* The worker and the main thread never work on one answer: the main thread
\* starts from nothing, on a document of which the caller heard nothing.
OneEngine == engine = "main" => mail = <<>> /\ ~booted

BusInv == BusTypeOK /\ ValidAccountsForTheTail /\ OneEngine
=============================================================================
