------------------------------ MODULE BatchZip -------------------------------
(***************************************************************************)
(* The archive of a signed batch (apps/pwa/src/lib/export/batchZip.ts):    *)
(* signBatchToZip refuses a batch that would not fit before signing any of *)
(* it, writes every document as it is signed, under a name nobody else     *)
(* has, and accounts for those that are not in the archive.                *)
(*                                                                         *)
(* The batch itself is what Batch promises of runBatchSign.                *)
(***************************************************************************)
EXTENDS Naturals, Sequences, FiniteSetsExt

CONSTANTS
  Docs,          \* documents of the batch
  Uploads,       \* the files there are: records [head, tail, upper, size]
  MaxEntries,    \* ZIP_MAX_ENTRIES
  MaxTotal,      \* MAX_ZIP_TOTAL_BYTES
  Allowance,     \* SIGNATURE_GROWTH_ALLOWANCE_BYTES
  Growths,       \* bytes a signature may add
  Header,        \* LOCAL_HEADER_BYTES, CENTRAL_HEADER_BYTES and
                 \* END_OF_CENTRAL_DIR_BYTES, scaled to one value
  MaxName        \* MAX_ENTRY_NAME_BYTES

ASSUME ZipAssumption ==
  /\ Docs \in Nat \ {0} /\ {MaxEntries, MaxTotal, Allowance, Header} \subseteq Nat
  /\ MaxName \in Nat \ {0} /\ Growths \subseteq Nat
  /\ \A file \in Uploads : file.size \in Nat

VARIABLES
  upload,      \* the file of every document
  docStatus, docGivenUp, runExit,   \* the batch: the variables of Batch
  zipPhase,    \* "idle", "running", "refused", "threw", "delivered"
  grown,       \* history: bytes the signature of a document added
  entries,     \* the archive: sequence of [doc, name, bytes]
  taken,       \* names in use, folded, with the number of their next variant
  offset,
  excluded     \* of the result: document -> reason

queueRunVars == <<docStatus, docGivenUp, runExit>>
archiveVars == <<entries, taken, offset>>
zipVars == <<upload, queueRunVars, zipPhase, grown, archiveVars, excluded>>

Run == INSTANCE Batch WITH N <- Docs, status <- docStatus, givenUp <- docGivenUp, exit <- runExit

DocIds == 1..Docs

-----------------------------------------------------------------------------
(* Names: a head and, when the name is as long as it may be, a tail; the   *)
(* variant is 0 for the name itself.                                       *)

NameOf(file) == [head |-> file.head, tail |-> file.tail, upper |-> file.upper, variant |-> 0]

\* The number takes the place of the tail: the stem is cut to make room for it.
Variant(name, v) == [name EXCEPT !.variant = v, !.tail = ""]

NameBytes(name) == IF name.tail = "" /\ name.variant = 0 THEN MaxName - 1 ELSE MaxName

\* Windows and macOS do not tell the case apart.
Fold(name) == [name EXCEPT !.upper = FALSE]

\* The variant resolveUniqueName settles on: the first that is free, from the
\* number the last collision left.
NextFree(name, from) ==
  Min({v \in from..(from + Docs) : Fold(Variant(name, v)) \notin DOMAIN taken})

\* f with the pairs of g, which win.
With(g, f) == [x \in DOMAIN g \cup DOMAIN f |-> IF x \in DOMAIN g THEN g[x] ELSE f[x]]

\* mutant: a variant is given out without being noted as taken
ResolvedUnnoted(name, resolved, taken2) ==
  IF Fold(name) \notin DOMAIN taken
  THEN resolved = name /\ taken2 = With([k \in {Fold(name)} |-> 2], taken)
  ELSE LET v == NextFree(name, taken[Fold(name)]) IN
       /\ resolved = Variant(name, v)
       /\ taken2 = With([k \in {Fold(name)} |-> v + 1], taken)

\* resolveUniqueName: name becomes resolved, and what is taken taken2.
Resolved(name, resolved, taken2) ==
  IF Fold(name) \notin DOMAIN taken
  THEN resolved = name /\ taken2 = With([k \in {Fold(name)} |-> 2], taken)
  ELSE LET v == NextFree(name, taken[Fold(name)]) IN
       /\ resolved = Variant(name, v)
       /\ taken2 = With([k \in {Fold(resolved)} |-> 2], With([k \in {Fold(name)} |-> v + 1], taken))

-----------------------------------------------------------------------------
(* Sizes.                                                                  *)

\* What a loop adds up: g[1] + ... + g[n].
Total(g, n) == LET sum[m \in 0..n] == IF m = 0 THEN 0 ELSE sum[m - 1] + g[m] IN sum[n]

EntryBytes(name, bytes) == Header + NameBytes(name) + bytes
CentralBytes == Total([n \in DOMAIN entries |-> Header + NameBytes(entries[n].name)], Len(entries))

\* What the archive would measure, closed, with one entry more.
Projected(name, bytes) ==
  offset + CentralBytes + EntryBytes(name, bytes) + Header + NameBytes(name) + Header

ArchiveBytes == offset + CentralBytes + Header

\* mutant: what signing adds is not reserved
EstimateOfInputs ==
  Header + Total([k \in DocIds |-> upload[k].size + 2 * Header + 2 * MaxName], Docs)

\* estimateSignedZipBytes.
Estimate ==
  Header + Total([k \in DocIds |-> upload[k].size + Allowance + 2 * Header + 2 * MaxName], Docs)

Fits == Docs <= MaxEntries /\ Estimate <= MaxTotal

-----------------------------------------------------------------------------
ZipInit ==
  /\ upload \in [DocIds -> Uploads]
  /\ Run!Init
  /\ zipPhase = "idle"
  /\ grown = [k \in DocIds |-> 0]
  /\ entries = <<>> /\ taken = [n \in {} |-> 0] /\ offset = 0
  /\ excluded = [k \in {} |-> "none"]

\* assertBatchFitsZip, before anything is signed.
SignBatchToZip ==
  /\ zipPhase = "idle"
  /\ zipPhase' = IF Fits THEN "running" ELSE "refused"
  /\ UNCHANGED <<upload, queueRunVars, grown, archiveVars, excluded>>

\* addPdf: the name is taken whether or not the bytes then fit.
AddPdf(k, bytes) ==
  IF Len(entries) >= MaxEntries THEN UNCHANGED archiveVars
  ELSE \E name \in {NameOf(upload[k])} \cup {Variant(NameOf(upload[k]), v) : v \in 2..(2 * Docs)} :
    /\ Resolved(NameOf(upload[k]), name, taken')
    /\ IF Projected(name, bytes) <= MaxTotal
       THEN /\ entries' = Append(entries, [doc |-> k, name |-> name, bytes |-> bytes])
            /\ offset' = offset + EntryBytes(name, bytes)
       ELSE UNCHANGED <<entries, offset>>

\* A document is signed and handed over to the archive.
DocumentSigned(k) ==
  /\ zipPhase = "running"
  /\ Run!Decide(k, "done")
  /\ \E g \in Growths : grown' = [grown EXCEPT ![k] = g] /\ AddPdf(k, upload[k].size + g)
  /\ UNCHANGED <<upload, zipPhase, excluded>>

\* Anything else the queue does.
QueueMoves ==
  /\ zipPhase = "running"
  /\ \E k \in DocIds :
       Run!Begin(k) \/ Run!Decide(k, "failed") \/ Run!Decide(k, "needs_review")
         \/ Run!GiveUp(k, "failed") \/ Run!GiveUp(k, "cancelled")
  /\ UNCHANGED <<upload, zipPhase, grown, archiveVars, excluded>>

InArchive == {entries[n].doc : n \in DOMAIN entries}

LeftOut ==
  {k \in DocIds : docStatus[k] \in {"failed", "needs_review", "cancelled"}}
    \cup {k \in DocIds : docStatus[k] = "done" /\ k \notin InArchive}

Deliver ==
  /\ zipPhase = "running"
  /\ Run!Return
  /\ zipPhase' = "delivered"
  /\ excluded' = [k \in LeftOut |-> IF docStatus[k] = "done" THEN "delivery_error" ELSE docStatus[k]]
  /\ UNCHANGED <<upload, grown, archiveVars>>

RunThrows ==
  /\ zipPhase = "running"
  /\ Run!Throw
  /\ zipPhase' = "threw"
  /\ UNCHANGED <<upload, grown, archiveVars, excluded>>

ZipNext ==
  \/ SignBatchToZip \/ QueueMoves \/ Deliver \/ RunThrows
  \/ \E k \in DocIds : DocumentSigned(k)

ZipSpec == ZipInit /\ [][ZipNext]_zipVars

-----------------------------------------------------------------------------
(* Properties.                                                             *)

ZipTypeOK ==
  /\ upload \in [DocIds -> Uploads]
  /\ zipPhase \in {"idle", "running", "refused", "threw", "delivered"}
  /\ \A n \in DOMAIN entries : entries[n].doc \in DocIds
  /\ DOMAIN excluded \subseteq DocIds

\* No two entries land on the same file when the archive is extracted.
NamesAreDistinct ==
  \A m, n \in DOMAIN entries :
    [entries[m].name EXCEPT !.upper = FALSE] = [entries[n].name EXCEPT !.upper = FALSE] => m = n

\* The archive can be closed at any moment without exceeding its limits.
ArchiveFits == Len(entries) <= MaxEntries /\ (entries # <<>> => ArchiveBytes <= MaxTotal)

\* A document of the batch is in the archive once or in the list of those left
\* out, never in both and never in neither.
NobodyIsLost ==
  zipPhase = "delivered" =>
    /\ InArchive \cup DOMAIN excluded = DocIds
    /\ InArchive \cap DOMAIN excluded = {}
    /\ Cardinality(InArchive) = Len(entries)

\* A batch that was accepted finds no document too big for the archive, as long
\* as no signature adds more than what is reserved for it.
AcceptedBatchFits ==
  (\A k \in DocIds : grown[k] <= Allowance) => \A k \in DocIds : docStatus[k] = "done" => k \in InArchive

\* What every state of an archive satisfies.
ZipInv ==
  /\ ZipTypeOK /\ NamesAreDistinct /\ ArchiveFits /\ NobodyIsLost /\ AcceptedBatchFits
=============================================================================
