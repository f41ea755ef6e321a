--------------------------- MODULE InboxLifecycle ---------------------------
(***************************************************************************)
(* The life of a document sent by WhatsApp (apps/inbox-backend):           *)
(* deliveries of the webhook (routes/webhook-wa.ts), the one-time code and *)
(* the session token (routes/inbox-verify.ts), the signed document going   *)
(* back (routes/outbox-send.ts) and the cleaner (services/ttl-cleaner.ts), *)
(* over one database, one object store (R2) and Redis.                     *)
(*                                                                         *)
(* Every delivery that gets so far makes a row, an object and a code of    *)
(* its own; all three are named after it. The same message may be          *)
(* delivered more than once. Codes are taken to be distinct. The clock     *)
(* counts ticks of five minutes, the cleaner's interval. Sizes, encryption *)
(* and the audit log (which never throws) are left out; a rate limit is    *)
(* one more way for a delivery to fail.                                    *)
(***************************************************************************)
EXTENDS Integers, FiniteSets

CONSTANTS
  Deliveries,  \* calls of the webhook with a PDF
  WaMessages,  \* messages they may be about
  Sends,       \* calls of /api/outbox/send
  OtpTtl, TokenTtl, RowTtl, Retention,  \* in ticks
  BatchSize,   \* rows of one sweep
  SlowSweeps,  \* FALSE: a sweep starts on time and is over within a tick
  LastArrival, LastTick, MaxFaults      \* bounds

ASSUME InboxAssumption ==
  /\ IsFiniteSet(Deliveries) /\ IsFiniteSet(WaMessages) /\ IsFiniteSet(Sends)
  /\ {OtpTtl, TokenTtl, RowTtl, Retention, BatchSize} \subseteq Nat \ {0}
  /\ OtpTtl < RowTtl
  /\ SlowSweeps \in BOOLEAN
  /\ {LastArrival, LastTick, MaxFaults} \subseteq Nat

VARIABLES
  now,
  rows,      \* PendingPdf, by id; NoRow where there is none
  objects,   \* keys in the object store
  codes,     \* Redis: when the code of a row expires, 0 if it is not there
  at, msg,   \* deliveries: where they are, and the message they carry
  linkAt,    \* when the link was sent, -1 if it was not
  token,     \* when the token issued for a row expires, 0 before it is issued
  sendAt, sendOf,  \* sends: where they are, and the row they are for
  delivered, \* history: the sends that reached WhatsApp, per row
  cleaner,   \* the sweep: what it does, since when, the rows left
  faults     \* awaited calls that failed

inboxVars == <<now, rows, objects, codes, at, msg, linkAt, token, sendAt, sendOf, delivered,
          cleaner, faults>>
webhook == <<at, msg, linkAt>>
outboxRoute  == <<sendAt, sendOf, delivered>>

NoRow == [status |-> "none", message |-> "none", ttlAt |-> 0, deletedAt |-> 0]
Statuses == {"PENDING", "SENT", "DELETED"}
HasRow(d) == rows[d] # NoRow

IdleCleaner == [pc |-> "idle", since |-> 0, left |-> {}, row |-> "none"]

InboxInit ==
  /\ now = 0
  /\ rows = [d \in Deliveries |-> NoRow]
  /\ objects = {}
  /\ codes = [d \in Deliveries |-> 0]
  /\ at = [d \in Deliveries |-> "new"]
  /\ msg \in [Deliveries -> WaMessages]
  /\ linkAt = [d \in Deliveries |-> -1]
  /\ token = [d \in Deliveries |-> 0]
  /\ sendAt = [s \in Sends |-> "new"]
  /\ sendOf \in [Sends -> Deliveries]
  /\ delivered = [d \in Deliveries |-> {}]
  /\ cleaner = IdleCleaner
  /\ faults = 0

MayFail == faults < MaxFaults /\ faults' = faults + 1

-----------------------------------------------------------------------------
(* POST /webhook/wa                                                        *)

RowOf(m) == {d \in Deliveries : HasRow(d) /\ rows[d].message = m}

\* The duplicate check. A delivery it lets through goes on to fetch the PDF.
Arrive(d) ==
  /\ at[d] = "new"
  /\ now <= LastArrival
  /\ at' = [at EXCEPT ![d] = IF RowOf(msg[d]) # {} THEN "duplicate" ELSE "upload"]
  /\ UNCHANGED <<now, rows, objects, codes, msg, linkAt, token, outboxRoute, cleaner, faults>>

\* The rate limits, the fetch and the upload.
Upload(d) ==
  /\ at[d] = "upload"
  /\ objects' = objects \cup {d}
  /\ at' = [at EXCEPT ![d] = "create"]
  /\ UNCHANGED <<now, rows, codes, msg, linkAt, token, outboxRoute, cleaner, faults>>

NewRow(d) == [status |-> "PENDING", message |-> msg[d], ttlAt |-> now + RowTtl, deletedAt |-> 0]

\* messageId is unique in the database: creating a second row throws.
UniqueNever(d) == TRUE  \* mutant: no unique index
Unique(d) == RowOf(msg[d]) = {}

Create(d) ==
  /\ at[d] = "create"
  /\ IF Unique(d)
     THEN rows' = [rows EXCEPT ![d] = NewRow(d)] /\ at' = [at EXCEPT ![d] = "store"]
     ELSE UNCHANGED rows /\ at' = [at EXCEPT ![d] = "failed"]
  /\ UNCHANGED <<now, objects, codes, msg, linkAt, token, outboxRoute, cleaner, faults>>

StoreCode(d) ==
  /\ at[d] = "store"
  /\ codes' = [codes EXCEPT ![d] = now + OtpTtl]
  /\ at' = [at EXCEPT ![d] = "notify"]
  /\ UNCHANGED <<now, rows, objects, msg, linkAt, token, outboxRoute, cleaner, faults>>

\* safeNotify: when it fails, only a log line says so.
Notify(d) ==
  /\ at[d] = "notify"
  /\ \/ linkAt' = [linkAt EXCEPT ![d] = now] /\ UNCHANGED faults
     \/ MayFail /\ UNCHANGED linkAt
  /\ at' = [at EXCEPT ![d] = "done"]
  /\ UNCHANGED <<now, rows, objects, codes, msg, token, outboxRoute, cleaner>>

\* Every other await of the webhook rejects the delivery when it fails, and a
\* restart of the process abandons it.
WebhookFails(d) ==
  /\ at[d] \in {"upload", "create", "store"}
  /\ MayFail
  /\ at' = [at EXCEPT ![d] = "failed"]
  /\ UNCHANGED <<now, rows, objects, codes, msg, linkAt, token, outboxRoute, cleaner>>

-----------------------------------------------------------------------------
(* POST /api/inbox/verify                                                  *)

Live(until) == now < until

\* The statuses verify turns away, EXPIRED and DELIVERED, are never written. It
\* reads Redis, then the row; the code is short-lived next to the row, so nothing
\* can change the outcome in between.
Verify(d) ==
  /\ linkAt[d] # -1
  /\ Live(codes[d])
  /\ HasRow(d)
  /\ token' = [token EXCEPT ![d] = now + TokenTtl]
  /\ token' # token
  /\ UNCHANGED <<now, rows, objects, codes, webhook, outboxRoute, cleaner, faults>>

-----------------------------------------------------------------------------
(* POST /api/outbox/send                                                   *)

SendGoes(s, next) == sendAt' = [sendAt EXCEPT ![s] = next]

FindRow(s) ==
  /\ sendAt[s] = "new"
  /\ Live(token[sendOf[s]])
  /\ SendGoes(s, IF HasRow(sendOf[s]) THEN "deliver" ELSE "failed")
  /\ UNCHANGED <<now, rows, objects, codes, webhook, token, sendOf, delivered, cleaner, faults>>

SendDocumentErasing(s) ==  \* mutant: the object is erased before the row says SENT
  /\ sendAt[s] = "deliver"
  /\ delivered' = [delivered EXCEPT ![sendOf[s]] = @ \cup {s}]
  /\ objects' = objects \ {sendOf[s]}
  /\ SendGoes(s, "mark")
  /\ UNCHANGED <<now, rows, codes, webhook, token, sendOf, cleaner, faults>>

\* findMessageJid and sendDocument.
SendDocument(s) ==
  /\ sendAt[s] = "deliver"
  /\ delivered' = [delivered EXCEPT ![sendOf[s]] = @ \cup {s}]
  /\ SendGoes(s, "mark")
  /\ UNCHANGED <<now, rows, objects, codes, webhook, token, sendOf, cleaner, faults>>

\* Prisma's update throws when the row is gone.
MarkSent(s) ==
  /\ sendAt[s] = "mark"
  /\ LET d == sendOf[s] IN
       IF HasRow(d)
       THEN rows' = [rows EXCEPT ![d].status = "SENT"] /\ SendGoes(s, "erase")
       ELSE UNCHANGED rows /\ SendGoes(s, "failed")
  /\ UNCHANGED <<now, objects, codes, webhook, token, sendOf, delivered, cleaner, faults>>

\* Best effort.
EraseSent(s) ==
  /\ sendAt[s] = "erase"
  /\ \/ objects' = objects \ {sendOf[s]} /\ UNCHANGED faults
     \/ MayFail /\ UNCHANGED objects
  /\ SendGoes(s, "done")
  /\ UNCHANGED <<now, rows, codes, webhook, token, sendOf, delivered, cleaner>>

\* The answer of sendDocument may be lost after WhatsApp took the document.
SendFails(s) ==
  /\ sendAt[s] \in {"deliver", "mark"}
  /\ MayFail
  /\ SendGoes(s, "failed")
  /\ UNCHANGED <<now, rows, objects, codes, webhook, token, sendOf, cleaner>>
  /\ \/ UNCHANGED delivered
     \/ sendAt[s] = "deliver"
        /\ delivered' = [delivered EXCEPT ![sendOf[s]] = @ \cup {s}]

-----------------------------------------------------------------------------
(* startTtlCleaner: tick                                                   *)

\* mutant: only rows nobody consumed are swept
ExpiredPending == {d \in Deliveries : rows[d].status = "PENDING" /\ rows[d].ttlAt < now}

Expired == {d \in Deliveries : /\ HasRow(d)
                               /\ rows[d].ttlAt < now
                               /\ rows[d].status # "DELETED"}

\* Rows of the first pass: at most BatchSize of them, in no particular order. The
\* timer of a sweep starts when the one before it ended.
StartSweep ==
  /\ cleaner.pc = "idle" /\ now > cleaner.since
  /\ \E batch \in SUBSET Expired :
       /\ batch = Expired \/ Cardinality(batch) = BatchSize
       /\ Cardinality(batch) <= BatchSize
       /\ cleaner' = [pc |-> "next", since |-> now, left |-> batch, row |-> "none"]
  /\ UNCHANGED <<now, rows, objects, codes, webhook, token, outboxRoute, faults>>

CleanerGoes(pc) == cleaner' = [cleaner EXCEPT !.pc = pc]

NextRow ==
  /\ cleaner.pc = "next"
  /\ \E d \in cleaner.left :
       cleaner' = [cleaner EXCEPT !.pc = "erase", !.left = @ \ {d}, !.row = d]
  /\ UNCHANGED <<now, rows, objects, codes, webhook, token, outboxRoute, faults>>

\* A missing object counts as deleted; when the store fails the row is skipped.
EraseExpired ==
  /\ cleaner.pc = "erase"
  /\ \/ objects' = objects \ {cleaner.row} /\ CleanerGoes("mark") /\ UNCHANGED faults
     \/ MayFail /\ CleanerGoes("next") /\ UNCHANGED objects
  /\ UNCHANGED <<now, rows, codes, webhook, token, outboxRoute>>

MarkDeleted ==
  /\ cleaner.pc = "mark"
  /\ LET d == cleaner.row IN
       \/ /\ HasRow(d)
          /\ rows' = [rows EXCEPT ![d].status = "DELETED", ![d].deletedAt = cleaner.since]
          /\ UNCHANGED faults
       \/ ~HasRow(d) /\ UNCHANGED <<rows, faults>>
       \/ MayFail /\ UNCHANGED rows
  /\ CleanerGoes("next")
  /\ UNCHANGED <<now, objects, codes, webhook, token, outboxRoute>>

Tombstones == {d \in Deliveries : /\ rows[d].status = "DELETED"
                                  /\ rows[d].deletedAt < cleaner.since - Retention}

\* The second pass ends the sweep, and the timer starts again.
DropTombstones ==
  /\ cleaner.pc = "next" /\ cleaner.left = {}
  /\ \/ rows' = [d \in Deliveries |-> IF d \in Tombstones THEN NoRow ELSE rows[d]]
        /\ UNCHANGED faults
     \/ MayFail /\ UNCHANGED rows
  /\ cleaner' = [IdleCleaner EXCEPT !.since = now]
  /\ UNCHANGED <<now, objects, codes, webhook, token, outboxRoute>>

\* The query throws, or the process restarts in the middle of a sweep.
SweepFails ==
  /\ cleaner.pc # "idle"
  /\ MayFail
  /\ cleaner' = [IdleCleaner EXCEPT !.since = now]
  /\ UNCHANGED <<now, rows, objects, codes, webhook, token, outboxRoute>>

Cleaner == StartSweep \/ NextRow \/ EraseExpired \/ MarkDeleted \/ DropTombstones

\* Five minutes are longer than the one call to Redis between the row and its
\* code. The other calls may take as long as they like.
Tick ==
  /\ now < LastTick
  /\ \A d \in Deliveries : at[d] # "store"
  /\ SlowSweeps \/ (cleaner.pc = "idle" /\ now = cleaner.since)
  /\ now' = now + 1
  /\ UNCHANGED <<rows, objects, codes, webhook, token, outboxRoute, cleaner, faults>>

InboxNext ==
  \/ Tick \/ Cleaner \/ SweepFails
  \/ \E d \in Deliveries : \/ Arrive(d) \/ Upload(d) \/ Create(d) \/ StoreCode(d)
                          \/ Notify(d) \/ WebhookFails(d) \/ Verify(d)
  \/ \E s \in Sends : \/ FindRow(s) \/ SendDocument(s) \/ MarkSent(s) \/ EraseSent(s)
                     \/ SendFails(s)

InboxSpec == InboxInit /\ [][InboxNext]_inboxVars

\* The clock goes on, and so does the cleaner: its timer is set again after every
\* sweep, whatever came of it. Nobody has to call a route, and a call that is going
\* on may never end, but for the one Tick relies on.
InboxFairness ==
  /\ WF_inboxVars(Tick) /\ WF_inboxVars(Cleaner)
  /\ \A d \in Deliveries : WF_inboxVars(StoreCode(d))
InboxFairSpec == InboxSpec /\ InboxFairness

-----------------------------------------------------------------------------
(* Properties                                                              *)

\* Every variable has its type, and the counters stay under their bounds.
InboxTypeOK ==
  /\ now \in 0..LastTick
  /\ rows \in [Deliveries -> {NoRow} \cup
       [status : Statuses, message : WaMessages, ttlAt : Nat, deletedAt : 0..LastTick]]
  /\ objects \subseteq Deliveries
  /\ codes \in [Deliveries -> 0..(LastTick + OtpTtl)]
  /\ at \in [Deliveries -> {"new", "duplicate", "upload", "create", "store", "notify",
                            "done", "failed"}]
  /\ msg \in [Deliveries -> WaMessages]
  /\ linkAt \in [Deliveries -> -1..LastTick]
  /\ token \in [Deliveries -> 0..(LastTick + TokenTtl)]
  /\ sendAt \in [Sends -> {"new", "deliver", "mark", "erase", "done", "failed"}]
  /\ sendOf \in [Sends -> Deliveries]
  /\ delivered \in [Deliveries -> SUBSET Sends]
  /\ cleaner \in [pc : {"idle", "next", "erase", "mark"}, since : 0..LastTick,
                  left : SUBSET Deliveries, row : Deliveries \cup {"none"}]
  /\ faults \in 0..MaxFaults

\* A document that the inbox lists can be opened: until its term is over, the
\* object of a pending row is there.
PendingHasObject ==
  \A d \in Deliveries :
    (rows[d].status = "PENDING" /\ now <= rows[d].ttlAt) => d \in objects

\* The code in a link leads to a row for as long as it works.
CodeLeadsToRow == \A d \in Deliveries : Live(codes[d]) => HasRow(d)

\* A row says SENT only if WhatsApp took the document.
SentWasDelivered == \A d \in Deliveries : rows[d].status = "SENT" => delivered[d] # {}

\* A row says DELETED only once its object is gone, since the cleaner does not look
\* at it again.
DeletedHasNoObject == \A d \in Deliveries : rows[d].status = "DELETED" => d \notin objects

\* A message has one row at a time, and one working code, however many times it is
\* delivered and however the deliveries overlap.
OneRowPerMessage ==
  \A d, e \in Deliveries :
    (d # e /\ msg[d] = msg[e]) => ~(HasRow(d) /\ HasRow(e)) /\ ~(Live(codes[d]) /\ Live(codes[e]))

\* What every state of the inbox satisfies.
InboxInv ==
  InboxTypeOK /\ PendingHasObject /\ CodeLeadsToRow /\ SentWasDelivered /\ DeletedHasNoObject
  /\ OneRowPerMessage

\* The ticks the cleaner needs, with every failure in the way.
Slack == RowTtl + Retention + MaxFaults + Cardinality(Deliveries) + 3
SendsOver(d) ==
  ~Live(token[d]) /\ ~Live(codes[d])
  /\ \A s \in Sends : sendOf[s] = d => sendAt[s] \notin {"deliver", "mark", "erase"}

\* Every row and its object go away in the end: also those of a document that was
\* sent and whose own deletion failed, and after failing sweeps. (Once no send is
\* at work on it, and when the bounded clock leaves the time.)
ExpiredIsErased ==
  \A d \in Deliveries :
    (HasRow(d) /\ at[d] \in {"done", "failed"} /\ SendsOver(d) /\ now + Slack <= LastTick)
      ~> (~HasRow(d) /\ d \notin objects)

-----------------------------------------------------------------------------
\* Said of the code but not kept by it (README, section 5).

\* The message to the sender: the link works for three ticks, "(15 min)".
LinkWorksAsSaid ==
  \A d \in Deliveries :
    (linkAt[d] # -1 /\ now - linkAt[d] < 3) => Live(codes[d])

\* The design: a session token is "Single-use (revocado en Redis al usar)".
TokenIsSingleUse == \A d \in Deliveries : Cardinality(delivered[d]) <= 1

=============================================================================
