----------------------------- MODULE CertOrders -----------------------------
(***************************************************************************)
(* The purchase of a certificate                                           *)
(* (apps/inbox-backend/src/services/cert-orders.ts, CertOrderService):     *)
(* one order, its checkout, and the confirmations of its payment, which    *)
(* may overlap and may be repeated.                                        *)
(*                                                                         *)
(* Orders share no state, so one is enough. Every step of a call ends at   *)
(* an await; other calls, the customer and a restart of the process may    *)
(* come in between. The order and the files are kept by a database         *)
(* (PrismaCertOrderStore) and a vault that outlive the process. Prices,    *)
(* contact data and the payload of the events are left out.                *)
(***************************************************************************)
EXTENDS Naturals, FiniteSets

CONSTANTS
  Calls,       \* calls of confirmPayment, at most one run each
  Overlap,     \* how many of them run at once
  MaxFailed,   \* bound: awaited calls that throw
  MaxRestarts  \* bound: restarts of the process

ASSUME OrdersAssumption ==
  /\ IsFiniteSet(Calls)
  /\ Overlap \in Nat \ {0}
  /\ MaxFailed \in Nat
  /\ MaxRestarts \in Nat

VARIABLES
  order,     \* the row of the order; NoOrder before store.create
  vault,     \* TRUE: the files of the order are in the vault
  requests,  \* the provider: the certificate requests it accepted
  payment,   \* the gateway: "none", then "open", then "paid"
  checkout,  \* where createCheckout is
  callPc,        \* where every confirmation is
  seen,      \* the row a confirmation read at its start
  answer,    \* what a confirmation answered
  failed, restarts

vars == <<order, vault, requests, payment, checkout, callPc, seen, answer, failed, restarts>>

OrderStatuses == {"PENDING_PAYMENT", "PAID", "SUBMITTED", "PAYMENT_FAILED", "SUBMIT_FAILED"}
NoOrder  == [status |-> "none", filesRef |-> FALSE, certCode |-> "none"]
NoAnswer == [status |-> "none", certCode |-> "none"]
Rejected == [status |-> "order_not_found", certCode |-> "none"]

\* The awaits of confirmPayment after its first read, in their order.
TryBlock == {"files", "request", "submit", "submittedEvent", "purge", "forget"}
Awaits == TryBlock \cup {"confirm", "declined", "declinedEvent", "paid", "paidEvent",
                         "giveUp", "giveUpEvent"}

\* The provider keeps one request, with one certCode, per idempotency key. The
\* code is named after the key: "order" is the id of the order.
Codes == {"order"} \cup Calls
CertRequests == [code : Codes, files : BOOLEAN]

Init ==
  /\ order = NoOrder
  /\ vault = FALSE
  /\ requests = {}
  /\ payment = "none"
  /\ checkout = "put"
  /\ callPc = [c \in Calls |-> "new"]
  /\ seen = [c \in Calls |-> NoOrder]
  /\ answer = [c \in Calls |-> NoAnswer]
  /\ failed = 0
  /\ restarts = 0

Running(c) == callPc[c] \in Awaits

-----------------------------------------------------------------------------
(* createCheckout                                                          *)

PutFiles ==
  /\ checkout = "put"
  /\ vault' = TRUE
  /\ checkout' = "prepare"
  /\ UNCHANGED <<order, requests, payment, callPc, seen, answer, failed, restarts>>

PreparePayment ==
  /\ checkout = "prepare"
  /\ payment' = "open"
  /\ checkout' = "create"
  /\ UNCHANGED <<order, vault, requests, callPc, seen, answer, failed, restarts>>

CreateOrder ==
  /\ checkout = "create"
  /\ order' = [status |-> "PENDING_PAYMENT", filesRef |-> TRUE, certCode |-> "none"]
  /\ checkout' = "event"
  /\ UNCHANGED <<vault, requests, payment, callPc, seen, answer, failed, restarts>>

CheckoutAnswers ==
  /\ checkout = "event"
  /\ checkout' = "done"
  /\ UNCHANGED <<order, vault, requests, payment, callPc, seen, answer, failed, restarts>>

CheckoutThrows ==
  /\ checkout \in {"put", "prepare", "create", "event"}
  /\ failed < MaxFailed
  /\ failed' = failed + 1
  /\ checkout' = "failed"
  /\ UNCHANGED <<order, vault, requests, payment, callPc, seen, answer, restarts>>

\* The customer pays on the page of the gateway, which only the answer of the
\* checkout names.
CustomerPays ==
  /\ checkout = "done"
  /\ payment = "open"
  /\ payment' = "paid"
  /\ UNCHANGED <<order, vault, requests, checkout, callPc, seen, answer, failed, restarts>>

-----------------------------------------------------------------------------
(* confirmPayment                                                          *)

\* A call goes on to its next await.
Goto(c, next) == callPc' = [callPc EXCEPT ![c] = next]

\* It is over, with this answer.
Ends(c, status, code) ==
  /\ Goto(c, "done")
  /\ answer' = [answer EXCEPT ![c] = [status |-> status, certCode |-> code]]

ReadOrder(c) ==
  /\ callPc[c] = "new"
  /\ Cardinality({d \in Calls : Running(d)}) < Overlap
  /\ seen' = [seen EXCEPT ![c] = order]
  /\ \/ order = NoOrder /\ Ends(c, Rejected.status, Rejected.certCode)
     \/ order.status = "SUBMITTED" /\ Ends(c, order.status, order.certCode)
     \/ order.status \in OrderStatuses \ {"SUBMITTED"} /\ Goto(c, "confirm") /\ UNCHANGED answer
  /\ UNCHANGED <<order, vault, requests, payment, checkout, failed, restarts>>

Approved == payment = "paid"

AskGateway(c) ==
  /\ callPc[c] = "confirm"
  /\ Goto(c, IF Approved THEN "paid" ELSE "declined")
  /\ UNCHANGED <<order, vault, requests, payment, checkout, seen, answer, failed, restarts>>

\* store.update with the status only.
SetStatus(status) == order' = [order EXCEPT !.status = status]

MarkDeclined(c) ==
  /\ callPc[c] = "declined"
  /\ SetStatus("PAYMENT_FAILED")
  /\ Goto(c, "declinedEvent")
  /\ UNCHANGED <<vault, requests, payment, checkout, seen, answer, failed, restarts>>

MarkPaid(c) ==
  /\ callPc[c] = "paid"
  /\ SetStatus("PAID")
  /\ Goto(c, "paidEvent")
  /\ UNCHANGED <<vault, requests, payment, checkout, seen, answer, failed, restarts>>

\* createCertificateRequest is called with the id of the order as its key.
KeyPerCall(c) == c \* mutant: a key per confirmation
KeyOf(c) == "order"

\* The addEvent calls of a confirmation, which only add to the trail. A failure
\* answers with the row read at the start.
LogEvent(c) ==
  /\ \/ callPc[c] = "declinedEvent" /\ Ends(c, "PAYMENT_FAILED", seen[c].certCode)
     \/ callPc[c] = "giveUpEvent" /\ Ends(c, "SUBMIT_FAILED", seen[c].certCode)
     \/ callPc[c] = "paidEvent" /\ Goto(c, IF seen[c].filesRef THEN "files" ELSE "request")
                            /\ UNCHANGED answer
     \/ callPc[c] = "submittedEvent" /\ seen[c].filesRef /\ Goto(c, "purge")
                                 /\ UNCHANGED answer
     \/ callPc[c] = "submittedEvent" /\ ~seen[c].filesRef /\ Ends(c, "SUBMITTED", KeyOf(c))
  /\ UNCHANGED <<order, vault, requests, payment, checkout, seen, failed, restarts>>

\* vault.get throws when the files were purged.
FetchFiles(c) ==
  /\ callPc[c] = "files"
  /\ Goto(c, IF vault THEN "request" ELSE "giveUp")
  /\ UNCHANGED <<order, vault, requests, payment, checkout, seen, answer, failed, restarts>>

Accepted(c) ==
  IF \E r \in requests : r.code = KeyOf(c) THEN requests
  ELSE requests \cup {[code |-> KeyOf(c), files |-> seen[c].filesRef]}

RequestCertificate(c) ==
  /\ callPc[c] = "request"
  /\ requests' = Accepted(c)
  /\ Goto(c, "submit")
  /\ UNCHANGED <<order, vault, payment, checkout, seen, answer, failed, restarts>>

MarkSubmitted(c) ==
  /\ callPc[c] = "submit"
  /\ order' = [order EXCEPT !.status = "SUBMITTED", !.certCode = KeyOf(c)]
  /\ Goto(c, "submittedEvent")
  /\ UNCHANGED <<vault, requests, payment, checkout, seen, answer, failed, restarts>>

PurgeFiles(c) ==
  /\ callPc[c] = "purge"
  /\ vault' = FALSE
  /\ Goto(c, "forget")
  /\ UNCHANGED <<order, requests, payment, checkout, seen, answer, failed, restarts>>

ForgetFiles(c) ==
  /\ callPc[c] = "forget"
  /\ order' = [order EXCEPT !.filesRef = FALSE]
  /\ Ends(c, "SUBMITTED", KeyOf(c))
  /\ UNCHANGED <<vault, requests, payment, checkout, seen, failed, restarts>>

GiveUpClearing(c) == \* mutant: the whole row is written back as it was read
  /\ callPc[c] = "giveUp"
  /\ order' = [seen[c] EXCEPT !.status = "SUBMIT_FAILED"]
  /\ Goto(c, "giveUpEvent")
  /\ UNCHANGED <<vault, requests, payment, checkout, seen, answer, failed, restarts>>

\* The catch block.
GiveUp(c) ==
  /\ callPc[c] = "giveUp"
  /\ SetStatus("SUBMIT_FAILED")
  /\ Goto(c, "giveUpEvent")
  /\ UNCHANGED <<vault, requests, payment, checkout, seen, answer, failed, restarts>>

\* The awaited call throws: inside the try block the catch block follows, and
\* elsewhere the confirmation rejects, which the route answers with 404. The
\* answer of the provider may be lost after it accepted the request.
Throws(c) ==
  /\ Running(c)
  /\ failed < MaxFailed
  /\ failed' = failed + 1
  /\ requests' \in {requests, IF callPc[c] = "request" THEN Accepted(c) ELSE requests}
  /\ IF callPc[c] \in TryBlock THEN Goto(c, "giveUp") /\ UNCHANGED answer
     ELSE Ends(c, Rejected.status, Rejected.certCode)
  /\ UNCHANGED <<order, vault, payment, checkout, seen, restarts>>

\* The process restarts: whoever was being served gets no answer.
Restart ==
  /\ restarts < MaxRestarts
  /\ checkout \notin {"done", "failed"} \/ \E c \in Calls : Running(c)
  /\ restarts' = restarts + 1
  /\ checkout' = IF checkout = "done" THEN "done" ELSE "failed"
  /\ callPc' = [c \in Calls |-> IF Running(c) THEN "done" ELSE callPc[c]]
  /\ UNCHANGED <<order, vault, requests, payment, seen, answer, failed>>

Confirmation(c) ==
  \/ ReadOrder(c) \/ AskGateway(c) \/ MarkDeclined(c) \/ MarkPaid(c) \/ LogEvent(c)
  \/ FetchFiles(c) \/ RequestCertificate(c) \/ MarkSubmitted(c)
  \/ PurgeFiles(c) \/ ForgetFiles(c) \/ GiveUp(c) \/ Throws(c)

Next ==
  \/ PutFiles \/ PreparePayment \/ CreateOrder \/ CheckoutAnswers \/ CheckoutThrows
  \/ CustomerPays \/ Restart
  \/ \E c \in Calls : Confirmation(c)

Spec == Init /\ [][Next]_vars

-----------------------------------------------------------------------------
(* Properties                                                              *)

Rows == [status : OrderStatuses, filesRef : BOOLEAN, certCode : Codes \cup {"none"}]

\* Every variable has its type, and the counters stay under their bounds.
TypeOK ==
  /\ order \in {NoOrder} \cup Rows
  /\ vault \in BOOLEAN
  /\ requests \subseteq CertRequests
  /\ payment \in {"none", "open", "paid"}
  /\ checkout \in {"put", "prepare", "create", "event", "done", "failed"}
  /\ callPc \in [Calls -> Awaits \cup {"new", "done"}]
  /\ seen \in [Calls -> {NoOrder} \cup Rows]
  /\ answer \in [Calls -> [status : OrderStatuses \cup {"none", "order_not_found"},
                          certCode : Codes \cup {"none"}]]
  /\ failed \in 0..MaxFailed
  /\ restarts \in 0..MaxRestarts

\* No certificate is requested for an order that was not paid for.
NothingUnpaid == requests # {} => payment = "paid"

\* The files of an order are kept until the provider has them.
FilesUntilRequested == (order # NoOrder /\ requests = {}) => vault

\* The row refers to the files for as long as they exist, so that they can still
\* be found and purged.
FilesStayReferenced == (order # NoOrder /\ vault) => order.filesRef

\* A certCode told to the customer is one the row keeps: no later confirmation
\* erases or replaces it.
CertCodeIsKept ==
  /\ \A c \in Calls : answer[c].certCode # "none" => answer[c].certCode = order.certCode
  /\ order.certCode # "none" => \E r \in requests : r.code = order.certCode

\* The one request of an order carries its identity files. A confirmation that
\* read the row after the purge sends none; it must be a repetition then.
RequestHasFiles == \A r \in requests : r.files

\* However many confirmations overlap, fail after the provider accepted, or are
\* repeated after a restart, the provider is asked for one certificate, because
\* the key of the request is the id of the order.
OneEmission == Cardinality(requests) <= 1

\* What every state of an order satisfies, overlapping confirmations or not.
OrderInv ==
  /\ TypeOK /\ NothingUnpaid /\ FilesUntilRequested /\ FilesStayReferenced
  /\ CertCodeIsKept /\ RequestHasFiles /\ OneEmission

-----------------------------------------------------------------------------
\* Said of the code but not kept by it (README, section 5).

\* A test: confirming is idempotent, every answer to a paid order names the same
\* certificate ("confirmar es idempotente (no doble emisión)").
ConfirmIsIdempotent ==
  \A c, d \in Calls :
    (answer[c].status = "SUBMITTED" /\ answer[d].status \in OrderStatuses \ {"PAYMENT_FAILED"})
      => answer[c].certCode = answer[d].certCode

\* A test: a rejected payment leaves no certCode ("pago rechazado ->
\* PAYMENT_FAILED, sin certCode").
FailedPaymentHasNoCert == order.status = "PAYMENT_FAILED" => order.certCode = "none"

\* The header: the files are purged after they were sent. Nobody purges them once
\* the order is SUBMITTED and no confirmation runs.
SentFilesArePurged ==
  (order.status = "SUBMITTED" /\ \A c \in Calls : ~Running(c)) => ~vault

=============================================================================
