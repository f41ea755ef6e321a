---------------------------- MODULE ServicesProofs ----------------------------
(***************************************************************************)
(* Theorems about the services behind the applications, for any number of  *)
(* requests, messages and sends and every value of the limits: certificate *)
(* orders, the provider's client, the usage counters, the rate limiter and *)
(* the inbox.                                                              *)
(***************************************************************************)
EXTENDS CertOrders, ProviderClient, UsageStats, TokenBucket, InboxLifecycle, TLAPS, FiniteSetTheorems,
        SequenceTheorems

-----------------------------------------------------------------------------
(* Certificate orders.                                                     *)

\* The checkout stores the files before anything else, the row is created last,
\* and the customer pays when the checkout has answered.
CheckoutAgrees ==
  /\ checkout \in {"put", "prepare", "create"} => order = NoOrder
  /\ checkout \in {"event", "done"} => order # NoOrder
  /\ checkout \in {"prepare", "create"} => vault
  /\ payment = "paid" => checkout = "done"

\* Every request has the code of the order and its files, and the row has no
\* other code, nor one that was not requested.
OneKey ==
  /\ \A r \in requests : r = [code |-> "order", files |-> TRUE]
  /\ order.certCode \in {"none", "order"}
  /\ order.certCode # "none" => requests # {}

\* What the row, the vault, the gateway and the provider have to do with each other.
RowInv == CheckoutAgrees /\ OneKey /\ NothingUnpaid /\ FilesUntilRequested /\ FilesStayReferenced

\* A confirmation that runs found the row, one that got past the gateway found the
\* payment approved, and what it did is there when its next await begins.
ProgressIsKept(c) ==
  /\ Running(c) => order # NoOrder /\ seen[c] # NoOrder
  /\ callPc[c] \in Awaits \ {"confirm", "declined", "declinedEvent"} => payment = "paid"
  /\ callPc[c] \in {"submit", "submittedEvent", "purge", "forget"} => requests # {}
  /\ callPc[c] \in {"submittedEvent", "purge", "forget"} => order.certCode = "order"
  /\ callPc[c] = "forget" => ~vault

\* The row a confirmation read is older than the row but not wrong, and neither is
\* its answer: the code is the row's, and files are not missed before the provider
\* has them.
OldIsNotWrong(c) ==
  /\ seen[c].certCode # "none" => seen[c].certCode = order.certCode
  /\ seen[c] # NoOrder /\ ~seen[c].filesRef => requests # {}
  /\ answer[c].certCode # "none" => answer[c].certCode = order.certCode

CallInv(c) == ProgressIsKept(c) /\ OldIsNotWrong(c)

OrderIInv == TypeOK /\ RowInv /\ \A c \in Calls : CallInv(c)

\* What no step takes back: the row, its code, the payment, a request, the purge.
Grows ==
  /\ order # NoOrder => order' # NoOrder /\ ~(~vault /\ vault')
  /\ order.certCode # "none" => order'.certCode = order.certCode
  /\ payment = "paid" => payment' = "paid"
  /\ requests \subseteq requests'

\* The confirmations outside S stay where they are.
StandStill(S) == \A d \in Calls \ S : UNCHANGED <<callPc[d], seen[d], answer[d]>>

\* Whatever others do, a confirmation finds what it relied on.
LEMMA OthersKeep ==
  ASSUME OrderIInv, TypeOK', RowInv', Grows, NEW S \in SUBSET Calls, StandStill(S),
    \A c \in S : CallInv(c)'
  PROVE  OrderIInv'
<1>1. ASSUME NEW d \in Calls \ S PROVE CallInv(d)'
  <2>1. callPc'[d] = callPc[d] /\ seen'[d] = seen[d] /\ answer'[d] = answer[d]
    BY <1>1 DEF StandStill
  <2>2. CallInv(d)
    BY <1>1 DEF OrderIInv
  <2>3. ProgressIsKept(d)'
    BY <2>1, <2>2 DEF CallInv, ProgressIsKept, Running, Awaits, TryBlock, Grows, NoOrder
  <2>4. OldIsNotWrong(d)'
    BY <2>1, <2>2 DEF CallInv, OldIsNotWrong, Grows
  <2> QED
    BY <2>3, <2>4 DEF CallInv
<1> QED
  BY <1>1 DEF OrderIInv

LEMMA OrderInit == OrdersAssumption /\ Init => OrderIInv
<1> SUFFICES ASSUME OrdersAssumption, Init PROVE OrderIInv
  OBVIOUS
<1>1. TypeOK
  <2>1. /\ callPc \in [Calls -> Awaits \cup {"new", "done"}]
        /\ seen \in [Calls -> {NoOrder} \cup Rows]
    BY DEF Init
  <2>2. answer \in [Calls -> [status : OrderStatuses \cup {"none", "order_not_found"},
                              certCode : Codes \cup {"none"}]]
    BY DEF Init, NoAnswer
  <2>3. failed \in 0..MaxFailed /\ restarts \in 0..MaxRestarts
    BY DEF Init, OrdersAssumption
  <2> QED
    BY <2>1, <2>2, <2>3 DEF Init, TypeOK
<1>2. RowInv
  BY DEF Init, RowInv, CheckoutAgrees, OneKey, NothingUnpaid, FilesUntilRequested,
    FilesStayReferenced, NoOrder
<1>3. \A c \in Calls : CallInv(c)
  BY DEF Init, CallInv, ProgressIsKept, OldIsNotWrong, Running, Awaits, TryBlock, NoOrder, NoAnswer
<1> QED
  BY <1>1, <1>2, <1>3 DEF OrderIInv

\* The files are stored.
LEMMA PutFilesKeeps ==
  ASSUME OrderIInv, PutFiles
  PROVE  OrderIInv'
<1> USE DEF OrderIInv, NoOrder
<1>1. TypeOK'
  BY DEF PutFiles, TypeOK, Rows, OrderStatuses, Awaits, TryBlock, Codes, CallInv, ProgressIsKept,
    Running
<1>2. RowInv'
  BY DEF PutFiles, TypeOK, Rows, RowInv, CheckoutAgrees, OneKey, NothingUnpaid,
    FilesUntilRequested, FilesStayReferenced, CallInv, ProgressIsKept, Running, Awaits, TryBlock
<1>3. Grows /\ StandStill({})
  BY DEF PutFiles, TypeOK, Rows, RowInv, CheckoutAgrees, OneKey, NothingUnpaid,
    FilesUntilRequested, FilesStayReferenced, Grows, StandStill, CallInv, ProgressIsKept,
    Running, Awaits, TryBlock
<1> QED
  BY <1>1, <1>2, <1>3, OthersKeep

\* The gateway opens a payment, before there is a row.
LEMMA PreparePaymentKeeps ==
  ASSUME OrderIInv, PreparePayment
  PROVE  OrderIInv'
<1> USE DEF OrderIInv, NoOrder
<1>1. TypeOK'
  BY DEF PreparePayment, TypeOK, Rows, OrderStatuses, Awaits, TryBlock, Codes, CallInv,
    ProgressIsKept, Running
<1>2. RowInv'
  BY DEF PreparePayment, TypeOK, Rows, RowInv, CheckoutAgrees, OneKey, NothingUnpaid,
    FilesUntilRequested, FilesStayReferenced, CallInv, ProgressIsKept, Running, Awaits, TryBlock
<1>3. Grows /\ StandStill({})
  BY DEF PreparePayment, TypeOK, Rows, RowInv, CheckoutAgrees, OneKey, NothingUnpaid,
    FilesUntilRequested, FilesStayReferenced, Grows, StandStill, CallInv, ProgressIsKept,
    Running, Awaits, TryBlock
<1> QED
  BY <1>1, <1>2, <1>3, OthersKeep

\* The row is created, over files that are there.
LEMMA CreateOrderKeeps ==
  ASSUME OrderIInv, CreateOrder
  PROVE  OrderIInv'
<1> USE DEF OrderIInv, NoOrder
<1>1. TypeOK'
  BY DEF CreateOrder, TypeOK, Rows, OrderStatuses, Awaits, TryBlock, Codes, CallInv,
    ProgressIsKept, Running
<1>2. RowInv'
  BY DEF CreateOrder, TypeOK, Rows, RowInv, CheckoutAgrees, OneKey, NothingUnpaid,
    FilesUntilRequested, FilesStayReferenced, CallInv, ProgressIsKept, Running, Awaits, TryBlock
<1>3. Grows /\ StandStill({})
  BY DEF CreateOrder, TypeOK, Rows, RowInv, CheckoutAgrees, OneKey, NothingUnpaid,
    FilesUntilRequested, FilesStayReferenced, Grows, StandStill, CallInv, ProgressIsKept,
    Running, Awaits, TryBlock
<1> QED
  BY <1>1, <1>2, <1>3, OthersKeep

\* The checkout has answered.
LEMMA CheckoutAnswersKeeps ==
  ASSUME OrderIInv, CheckoutAnswers
  PROVE  OrderIInv'
<1> USE DEF OrderIInv, NoOrder
<1>1. TypeOK'
  BY DEF CheckoutAnswers, TypeOK, Rows, OrderStatuses, Awaits, TryBlock, Codes, CallInv,
    ProgressIsKept, Running
<1>2. RowInv'
  BY DEF CheckoutAnswers, TypeOK, Rows, RowInv, CheckoutAgrees, OneKey, NothingUnpaid,
    FilesUntilRequested, FilesStayReferenced, CallInv, ProgressIsKept, Running, Awaits, TryBlock
<1>3. Grows /\ StandStill({})
  BY DEF CheckoutAnswers, TypeOK, Rows, RowInv, CheckoutAgrees, OneKey, NothingUnpaid,
    FilesUntilRequested, FilesStayReferenced, Grows, StandStill, CallInv, ProgressIsKept,
    Running, Awaits, TryBlock
<1> QED
  BY <1>1, <1>2, <1>3, OthersKeep

\* A checkout that fails never gets paid.
LEMMA CheckoutThrowsKeeps ==
  ASSUME OrderIInv, CheckoutThrows
  PROVE  OrderIInv'
<1> USE DEF OrderIInv, NoOrder
<1>1. TypeOK'
  BY OrdersAssumption DEF CheckoutThrows, TypeOK, Rows, OrderStatuses, Awaits, TryBlock, Codes,
    CallInv, ProgressIsKept, Running
<1>2. RowInv'
  BY DEF CheckoutThrows, TypeOK, Rows, RowInv, CheckoutAgrees, OneKey, NothingUnpaid,
    FilesUntilRequested, FilesStayReferenced, CallInv, ProgressIsKept, Running, Awaits, TryBlock
<1>3. Grows /\ StandStill({})
  BY DEF CheckoutThrows, TypeOK, Rows, RowInv, CheckoutAgrees, OneKey, NothingUnpaid,
    FilesUntilRequested, FilesStayReferenced, Grows, StandStill, CallInv, ProgressIsKept,
    Running, Awaits, TryBlock
<1> QED
  BY <1>1, <1>2, <1>3, OthersKeep

\* The customer pays.
LEMMA CustomerPaysKeeps ==
  ASSUME OrderIInv, CustomerPays
  PROVE  OrderIInv'
<1> USE DEF OrderIInv, NoOrder
<1>1. TypeOK'
  BY DEF CustomerPays, TypeOK, Rows, OrderStatuses, Awaits, TryBlock, Codes, CallInv,
    ProgressIsKept, Running
<1>2. RowInv'
  BY DEF CustomerPays, TypeOK, Rows, RowInv, CheckoutAgrees, OneKey, NothingUnpaid,
    FilesUntilRequested, FilesStayReferenced, CallInv, ProgressIsKept, Running, Awaits, TryBlock
<1>3. Grows /\ StandStill({})
  BY DEF CustomerPays, TypeOK, Rows, RowInv, CheckoutAgrees, OneKey, NothingUnpaid,
    FilesUntilRequested, FilesStayReferenced, Grows, StandStill, CallInv, ProgressIsKept,
    Running, Awaits, TryBlock
<1> QED
  BY <1>1, <1>2, <1>3, OthersKeep

\* The row that is read is the row.
LEMMA ReadOrderKeeps ==
  ASSUME OrderIInv, NEW c \in Calls, ReadOrder(c)
  PROVE  OrderIInv'
<1> USE DEF OrderIInv, NoOrder
<1>0. CallInv(c)
  OBVIOUS
<1>1. TypeOK'
  BY <1>0 DEF ReadOrder, Goto, Ends, Rejected, OrderStatuses, TypeOK, Rows, OrderStatuses,
    Awaits, TryBlock, Codes, CallInv, ProgressIsKept, Running
<1>2. RowInv'
  BY <1>0 DEF ReadOrder, Goto, Ends, Rejected, OrderStatuses, TypeOK, Rows, RowInv,
    CheckoutAgrees, OneKey, NothingUnpaid, FilesUntilRequested, FilesStayReferenced, CallInv,
    ProgressIsKept, Running, Awaits, TryBlock
<1>3. Grows /\ StandStill({c})
  BY <1>0 DEF ReadOrder, Goto, Ends, Rejected, OrderStatuses, TypeOK, Rows, RowInv,
    CheckoutAgrees, OneKey, NothingUnpaid, FilesUntilRequested, FilesStayReferenced, Grows,
    StandStill, CallInv, ProgressIsKept, Running, Awaits, TryBlock
<1>4. ProgressIsKept(c)'
  BY <1>0 DEF ReadOrder, Goto, Ends, Rejected, OrderStatuses, TypeOK, Rows, CallInv,
    ProgressIsKept, Running, Awaits, TryBlock
<1>5. OldIsNotWrong(c)'
  BY <1>0 DEF ReadOrder, Goto, Ends, Rejected, OrderStatuses, TypeOK, Rows, RowInv, OneKey,
    FilesUntilRequested, FilesStayReferenced, CallInv, ProgressIsKept, OldIsNotWrong, Running,
    Awaits, TryBlock
<1> QED
  BY <1>1, <1>2, <1>3, <1>4, <1>5, OthersKeep DEF CallInv

\* A call gets past the gateway when the payment was approved.
LEMMA AskGatewayKeeps ==
  ASSUME OrderIInv, NEW c \in Calls, AskGateway(c)
  PROVE  OrderIInv'
<1> USE DEF OrderIInv, NoOrder
<1>0. CallInv(c)
  OBVIOUS
<1>1. TypeOK'
  BY <1>0 DEF AskGateway, Goto, Approved, TypeOK, Rows, OrderStatuses, Awaits, TryBlock, Codes,
    CallInv, ProgressIsKept, Running
<1>2. RowInv'
  BY <1>0 DEF AskGateway, Goto, Approved, TypeOK, Rows, RowInv, CheckoutAgrees, OneKey,
    NothingUnpaid, FilesUntilRequested, FilesStayReferenced, CallInv, ProgressIsKept, Running,
    Awaits, TryBlock
<1>3. Grows /\ StandStill({c})
  BY <1>0 DEF AskGateway, Goto, Approved, TypeOK, Rows, RowInv, CheckoutAgrees, OneKey,
    NothingUnpaid, FilesUntilRequested, FilesStayReferenced, Grows, StandStill, CallInv,
    ProgressIsKept, Running, Awaits, TryBlock
<1>4. ProgressIsKept(c)'
  BY <1>0 DEF AskGateway, Goto, Approved, TypeOK, Rows, CallInv, ProgressIsKept, Running, Awaits,
    TryBlock
<1>5. OldIsNotWrong(c)'
  BY <1>0 DEF AskGateway, Goto, Approved, TypeOK, Rows, RowInv, OneKey, FilesUntilRequested,
    FilesStayReferenced, CallInv, ProgressIsKept, OldIsNotWrong, Running, Awaits, TryBlock
<1> QED
  BY <1>1, <1>2, <1>3, <1>4, <1>5, OthersKeep DEF CallInv

\* A declined payment changes the status only.
LEMMA MarkDeclinedKeeps ==
  ASSUME OrderIInv, NEW c \in Calls, MarkDeclined(c)
  PROVE  OrderIInv'
<1> USE DEF OrderIInv, NoOrder
<1>0. CallInv(c)
  OBVIOUS
<1>1. TypeOK'
  BY <1>0 DEF MarkDeclined, Goto, SetStatus, TypeOK, Rows, OrderStatuses, Awaits, TryBlock,
    Codes, CallInv, ProgressIsKept, Running
<1>2. RowInv'
  BY <1>0 DEF MarkDeclined, Goto, SetStatus, TypeOK, Rows, RowInv, CheckoutAgrees, OneKey,
    NothingUnpaid, FilesUntilRequested, FilesStayReferenced, CallInv, ProgressIsKept, Running,
    Awaits, TryBlock
<1>3. Grows /\ StandStill({c})
  BY <1>0 DEF MarkDeclined, Goto, SetStatus, TypeOK, Rows, RowInv, CheckoutAgrees, OneKey,
    NothingUnpaid, FilesUntilRequested, FilesStayReferenced, Grows, StandStill, CallInv,
    ProgressIsKept, Running, Awaits, TryBlock
<1>4. ProgressIsKept(c)'
  BY <1>0 DEF MarkDeclined, Goto, SetStatus, TypeOK, Rows, CallInv, ProgressIsKept, Running,
    Awaits, TryBlock
<1>5. OldIsNotWrong(c)'
  BY <1>0 DEF MarkDeclined, Goto, SetStatus, TypeOK, Rows, RowInv, OneKey, FilesUntilRequested,
    FilesStayReferenced, CallInv, ProgressIsKept, OldIsNotWrong, Running, Awaits, TryBlock
<1> QED
  BY <1>1, <1>2, <1>3, <1>4, <1>5, OthersKeep DEF CallInv

\* So does an approved one.
LEMMA MarkPaidKeeps ==
  ASSUME OrderIInv, NEW c \in Calls, MarkPaid(c)
  PROVE  OrderIInv'
<1> USE DEF OrderIInv, NoOrder
<1>0. CallInv(c)
  OBVIOUS
<1>1. TypeOK'
  BY <1>0 DEF MarkPaid, Goto, SetStatus, TypeOK, Rows, OrderStatuses, Awaits, TryBlock, Codes,
    CallInv, ProgressIsKept, Running
<1>2. RowInv'
  BY <1>0 DEF MarkPaid, Goto, SetStatus, TypeOK, Rows, RowInv, CheckoutAgrees, OneKey,
    NothingUnpaid, FilesUntilRequested, FilesStayReferenced, CallInv, ProgressIsKept, Running,
    Awaits, TryBlock
<1>3. Grows /\ StandStill({c})
  BY <1>0 DEF MarkPaid, Goto, SetStatus, TypeOK, Rows, RowInv, CheckoutAgrees, OneKey,
    NothingUnpaid, FilesUntilRequested, FilesStayReferenced, Grows, StandStill, CallInv,
    ProgressIsKept, Running, Awaits, TryBlock
<1>4. ProgressIsKept(c)'
  BY <1>0 DEF MarkPaid, Goto, SetStatus, TypeOK, Rows, CallInv, ProgressIsKept, Running, Awaits,
    TryBlock
<1>5. OldIsNotWrong(c)'
  BY <1>0 DEF MarkPaid, Goto, SetStatus, TypeOK, Rows, RowInv, OneKey, FilesUntilRequested,
    FilesStayReferenced, CallInv, ProgressIsKept, OldIsNotWrong, Running, Awaits, TryBlock
<1> QED
  BY <1>1, <1>2, <1>3, <1>4, <1>5, OthersKeep DEF CallInv

\* An answer has the code of the row that was read, or the one just written.
LEMMA LogEventKeeps ==
  ASSUME OrderIInv, NEW c \in Calls, LogEvent(c)
  PROVE  OrderIInv'
<1> USE DEF OrderIInv, NoOrder
<1>0. CallInv(c)
  OBVIOUS
<1>1. TypeOK'
  BY <1>0 DEF LogEvent, Goto, Ends, KeyOf, TypeOK, Rows, OrderStatuses, Awaits, TryBlock, Codes,
    CallInv, ProgressIsKept, Running
<1>2. RowInv'
  BY <1>0 DEF LogEvent, Goto, Ends, KeyOf, TypeOK, Rows, RowInv, CheckoutAgrees, OneKey,
    NothingUnpaid, FilesUntilRequested, FilesStayReferenced, CallInv, ProgressIsKept, Running,
    Awaits, TryBlock
<1>3. Grows /\ StandStill({c})
  BY <1>0 DEF LogEvent, Goto, Ends, KeyOf, TypeOK, Rows, RowInv, CheckoutAgrees, OneKey,
    NothingUnpaid, FilesUntilRequested, FilesStayReferenced, Grows, StandStill, CallInv,
    ProgressIsKept, Running, Awaits, TryBlock
<1>4. ProgressIsKept(c)'
  BY <1>0 DEF LogEvent, Goto, Ends, KeyOf, TypeOK, Rows, CallInv, ProgressIsKept, Running,
    Awaits, TryBlock
<1>5. OldIsNotWrong(c)'
  BY <1>0 DEF LogEvent, Goto, Ends, KeyOf, TypeOK, Rows, RowInv, OneKey, FilesUntilRequested,
    FilesStayReferenced, CallInv, ProgressIsKept, OldIsNotWrong, Running, Awaits, TryBlock
<1> QED
  BY <1>1, <1>2, <1>3, <1>4, <1>5, OthersKeep DEF CallInv

\* Files that are missing were purged, and the call gives up.
LEMMA FetchFilesKeeps ==
  ASSUME OrderIInv, NEW c \in Calls, FetchFiles(c)
  PROVE  OrderIInv'
<1> USE DEF OrderIInv, NoOrder
<1>0. CallInv(c)
  OBVIOUS
<1>1. TypeOK'
  BY <1>0 DEF FetchFiles, Goto, TypeOK, Rows, OrderStatuses, Awaits, TryBlock, Codes, CallInv,
    ProgressIsKept, Running
<1>2. RowInv'
  BY <1>0 DEF FetchFiles, Goto, TypeOK, Rows, RowInv, CheckoutAgrees, OneKey, NothingUnpaid,
    FilesUntilRequested, FilesStayReferenced, CallInv, ProgressIsKept, Running, Awaits, TryBlock
<1>3. Grows /\ StandStill({c})
  BY <1>0 DEF FetchFiles, Goto, TypeOK, Rows, RowInv, CheckoutAgrees, OneKey, NothingUnpaid,
    FilesUntilRequested, FilesStayReferenced, Grows, StandStill, CallInv, ProgressIsKept,
    Running, Awaits, TryBlock
<1>4. ProgressIsKept(c)'
  BY <1>0 DEF FetchFiles, Goto, TypeOK, Rows, CallInv, ProgressIsKept, Running, Awaits, TryBlock
<1>5. OldIsNotWrong(c)'
  BY <1>0 DEF FetchFiles, Goto, TypeOK, Rows, RowInv, OneKey, FilesUntilRequested,
    FilesStayReferenced, CallInv, ProgressIsKept, OldIsNotWrong, Running, Awaits, TryBlock
<1> QED
  BY <1>1, <1>2, <1>3, <1>4, <1>5, OthersKeep DEF CallInv

\* The provider has one request per key. A call that read a row without files finds one.
LEMMA RequestCertificateKeeps ==
  ASSUME OrderIInv, NEW c \in Calls, RequestCertificate(c)
  PROVE  OrderIInv'
<1> USE DEF OrderIInv, NoOrder
<1>0. CallInv(c)
  OBVIOUS
<1>1. TypeOK'
  BY <1>0 DEF RequestCertificate, Goto, Accepted, KeyOf, CertRequests, Codes, TypeOK, Rows,
    OrderStatuses, Awaits, TryBlock, Codes, CallInv, ProgressIsKept, Running
<1>2. RowInv'
  BY <1>0 DEF RequestCertificate, Goto, Accepted, KeyOf, CertRequests, Codes, TypeOK, Rows,
    RowInv, CheckoutAgrees, OneKey, NothingUnpaid, FilesUntilRequested, FilesStayReferenced,
    CallInv, ProgressIsKept, Running, Awaits, TryBlock, OldIsNotWrong
<1>3. Grows /\ StandStill({c})
  BY <1>0 DEF RequestCertificate, Goto, Accepted, KeyOf, CertRequests, Codes, TypeOK, Rows,
    RowInv, CheckoutAgrees, OneKey, NothingUnpaid, FilesUntilRequested, FilesStayReferenced,
    Grows, StandStill, CallInv, ProgressIsKept, Running, Awaits, TryBlock
<1>4. ProgressIsKept(c)'
  BY <1>0 DEF RequestCertificate, Goto, Accepted, KeyOf, CertRequests, Codes, TypeOK, Rows,
    CallInv, ProgressIsKept, Running, Awaits, TryBlock
<1>5. OldIsNotWrong(c)'
  BY <1>0 DEF RequestCertificate, Goto, Accepted, KeyOf, CertRequests, Codes, TypeOK, Rows,
    RowInv, OneKey, FilesUntilRequested, FilesStayReferenced, CallInv, ProgressIsKept,
    OldIsNotWrong, Running, Awaits, TryBlock
<1> QED
  BY <1>1, <1>2, <1>3, <1>4, <1>5, OthersKeep DEF CallInv

\* The row gets the code of the request.
LEMMA MarkSubmittedKeeps ==
  ASSUME OrderIInv, NEW c \in Calls, MarkSubmitted(c)
  PROVE  OrderIInv'
<1> USE DEF OrderIInv, NoOrder
<1>0. CallInv(c)
  OBVIOUS
<1>1. TypeOK'
  BY <1>0 DEF MarkSubmitted, Goto, KeyOf, TypeOK, Rows, OrderStatuses, Awaits, TryBlock, Codes,
    CallInv, ProgressIsKept, Running
<1>2. RowInv'
  BY <1>0 DEF MarkSubmitted, Goto, KeyOf, TypeOK, Rows, RowInv, CheckoutAgrees, OneKey,
    NothingUnpaid, FilesUntilRequested, FilesStayReferenced, CallInv, ProgressIsKept, Running,
    Awaits, TryBlock
<1>3. Grows /\ StandStill({c})
  BY <1>0 DEF MarkSubmitted, Goto, KeyOf, TypeOK, Rows, RowInv, CheckoutAgrees, OneKey,
    NothingUnpaid, FilesUntilRequested, FilesStayReferenced, Grows, StandStill, CallInv,
    ProgressIsKept, Running, Awaits, TryBlock
<1>4. ProgressIsKept(c)'
  BY <1>0 DEF MarkSubmitted, Goto, KeyOf, TypeOK, Rows, CallInv, ProgressIsKept, Running, Awaits,
    TryBlock
<1>5. OldIsNotWrong(c)'
  BY <1>0 DEF MarkSubmitted, Goto, KeyOf, TypeOK, Rows, RowInv, OneKey, FilesUntilRequested,
    FilesStayReferenced, CallInv, ProgressIsKept, OldIsNotWrong, Running, Awaits, TryBlock
<1> QED
  BY <1>1, <1>2, <1>3, <1>4, <1>5, OthersKeep DEF CallInv

\* The files go when the provider has them.
LEMMA PurgeFilesKeeps ==
  ASSUME OrderIInv, NEW c \in Calls, PurgeFiles(c)
  PROVE  OrderIInv'
<1> USE DEF OrderIInv, NoOrder
<1>0. CallInv(c)
  OBVIOUS
<1>1. TypeOK'
  BY <1>0 DEF PurgeFiles, Goto, TypeOK, Rows, OrderStatuses, Awaits, TryBlock, Codes, CallInv,
    ProgressIsKept, Running
<1>2. RowInv'
  BY <1>0 DEF PurgeFiles, Goto, TypeOK, Rows, RowInv, CheckoutAgrees, OneKey, NothingUnpaid,
    FilesUntilRequested, FilesStayReferenced, CallInv, ProgressIsKept, Running, Awaits, TryBlock
<1>3. Grows /\ StandStill({c})
  BY <1>0 DEF PurgeFiles, Goto, TypeOK, Rows, RowInv, CheckoutAgrees, OneKey, NothingUnpaid,
    FilesUntilRequested, FilesStayReferenced, Grows, StandStill, CallInv, ProgressIsKept,
    Running, Awaits, TryBlock
<1>4. ProgressIsKept(c)'
  BY <1>0 DEF PurgeFiles, Goto, TypeOK, Rows, CallInv, ProgressIsKept, Running, Awaits, TryBlock
<1>5. OldIsNotWrong(c)'
  BY <1>0 DEF PurgeFiles, Goto, TypeOK, Rows, RowInv, OneKey, FilesUntilRequested,
    FilesStayReferenced, CallInv, ProgressIsKept, OldIsNotWrong, Running, Awaits, TryBlock
<1> QED
  BY <1>1, <1>2, <1>3, <1>4, <1>5, OthersKeep DEF CallInv

\* The row forgets them when they are gone.
LEMMA ForgetFilesKeeps ==
  ASSUME OrderIInv, NEW c \in Calls, ForgetFiles(c)
  PROVE  OrderIInv'
<1> USE DEF OrderIInv, NoOrder
<1>0. CallInv(c)
  OBVIOUS
<1>1. TypeOK'
  BY <1>0 DEF ForgetFiles, Goto, Ends, KeyOf, TypeOK, Rows, OrderStatuses, Awaits, TryBlock,
    Codes, CallInv, ProgressIsKept, Running
<1>2. RowInv'
  BY <1>0 DEF ForgetFiles, Goto, Ends, KeyOf, TypeOK, Rows, RowInv, CheckoutAgrees, OneKey,
    NothingUnpaid, FilesUntilRequested, FilesStayReferenced, CallInv, ProgressIsKept, Running,
    Awaits, TryBlock
<1>3. Grows /\ StandStill({c})
  BY <1>0 DEF ForgetFiles, Goto, Ends, KeyOf, TypeOK, Rows, RowInv, CheckoutAgrees, OneKey,
    NothingUnpaid, FilesUntilRequested, FilesStayReferenced, Grows, StandStill, CallInv,
    ProgressIsKept, Running, Awaits, TryBlock
<1>4. ProgressIsKept(c)'
  BY <1>0 DEF ForgetFiles, Goto, Ends, KeyOf, TypeOK, Rows, CallInv, ProgressIsKept, Running,
    Awaits, TryBlock
<1>5. OldIsNotWrong(c)'
  BY <1>0 DEF ForgetFiles, Goto, Ends, KeyOf, TypeOK, Rows, RowInv, OneKey, FilesUntilRequested,
    FilesStayReferenced, CallInv, ProgressIsKept, OldIsNotWrong, Running, Awaits, TryBlock
<1> QED
  BY <1>1, <1>2, <1>3, <1>4, <1>5, OthersKeep DEF CallInv

\* The catch block changes the status only.
LEMMA GiveUpKeeps ==
  ASSUME OrderIInv, NEW c \in Calls, GiveUp(c)
  PROVE  OrderIInv'
<1> USE DEF OrderIInv, NoOrder
<1>0. CallInv(c)
  OBVIOUS
<1>1. TypeOK'
  BY <1>0 DEF GiveUp, Goto, SetStatus, TypeOK, Rows, OrderStatuses, Awaits, TryBlock, Codes,
    CallInv, ProgressIsKept, Running
<1>2. RowInv'
  BY <1>0 DEF GiveUp, Goto, SetStatus, TypeOK, Rows, RowInv, CheckoutAgrees, OneKey,
    NothingUnpaid, FilesUntilRequested, FilesStayReferenced, CallInv, ProgressIsKept, Running,
    Awaits, TryBlock
<1>3. Grows /\ StandStill({c})
  BY <1>0 DEF GiveUp, Goto, SetStatus, TypeOK, Rows, RowInv, CheckoutAgrees, OneKey,
    NothingUnpaid, FilesUntilRequested, FilesStayReferenced, Grows, StandStill, CallInv,
    ProgressIsKept, Running, Awaits, TryBlock
<1>4. ProgressIsKept(c)'
  BY <1>0 DEF GiveUp, Goto, SetStatus, TypeOK, Rows, CallInv, ProgressIsKept, Running, Awaits,
    TryBlock
<1>5. OldIsNotWrong(c)'
  BY <1>0 DEF GiveUp, Goto, SetStatus, TypeOK, Rows, RowInv, OneKey, FilesUntilRequested,
    FilesStayReferenced, CallInv, ProgressIsKept, OldIsNotWrong, Running, Awaits, TryBlock
<1> QED
  BY <1>1, <1>2, <1>3, <1>4, <1>5, OthersKeep DEF CallInv

\* The provider may have accepted the request whose answer was lost.
LEMMA ThrowsKeeps ==
  ASSUME OrderIInv, NEW c \in Calls, Throws(c)
  PROVE  OrderIInv'
<1> USE DEF OrderIInv, NoOrder
<1>0. CallInv(c)
  OBVIOUS
<1>1. TypeOK'
  BY <1>0, OrdersAssumption DEF Throws, Goto, Ends, Accepted, KeyOf, CertRequests, Codes,
    Rejected, TypeOK, Rows, OrderStatuses, Awaits, TryBlock, Codes, CallInv, ProgressIsKept, Running
<1>2. RowInv'
  BY <1>0 DEF Throws, Goto, Ends, Accepted, KeyOf, CertRequests, Codes, Rejected, TypeOK, Rows,
    RowInv, CheckoutAgrees, OneKey, NothingUnpaid, FilesUntilRequested, FilesStayReferenced,
    CallInv, ProgressIsKept, Running, Awaits, TryBlock, OldIsNotWrong
<1>3. Grows /\ StandStill({c})
  BY <1>0 DEF Throws, Goto, Ends, Accepted, KeyOf, CertRequests, Codes, Rejected, TypeOK, Rows,
    RowInv, CheckoutAgrees, OneKey, NothingUnpaid, FilesUntilRequested, FilesStayReferenced,
    Grows, StandStill, CallInv, ProgressIsKept, Running, Awaits, TryBlock
<1>4. ProgressIsKept(c)'
  BY <1>0 DEF Throws, Goto, Ends, Accepted, KeyOf, CertRequests, Codes, Rejected, TypeOK, Rows,
    CallInv, ProgressIsKept, Running, Awaits, TryBlock
<1>5. OldIsNotWrong(c)'
  BY <1>0 DEF Throws, Goto, Ends, Accepted, KeyOf, CertRequests, Codes, Rejected, TypeOK, Rows,
    RowInv, OneKey, FilesUntilRequested, FilesStayReferenced, CallInv, ProgressIsKept,
    OldIsNotWrong, Running, Awaits, TryBlock
<1> QED
  BY <1>1, <1>2, <1>3, <1>4, <1>5, OthersKeep DEF CallInv

\* A restart ends whoever runs.
LEMMA RestartKeeps ==
  ASSUME OrderIInv, Restart
  PROVE  OrderIInv'
<1> USE DEF OrderIInv, NoOrder
<1>1. TypeOK'
  BY OrdersAssumption DEF Restart, TypeOK, Rows, Running, Awaits, TryBlock
<1>2. RowInv' /\ Grows
  BY DEF Restart, TypeOK, Grows, RowInv, CheckoutAgrees, OneKey, NothingUnpaid, FilesUntilRequested,
    FilesStayReferenced
<1>3. ASSUME NEW c \in Calls PROVE CallInv(c)'
  <2>1. CallInv(c)
    BY <1>3
  <2>2. ProgressIsKept(c)'
    BY <2>1 DEF Restart, TypeOK, CallInv, ProgressIsKept, Running, Awaits, TryBlock
  <2>3. OldIsNotWrong(c)'
    BY <2>1 DEF Restart, CallInv, OldIsNotWrong
  <2> QED
    BY <2>2, <2>3 DEF CallInv
<1> QED
  BY <1>1, <1>2, <1>3

LEMMA OrderStep == OrderIInv /\ [Next]_vars => OrderIInv'
<1> SUFFICES ASSUME OrderIInv, [Next]_vars PROVE OrderIInv'
  OBVIOUS
<1>1. ASSUME NEW c \in Calls, Confirmation(c) PROVE OrderIInv'
  BY <1>1, ReadOrderKeeps, AskGatewayKeeps, MarkDeclinedKeeps, MarkPaidKeeps, LogEventKeeps,
    FetchFilesKeeps, RequestCertificateKeeps, MarkSubmittedKeeps, PurgeFilesKeeps,
    ForgetFilesKeeps, GiveUpKeeps, ThrowsKeeps
    DEF Confirmation
<1>2. CASE UNCHANGED vars
  <2>1. TypeOK' /\ RowInv'
    BY <1>2 DEF vars, OrderIInv, TypeOK, RowInv, CheckoutAgrees, OneKey, NothingUnpaid,
      FilesUntilRequested, FilesStayReferenced
  <2>2. Grows /\ StandStill({})
    BY <1>2 DEF vars, Grows, StandStill
  <2> QED
    BY <2>1, <2>2, OthersKeep
<1> QED
  BY <1>1, <1>2, PutFilesKeeps, PreparePaymentKeeps, CreateOrderKeeps, CheckoutAnswersKeeps,
    CheckoutThrowsKeeps, CustomerPaysKeeps, RestartKeeps
    DEF Next

LEMMA OrderIInvIsEnough == OrderIInv => OrderInv
<1> SUFFICES ASSUME OrderIInv PROVE OrderInv
  OBVIOUS
<1>1. TypeOK /\ RowInv /\ \A c \in Calls : OldIsNotWrong(c)
  BY DEF OrderIInv, CallInv
<1>2. CertCodeIsKept
  BY <1>1 DEF CertCodeIsKept, RowInv, OneKey, OldIsNotWrong
<1>3. RequestHasFiles
  BY <1>1 DEF RequestHasFiles, RowInv, OneKey
<1>4. OneEmission
  <2>1. requests \subseteq {[code |-> "order", files |-> TRUE]}
    BY <1>1 DEF RowInv, OneKey
  <2>2. IsFiniteSet({[code |-> "order", files |-> TRUE]})
        /\ Cardinality({[code |-> "order", files |-> TRUE]}) = 1
    BY FS_Singleton
  <2>3. Cardinality(requests) <= 1 /\ Cardinality(requests) \in Nat
    BY <2>1, <2>2, FS_Subset, FS_CardinalityType
  <2> QED
    BY <2>3 DEF OneEmission
<1> QED
  BY <1>1, <1>2, <1>3, <1>4 DEF OrderInv, RowInv

\* cert-orders.ts: however many confirmations of a payment overlap, repeat, fail
\* after the provider accepted or are cut short by a restart, the provider gets one
\* request, with the files, and only for a paid order; the files stay until then and
\* the row refers to them for as long as they exist; and no code that was told to
\* the customer is erased or replaced.
THEOREM OrderInvariance == Spec => []OrderInv
  BY OrdersAssumption, OrderInit, OrderStep, OrderIInvIsEnough, PTL DEF Spec

-----------------------------------------------------------------------------
(* The provider's client.                                                  *)

\* Logins are numbered in the order they start.
LoginsInOrder == Started = 1..Cardinality(Started)

\* The cached token is of a login that was answered, and is kept as long as that
\* answer allows. Tokens that were refused had been answered too.
CachedIsAnswered ==
  /\ cache.token # None =>
       /\ login[cache.token] = "done"
       /\ cache.until = heardAt[cache.token] + (IF Life > Margin THEN Life - Margin ELSE 0)
  /\ \A n \in refused : login[n] = "done"

\* Where a call is says what it waits for or carries, and how often it has asked.
CallAgrees(c) ==
  /\ callAt[c] = "idle" => tries[c] = 0 /\ mark[c] = 0
  /\ callAt[c] = "login" => tries[c] \in {0, 1} /\ loginOf[c] \in InFlight
  /\ callAt[c] \in {"sent", "heard"} =>
       tries[c] \in {1, 2} /\ loginOf[c] \in Logins /\ login[loginOf[c]] = "done"
  /\ c \in charged => callAt[c] \in {"heard", "ok", "mayHaveCharged"}
  /\ c \in charged /\ callAt[c] = "heard" => reply[c] \in {"ok", "broken", "lost"}
  /\ c \in Gets /\ callAt[c] \in {"login", "sent"} /\ mark[c] > 0 => loginOf[c] > mark[c]

ClientIInv ==
  /\ ClientTypeOK /\ LoginsInOrder /\ CachedIsAnswered /\ RefusedIsNotCached
  /\ inFlight # None => inFlight \in InFlight
  /\ \A c \in ClientCalls : CallAgrees(c)

\* Bounds of the number of logins.
LEMMA StartedIsFinite ==
  /\ Cardinality(ClientCalls) \in Nat
  /\ Cardinality(Logins) = 2 * Cardinality(ClientCalls)
  /\ Cardinality(Started) \in 0..Cardinality(Logins)
<1>1. Cardinality(ClientCalls) \in Nat
  BY ClientAssumption, FS_CardinalityType
<1>2. IsFiniteSet(Logins) /\ Cardinality(Logins) = 2 * Cardinality(ClientCalls)
  <2> DEFINE k == 2 * Cardinality(ClientCalls)
  <2>1. k \in Nat
    BY <1>1
  <2> HIDE DEF k
  <2>2. IsFiniteSet(1..k) /\ Cardinality(1..k) = k
    BY <2>1, FS_Interval
  <2> QED
    BY <2>2 DEF k, Logins
<1>3. Started \subseteq Logins
  BY DEF Started
<1> QED
  BY <1>1, <1>2, <1>3, FS_Subset, FS_CardinalityType

\* A login of one's own is one that no call has started.
LEMMA OwnLogin ==
  ASSUME ClientTypeOK, LoginsInOrder, NEW n \in Logins, n = Cardinality(Started) + 1,
         login' = [login EXCEPT ![n] = "asked"]
  PROVE  /\ login[n] = "no" /\ n > Cardinality(Started)
         /\ LoginsInOrder'
         /\ InFlight' = InFlight \cup {n} /\ Cardinality(Started) \in 0..Cardinality(Logins)
         /\ \A m \in Logins : login[m] # "no" => login'[m] = login[m]
<1> DEFINE k == Cardinality(Started)
<1>1. k \in Nat
  BY StartedIsFinite
<1>2. n = k + 1 /\ n \notin 1..k
  BY <1>1
<1>3. login[n] = "no"
  BY <1>2 DEF LoginsInOrder, Started
<1>4. Started' = Started \cup {n}
  BY <1>3 DEF Started, Logins, ClientTypeOK
<1>5. Started' = 1..(k + 1)
  BY <1>1, <1>2, <1>4 DEF LoginsInOrder
<1>6. Cardinality(1..(k + 1)) = k + 1
  BY <1>1, FS_Interval
<1>7. InFlight' = InFlight \cup {n}
  BY <1>3 DEF InFlight, Logins, ClientTypeOK
<1>8. \A m \in Logins : login[m] # "no" => login'[m] = login[m]
  BY <1>3 DEF ClientTypeOK
<1> QED
  BY <1>1, <1>2, <1>3, <1>5, <1>6, <1>7, <1>8, StartedIsFinite DEF LoginsInOrder

\* A login that was started stays started.
LEMMA StartedStays ==
  ASSUME LoginsInOrder, \A m \in Logins : login'[m] = "no" <=> login[m] = "no"
  PROVE  LoginsInOrder'
<1>1. Started' = Started
  BY DEF Started, Logins
<1> QED
  BY <1>1 DEF LoginsInOrder

\* The calls outside S are where they were.
Bystanders(S) ==
  \A d \in ClientCalls \ S :
    /\ UNCHANGED <<callAt[d], loginOf[d], tries[d], reply[d], mark[d]>>
    /\ d \in charged' => d \in charged

\* Whatever others do, a call keeps what it has as long as its login is not
\* settled without it.
LEMMA OtherCallsKeep ==
  ASSUME ClientIInv, NEW S \in SUBSET ClientCalls, Bystanders(S),
         \A m \in Logins : login[m] = "done" => login'[m] = "done",
         \A d \in ClientCalls \ S : callAt[d] = "login" => loginOf[d] \in InFlight',
         \A c \in S : CallAgrees(c)'
  PROVE  \A c \in ClientCalls : CallAgrees(c)'
<1> SUFFICES ASSUME NEW d \in ClientCalls \ S PROVE CallAgrees(d)'
  OBVIOUS
<1>1. CallAgrees(d)
  BY DEF ClientIInv
<1>2. callAt'[d] = callAt[d] /\ loginOf'[d] = loginOf[d] /\ tries'[d] = tries[d]
      /\ reply'[d] = reply[d] /\ mark'[d] = mark[d]
  BY DEF Bystanders
<1> QED
  BY <1>1, <1>2 DEF CallAgrees, Bystanders, Logins

LEMMA ClientInitIInv == ClientInit => ClientIInv
<1> SUFFICES ASSUME ClientInit PROVE ClientIInv
  OBVIOUS
<1> USE ClientAssumption
<1>1. ClientTypeOK
  BY StartedIsFinite DEF ClientInit, ClientTypeOK, None
<1>2. LoginsInOrder
  <2>1. Started = {}
    BY DEF ClientInit, Started
  <2>2. Cardinality(Started) = 0
    BY <2>1, FS_EmptySet
  <2> QED
    BY <2>1, <2>2 DEF LoginsInOrder
<1>3. CachedIsAnswered /\ RefusedIsNotCached /\ inFlight = None
  BY DEF ClientInit, CachedIsAnswered, RefusedIsNotCached
<1>4. \A c \in ClientCalls : CallAgrees(c)
  BY DEF ClientInit, CallAgrees
<1> QED
  BY <1>1, <1>2, <1>3, <1>4 DEF ClientIInv

\* A call takes the token of the cache, or waits for a login.
LEMMA StartKeeps ==
  ASSUME ClientIInv, NEW c \in ClientCalls, Start(c)
  PROVE  ClientIInv'
<1> USE DEF ClientIInv
<1>0. CallAgrees(c) /\ ClientTypeOK
  OBVIOUS
<1>1. CASE cache.token # None /\ minute < cache.until
  <2>1. /\ callAt' = [callAt EXCEPT ![c] = "sent"] /\ loginOf' = [loginOf EXCEPT ![c] = cache.token]
        /\ tries' = [tries EXCEPT ![c] = @ + 1] /\ UNCHANGED <<login, inFlight>>
    BY <1>1 DEF Start, GetToken, Current
  <2>2. UNCHANGED <<cache, issuedAt, heardAt, reply, charged, minute, revoked, refused, mark, superseded>>
    BY DEF Start, provider, history
  <2>3. ClientTypeOK'
    BY <1>0, <1>1, <2>1, <2>2 DEF Start, ClientTypeOK, CallAgrees
  <2>4. CallAgrees(c)'
    BY <1>0, <1>1, <2>1, <2>2 DEF Start, ClientTypeOK, CallAgrees, CachedIsAnswered
  <2>5. Bystanders({c})
    BY <1>0, <2>1, <2>2 DEF Bystanders, ClientTypeOK
  <2>6. \A d \in ClientCalls : CallAgrees(d)'
    <3>1. \A d \in ClientCalls \ {c} : callAt[d] = "login" => loginOf[d] \in InFlight'
      BY <2>1 DEF CallAgrees, InFlight, Logins
    <3> QED
      BY <2>1, <2>4, <2>5, <3>1, OtherCallsKeep
  <2> QED
    BY <2>1, <2>2, <2>3, <2>6, StartedStays DEF CachedIsAnswered, RefusedIsNotCached, InFlight,
          Logins
<1>2. CASE ~(cache.token # None /\ minute < cache.until)
  <2>0. PICK n \in Logins :
        /\ IF inFlight # None THEN n = inFlight /\ UNCHANGED login
           ELSE n = Cardinality(Started) + 1 /\ login' = [login EXCEPT ![n] = "asked"]
        /\ inFlight' = n
        /\ callAt' = [callAt EXCEPT ![c] = "login"]
        /\ loginOf' = [loginOf EXCEPT ![c] = n]
        /\ UNCHANGED tries
    BY <1>2 DEF Start, GetToken, Current
  <2>1. UNCHANGED <<cache, issuedAt, heardAt, reply, charged, minute, revoked, refused, mark, superseded>>
    BY DEF Start, provider, history
  <2>2. /\ LoginsInOrder' /\ n \in InFlight' /\ InFlight \subseteq InFlight'
        /\ \A m \in Logins : login[m] # "no" => login'[m] = login[m]
    <3>1. CASE inFlight # None
      BY <2>0, <3>1, StartedStays DEF InFlight, Logins
    <3>2. CASE inFlight = None
      BY <2>0, <3>2, OwnLogin
    <3> QED
      BY <3>1, <3>2
  <2>3. ClientTypeOK'
    BY <1>0, <2>0, <2>1 DEF ClientTypeOK
  <2>4. CallAgrees(c)'
    BY <1>0, <2>0, <2>1, <2>2 DEF Start, ClientTypeOK, CallAgrees
  <2>5. Bystanders({c})
    BY <1>0, <2>0, <2>1 DEF Bystanders, ClientTypeOK
  <2>6. \A d \in ClientCalls : CallAgrees(d)'
    <3>1. \A d \in ClientCalls \ {c} : callAt[d] = "login" => loginOf[d] \in InFlight'
      BY <2>2 DEF CallAgrees
    <3> QED
      BY <2>2, <2>4, <2>5, <3>1, OtherCallsKeep
  <2> QED
    BY <2>0, <2>1, <2>2, <2>3, <2>6 DEF CachedIsAnswered, RefusedIsNotCached, ClientTypeOK
<1> QED
  BY <1>1, <1>2

\* The first refusal drops the token and logs in anew.
LEMMA AskAgainKeeps ==
  ASSUME ClientIInv, NEW c \in ClientCalls, AskAgain(c)
  PROVE  ClientIInv'
<1> USE DEF ClientIInv
<1>0. CallAgrees(c) /\ ClientTypeOK
  OBVIOUS
<1>1. PICK n \in Logins :
      /\ n = Cardinality(Started) + 1 /\ login' = [login EXCEPT ![n] = "asked"]
      /\ inFlight' = n
      /\ callAt' = [callAt EXCEPT ![c] = "login"]
      /\ loginOf' = [loginOf EXCEPT ![c] = n]
      /\ UNCHANGED tries
  BY DEF AskAgain, GetToken, Forgotten
<1>2. /\ cache' = [token |-> None, until |-> 0]
      /\ mark' = [mark EXCEPT ![c] = Cardinality(Started)]
      /\ reply' = [reply EXCEPT ![c] = "none"]
      /\ UNCHANGED <<issuedAt, heardAt, charged, minute, revoked>>
      /\ refused' = refused \cup {loginOf[c]} /\ superseded' = superseded \cup InFlight
      /\ callAt[c] = "heard" /\ reply[c] = "unauthorized" /\ c \in Gets /\ tries[c] = 1
  BY DEF AskAgain, HeardRefused, Forgotten, provider
<1>3. /\ LoginsInOrder' /\ InFlight' = InFlight \cup {n} /\ n > Cardinality(Started)
      /\ Cardinality(Started) \in 0..Cardinality(Logins)
      /\ \A m \in Logins : login[m] # "no" => login'[m] = login[m]
  BY <1>1, OwnLogin
<1>4. loginOf[c] \in Logins /\ login[loginOf[c]] = "done"
  BY <1>0, <1>2 DEF CallAgrees
<1>5. ClientTypeOK'
  <2>1. mark' \in [ClientCalls -> 0..Cardinality(Logins)]
    BY <1>0, <1>2, <1>3 DEF ClientTypeOK
  <2>2. InFlight \subseteq Logins
    BY DEF InFlight
  <2>3. cache' \in [token : Logins \cup {None}, until : 0..(LastMinute + Life)]
    BY <1>2, ClientAssumption
  <2> QED
    BY <1>0, <1>1, <1>2, <1>4, <2>1, <2>2, <2>3 DEF ClientTypeOK
<1>6. CallAgrees(c)'
  BY <1>0, <1>1, <1>2, <1>3 DEF ClientTypeOK, CallAgrees
<1>7. Bystanders({c})
  BY <1>0, <1>1, <1>2 DEF Bystanders, ClientTypeOK
<1>8. \A d \in ClientCalls : CallAgrees(d)'
  <2>1. \A d \in ClientCalls \ {c} : callAt[d] = "login" => loginOf[d] \in InFlight'
    BY <1>3 DEF CallAgrees
  <2> QED
    BY <1>3, <1>6, <1>7, <2>1, OtherCallsKeep
<1>9. CachedIsAnswered' /\ RefusedIsNotCached'
  BY <1>0, <1>2, <1>3, <1>4 DEF CachedIsAnswered, RefusedIsNotCached, ClientTypeOK, None, Logins
<1> QED
  BY <1>1, <1>3, <1>5, <1>8, <1>9

\* What it takes that a set of calls ends, with a result that says nothing it may not.
LEMMA EndKeeps ==
  ASSUME ClientIInv, NEW S \in SUBSET ClientCalls, NEW result \in Results, End(S, result),
         UNCHANGED charged, result = "error" => S \cap charged = {}
  PROVE  /\ \A c \in S : CallAgrees(c)'
         /\ Bystanders(S)
         /\ callAt' \in [ClientCalls -> {"idle", "login", "sent", "heard"} \cup Results]
         /\ loginOf' \in [ClientCalls -> Logins \cup {None}]
         /\ tries' \in [ClientCalls -> 0..2]
         /\ reply' \in [ClientCalls -> {"none", "ok", "unauthorized", "broken", "lost"}]
         /\ mark' \in [ClientCalls -> 0..Cardinality(Logins)]
<1> USE DEF ClientIInv
<1>1. \A c \in S : CallAgrees(c)'
  BY DEF End, CallAgrees, Results
<1>2. Bystanders(S)
  BY DEF End, Bystanders
<1>3. Cardinality(Logins) \in Nat
  BY StartedIsFinite
<1> QED
  BY <1>1, <1>2, <1>3 DEF End, ClientTypeOK, Results

\* The second refusal drops the token and is the answer.
LEMMA StopAskingKeeps ==
  ASSUME ClientIInv, NEW c \in ClientCalls, StopAsking(c)
  PROVE  ClientIInv'
<1> USE DEF ClientIInv
<1>0. CallAgrees(c) /\ ClientTypeOK
  OBVIOUS
<1>1. /\ cache' = [token |-> None, until |-> 0] /\ inFlight' = None
      /\ UNCHANGED <<login, issuedAt, heardAt, charged, minute, revoked>>
      /\ refused' = refused \cup {loginOf[c]} /\ superseded' = superseded \cup InFlight
      /\ callAt[c] = "heard" /\ reply[c] = "unauthorized" /\ End({c}, "error")
  BY DEF StopAsking, HeardRefused, Forgotten, provider
<1>2. loginOf[c] \in Logins /\ login[loginOf[c]] = "done" /\ c \notin charged
  BY <1>0, <1>1 DEF CallAgrees
<1>3. "error" \in Results /\ {c} \cap charged = {} /\ {c} \in SUBSET ClientCalls
  BY <1>2 DEF Results
<1>4. /\ \A d \in {c} : CallAgrees(d)'
      /\ Bystanders({c})
      /\ callAt' \in [ClientCalls -> {"idle", "login", "sent", "heard"} \cup Results]
      /\ loginOf' \in [ClientCalls -> Logins \cup {None}]
      /\ tries' \in [ClientCalls -> 0..2]
      /\ reply' \in [ClientCalls -> {"none", "ok", "unauthorized", "broken", "lost"}]
      /\ mark' \in [ClientCalls -> 0..Cardinality(Logins)]
  BY <1>1, <1>3, EndKeeps
<1>5. ClientTypeOK'
  <2>1. cache' \in [token : Logins \cup {None}, until : 0..(LastMinute + Life)]
    BY <1>1, ClientAssumption
  <2> QED
    BY <1>0, <1>1, <1>2, <1>4, <2>1 DEF ClientTypeOK, InFlight
<1>6. InFlight' = InFlight
  BY <1>1 DEF InFlight, Logins
<1>7. \A d \in ClientCalls : CallAgrees(d)'
  BY <1>1, <1>4, <1>6, OtherCallsKeep DEF CallAgrees
<1>8. CachedIsAnswered' /\ RefusedIsNotCached'
  BY <1>0, <1>1, <1>2 DEF CachedIsAnswered, RefusedIsNotCached, ClientTypeOK, None, Logins
<1> QED
  BY <1>1, <1>5, <1>7, <1>8, StartedStays

\* A call ends with what was heard.
LEMMA HeardKeeps ==
  ASSUME ClientIInv, NEW c \in ClientCalls, GetEnds(c) \/ PostEnds(c)
  PROVE  ClientIInv'
<1> USE DEF ClientIInv
<1>0. CallAgrees(c) /\ ClientTypeOK
  OBVIOUS
<1>1. PICK result \in Results :
        End({c}, result) /\ (result = "error" => {c} \cap charged = {})
  <2>1. c \in charged => c \in Posts /\ reply[c] \in {"ok", "broken", "lost"}
    BY <1>0 DEF GetEnds, PostEnds, CallAgrees, ClientTypeOK
  <2> QED
    BY <1>0, <2>1, ClientAssumption DEF GetEnds, PostEnds, Verdict, Results, ClientTypeOK
<1>2. UNCHANGED <<cache, inFlight, login, issuedAt, heardAt, charged, minute, revoked, refused, superseded>>
  BY DEF GetEnds, PostEnds, tokenVars, provider
<1>3. {c} \in SUBSET ClientCalls
  OBVIOUS
<1>4. /\ \A d \in {c} : CallAgrees(d)'
      /\ Bystanders({c})
      /\ callAt' \in [ClientCalls -> {"idle", "login", "sent", "heard"} \cup Results]
      /\ loginOf' \in [ClientCalls -> Logins \cup {None}]
      /\ tries' \in [ClientCalls -> 0..2]
      /\ reply' \in [ClientCalls -> {"none", "ok", "unauthorized", "broken", "lost"}]
      /\ mark' \in [ClientCalls -> 0..Cardinality(Logins)]
  BY <1>1, <1>2, <1>3, EndKeeps
<1>5. ClientTypeOK'
  BY <1>0, <1>2, <1>4 DEF ClientTypeOK
<1>6. InFlight' = InFlight
  BY <1>2 DEF InFlight, Logins
<1>7. \A d \in ClientCalls : CallAgrees(d)'
  BY <1>2, <1>4, <1>6, OtherCallsKeep DEF CallAgrees
<1> QED
  BY <1>2, <1>5, <1>6, <1>7, StartedStays DEF CachedIsAnswered, RefusedIsNotCached

\* The provider's reply, and what it charged.
LEMMA ReplyKeeps ==
  ASSUME ClientIInv, NEW c \in ClientCalls, Reply(c)
  PROVE  ClientIInv'
<1> USE DEF ClientIInv
<1>0. CallAgrees(c) /\ ClientTypeOK
  OBVIOUS
<1>1. PICK r \in {"ok", "broken", "lost", "unauthorized"}, done \in SUBSET ({c} \cap Posts) :
        /\ reply' = [reply EXCEPT ![c] = r] /\ charged' = charged \cup done
        /\ done # {} => r \in {"ok", "broken", "lost"}
  BY DEF Reply
<1>2. /\ callAt[c] = "sent" /\ callAt' = [callAt EXCEPT ![c] = "heard"]
      /\ UNCHANGED <<cache, inFlight, login, issuedAt, heardAt, loginOf, tries, minute, revoked,
                     refused, mark, superseded>>
  BY DEF Reply, tokenVars, history
<1>3. ClientTypeOK'
  BY <1>0, <1>1, <1>2 DEF ClientTypeOK
<1>4. CallAgrees(c)'
  BY <1>0, <1>1, <1>2 DEF ClientTypeOK, CallAgrees
<1>5. Bystanders({c})
  BY <1>0, <1>1, <1>2 DEF ClientTypeOK, Bystanders
<1>6. InFlight' = InFlight
  BY <1>2 DEF InFlight, Logins
<1>7. \A d \in ClientCalls : CallAgrees(d)'
  BY <1>2, <1>4, <1>5, <1>6, OtherCallsKeep DEF CallAgrees
<1> QED
  BY <1>2, <1>3, <1>6, <1>7, StartedStays DEF CachedIsAnswered, RefusedIsNotCached

\* The answer to a login: it is in flight still.
LEMMA LoginAnswered ==
  ASSUME ClientIInv, NEW n \in Logins, Issue(n) \/ RefuseLogin(n)
  PROVE  ClientIInv'
<1> USE DEF ClientIInv
<1>0. ClientTypeOK
  OBVIOUS
<1>1. /\ login[n] = "asked" /\ \E r \in {"issued", "refused"} : login' = [login EXCEPT ![n] = r]
      /\ issuedAt' \in {issuedAt, [issuedAt EXCEPT ![n] = minute]}
      /\ UNCHANGED <<cache, inFlight, heardAt, callAt, loginOf, tries, reply, charged, minute, revoked,
                     refused, mark, superseded>>
  BY DEF Issue, RefuseLogin, callVars, provider, history
<1>2. ClientTypeOK'
  BY <1>0, <1>1 DEF ClientTypeOK
<1>3. InFlight' = InFlight /\ \A m \in Logins : m # n => login'[m] = login[m]
  BY <1>0, <1>1 DEF InFlight, Logins, ClientTypeOK
<1>4. login'[n] # "no"
  BY <1>0, <1>1 DEF ClientTypeOK
<1>5. LoginsInOrder'
  BY <1>1, <1>3, <1>4, StartedStays
<1>6. CachedIsAnswered' /\ RefusedIsNotCached'
  BY <1>0, <1>1, <1>3 DEF CachedIsAnswered, RefusedIsNotCached, ClientTypeOK
<1>7. \A d \in ClientCalls : CallAgrees(d)'
  <2>1. Bystanders({})
    BY <1>1 DEF Bystanders
  <2> QED
    BY <1>1, <1>3, <2>1, OtherCallsKeep DEF CallAgrees
<1> QED
  BY <1>1, <1>2, <1>3, <1>5, <1>6, <1>7

\* The token is cached and whoever waited sends its request.
LEMMA LoginEndsKeeps ==
  ASSUME ClientIInv, NEW n \in Logins, LoginEnds(n)
  PROVE  ClientIInv'
<1> USE DEF ClientIInv
<1>0. ClientTypeOK
  OBVIOUS
<1>1. /\ login[n] = "issued" /\ login' = [login EXCEPT ![n] = "done"]
      /\ cache' = [token |-> n, until |-> Until] /\ inFlight' = None
      /\ heardAt' = [heardAt EXCEPT ![n] = minute]
      /\ callAt' = [c \in ClientCalls |-> IF c \in Waiting(n) THEN "sent" ELSE callAt[c]]
      /\ tries' = [c \in ClientCalls |-> IF c \in Waiting(n) THEN tries[c] + 1 ELSE tries[c]]
      /\ UNCHANGED <<issuedAt, loginOf, reply, charged, minute, revoked, refused, mark, superseded>>
  BY DEF LoginEnds, provider, history
<1>2. /\ login'[n] = "done" /\ InFlight' = InFlight \ {n}
      /\ \A m \in Logins : m # n => login'[m] = login[m]
  BY <1>0, <1>1 DEF InFlight, Logins, ClientTypeOK
<1>3. \A c \in Waiting(n) : CallAgrees(c)'
  BY <1>0, <1>1, <1>2 DEF ClientTypeOK, CallAgrees, Waiting
<1>4. ClientTypeOK'
  <2>1. cache' \in [token : Logins \cup {None}, until : 0..(LastMinute + Life)]
    BY <1>0, <1>1, ClientAssumption DEF ClientTypeOK, Until
  <2>2. tries' \in [ClientCalls -> 0..2]
    BY <1>0, <1>1 DEF ClientTypeOK, CallAgrees, Waiting
  <2> QED
    BY <1>0, <1>1, <2>1, <2>2 DEF ClientTypeOK
<1>5. CachedIsAnswered' /\ RefusedIsNotCached'
  <2>1. n \notin refused
    BY <1>1 DEF CachedIsAnswered
  <2> QED
    BY <1>0, <1>1, <1>2, <2>1 DEF CachedIsAnswered, RefusedIsNotCached, ClientTypeOK, Until
<1>6. \A d \in ClientCalls : CallAgrees(d)'
  <2>1. Bystanders(Waiting(n)) /\ Waiting(n) \in SUBSET ClientCalls
    BY <1>1 DEF Bystanders, Waiting
  <2>2. \A d \in ClientCalls \ Waiting(n) : callAt[d] = "login" => loginOf[d] \in InFlight'
    BY <1>2 DEF CallAgrees, Waiting
  <2> QED
    BY <1>2, <1>3, <2>1, <2>2, OtherCallsKeep
<1>7. LoginsInOrder'
  BY <1>1, <1>2, StartedStays
<1> QED
  BY <1>1, <1>4, <1>5, <1>6, <1>7

\* Whoever waited for a login that fails ends with it.
LEMMA LoginFailsKeeps ==
  ASSUME ClientIInv, NEW n \in Logins, LoginFails(n)
  PROVE  ClientIInv'
<1> USE DEF ClientIInv
<1>0. ClientTypeOK
  OBVIOUS
<1>1. /\ login[n] = "refused" /\ login' = [login EXCEPT ![n] = "done"]
      /\ inFlight' = None /\ End(Waiting(n), "error")
      /\ UNCHANGED <<cache, issuedAt, heardAt, charged, minute, revoked, refused, superseded>>
  BY DEF LoginFails, provider
<1>2. /\ login'[n] = "done" /\ InFlight' = InFlight \ {n}
      /\ \A m \in Logins : m # n => login'[m] = login[m]
  BY <1>0, <1>1 DEF InFlight, Logins, ClientTypeOK
<1>3. "error" \in Results /\ Waiting(n) \cap charged = {} /\ Waiting(n) \in SUBSET ClientCalls
  BY DEF Results, Waiting, CallAgrees
<1>4. /\ \A d \in Waiting(n) : CallAgrees(d)'
      /\ Bystanders(Waiting(n))
      /\ callAt' \in [ClientCalls -> {"idle", "login", "sent", "heard"} \cup Results]
      /\ loginOf' \in [ClientCalls -> Logins \cup {None}]
      /\ tries' \in [ClientCalls -> 0..2]
      /\ reply' \in [ClientCalls -> {"none", "ok", "unauthorized", "broken", "lost"}]
      /\ mark' \in [ClientCalls -> 0..Cardinality(Logins)]
  BY <1>1, <1>3, EndKeeps
<1>5. ClientTypeOK'
  BY <1>0, <1>1, <1>4 DEF ClientTypeOK
<1>6. \A d \in ClientCalls : CallAgrees(d)'
  <2>1. \A d \in ClientCalls \ Waiting(n) : callAt[d] = "login" => loginOf[d] \in InFlight'
    BY <1>2 DEF CallAgrees, Waiting
  <2> QED
    BY <1>2, <1>3, <1>4, <2>1, OtherCallsKeep
<1>7. LoginsInOrder'
  BY <1>1, <1>2, StartedStays
<1>8. CachedIsAnswered' /\ RefusedIsNotCached'
  BY <1>0, <1>1, <1>2 DEF CachedIsAnswered, RefusedIsNotCached, ClientTypeOK
<1> QED
  BY <1>1, <1>5, <1>6, <1>7, <1>8

\* Time and the provider's whims touch nothing the client relies on.
LEMMA WorldKeeps ==
  ASSUME ClientIInv,
         (\E n \in Logins : Revoke(n)) \/ MinutePasses \/ UNCHANGED clientVars
  PROVE  ClientIInv'
<1> USE DEF ClientIInv
<1>1. UNCHANGED <<cache, inFlight, login, issuedAt, heardAt, callAt, loginOf, tries, reply, charged,
                  refused, mark, superseded>>
  BY DEF Revoke, MinutePasses, clientVars, tokenVars, callVars, provider, history
<1>2. ClientTypeOK'
  BY <1>1, ClientAssumption
     DEF ClientTypeOK, Revoke, MinutePasses, clientVars, provider
<1>3. InFlight' = InFlight /\ Started' = Started
  BY <1>1 DEF InFlight, Started, Logins
<1>4. \A d \in ClientCalls : CallAgrees(d)'
  BY <1>1, <1>3 DEF CallAgrees, Logins
<1> QED
  BY <1>1, <1>2, <1>3, <1>4 DEF LoginsInOrder, CachedIsAnswered, RefusedIsNotCached

LEMMA ClientStep == ClientIInv /\ [ClientNext]_clientVars => ClientIInv'
  BY StartKeeps, AskAgainKeeps, StopAskingKeeps, HeardKeeps, ReplyKeeps, LoginAnswered,
        LoginEndsKeeps,
     LoginFailsKeeps, WorldKeeps
     DEF ClientNext, Continue, LoginSettles

LEMMA ClientIInvIsEnough == ClientIInv => ClientInv
<1> SUFFICES ASSUME ClientIInv PROVE ClientInv
  OBVIOUS
<1>1. ClientTypeOK /\ \A c \in ClientCalls : CallAgrees(c)
  BY DEF ClientIInv
<1>2. NoSilentCharge
  BY <1>1 DEF NoSilentCharge, CallAgrees, ClientTypeOK, ClientCalls
<1>3. RetryTokenIsNew
  BY <1>1 DEF RetryTokenIsNew, CallAgrees, ClientCalls
<1>4. NobodyIsLeftWaiting
  BY <1>1 DEF ClientIInv, NobodyIsLeftWaiting, CallAgrees
<1> QED
  BY <1>1, <1>2, <1>3, <1>4 DEF ClientIInv, ClientInv

\* http.ts, token-manager.ts: whatever the calls, the provider and the clock do, a
\* token that was refused is not served again, a second request carries a token of a
\* login that began after the refusal, nobody waits for a login that is over, and a
\* creation the provider may have charged is never reported as free of charge.
THEOREM ClientInvariance == ClientSpec => []ClientInv
  BY ClientInitIInv, ClientStep, ClientIInvIsEnough, PTL DEF ClientSpec

\* A call goes out with the token of the cache, or with the one it waited for.
LEMMA SendStep ==
  ASSUME ClientIInv, [ClientNext]_clientVars, NEW c \in ClientCalls, callAt'[c] = "sent", callAt[c] # "sent",
         heardAt'[loginOf'[c]] - issuedAt'[loginOf'[c]] <= Margin, Margin < Life
  PROVE  minute' < issuedAt'[loginOf'[c]] + Life
<1> USE DEF ClientIInv
<1>0. ClientTypeOK /\ CallAgrees(c)
  OBVIOUS
<1>1. CASE Start(c)
  <2>1. cache.token # None /\ minute < cache.until
    BY <1>0, <1>1 DEF Start, GetToken, Current, ClientTypeOK
  <2>2. loginOf'[c] = cache.token /\ UNCHANGED <<issuedAt, heardAt, minute>>
    BY <1>0, <1>1, <2>1 DEF Start, GetToken, Current, ClientTypeOK, provider
  <2> QED
    BY <1>0, <2>1, <2>2, ClientAssumption DEF CachedIsAnswered, ClientTypeOK
<1>2. CASE \E n \in Logins : LoginEnds(n)
  <2>1. PICK n \in Logins : LoginEnds(n)
    BY <1>2
  <2>2. c \in Waiting(n) /\ loginOf'[c] = n
    BY <2>1 DEF LoginEnds, Waiting
  <2>3. heardAt'[n] = minute /\ UNCHANGED <<issuedAt, minute>>
    BY <1>0, <2>1 DEF LoginEnds, ClientTypeOK, provider
  <2> QED
    BY <1>0, <2>2, <2>3, ClientAssumption DEF ClientTypeOK
<1>3. CASE ~Start(c) /\ ~\E n \in Logins : LoginEnds(n)
  <2>1. callAt' = callAt \/ (\E d \in ClientCalls : d # c /\ Start(d))
        \/ (\E d \in ClientCalls : Reply(d) \/ Continue(d)) \/ (\E n \in Logins : LoginFails(n))
    BY <1>3 DEF ClientNext, LoginSettles, Issue, RefuseLogin, Revoke, MinutePasses, clientVars,
          callVars
  <2>2. callAt'[c] # "sent"
    BY <1>0, <2>1 DEF Start, GetToken, Current, Reply, Continue, AskAgain, Forgotten, StopAsking,
          GetEnds,
      PostEnds, End, Verdict, LoginFails, ClientTypeOK
  <2> QED
    BY <2>2
<1> QED
  BY <1>1, <1>2, <1>3

\* token-manager.ts: the margin covers the time the provider's answer to a login
\* took, so that no request goes out with a token that has expired.
THEOREM SentInTime == ClientSpec => SentBeforeExpiry
<1>1. ClientIInv /\ [ClientNext]_clientVars
      => [\A c \in ClientCalls :
            callAt'[c] = "sent" /\ callAt[c] # "sent" =>
              LET n == loginOf'[c] IN
                heardAt'[n] - issuedAt'[n] <= Margin /\ Margin < Life
                  => minute' < issuedAt'[n] + Life]_clientVars
  BY SendStep
<1> QED
  BY <1>1, ClientInitIInv, ClientStep, PTL DEF ClientSpec, SentBeforeExpiry

-----------------------------------------------------------------------------
(* The usage counters.                                                     *)

\* Beacons that were answered or counted, and rows that are written or about to be.
Answered == {b \in Beacons : beaconAt[b] # "new"}
Written  == {b \in Beacons : log[b] # Nil \/ beaconAt[b] = "log"}

CountsAgree == total <= Cardinality(Answered) /\ Cardinality(Written) <= total

\* An answer lacks nothing that was counted this long before it was given.
Knows(figure, age) == \A k \in 1..moment : k <= figure.at - age => totalAt[k] <= figure.data

TotalsAgree ==
  /\ \A k \in 1..moment : totalAt[k] <= total
  /\ \A r \in Replicas : statsCache[r] # Nil => Knows(statsCache[r], MaxRead)
  /\ \A v \in Visits : visitAt[v] = "read" =>
       read[v] \in Totals /\ Knows(read[v], 0) /\ moment - read[v].at <= MaxRead
  /\ \A v \in Visits : told[v] # Nil => Knows(told[v], CacheTtl + MaxRead)

\* The rows were read before the totals, and have been counted before.
SeriesAgrees ==
  \A q \in SeriesReads :
    /\ seriesAt[q] = "totals" => Cardinality(series[q].found) <= total
    /\ seriesAt[q] = "done" => Cardinality(series[q].found) <= series[q].total

UsageIInv == UsageTypeOK /\ CountsAgree /\ TotalsAgree /\ SeriesAgrees /\ NoBucketIsStarved

\* Sets of beacons have a size.
LEMMA BeaconSets ==
  /\ \A S \in SUBSET Beacons : Cardinality(S) \in 0..Cardinality(Beacons)
  /\ \A S, T \in SUBSET Beacons : S \subseteq T => Cardinality(S) <= Cardinality(T)
  /\ \A S \in SUBSET Beacons, b \in Beacons :
       /\ Cardinality(S \cup {b}) <= Cardinality(S) + 1
       /\ b \notin S => Cardinality(S \cup {b}) = Cardinality(S) + 1
<1>1. IsFiniteSet(Beacons) /\ \A S \in SUBSET Beacons : IsFiniteSet(S)
  BY UsageAssumption, FS_Subset
<1>2. \A S \in SUBSET Beacons : Cardinality(S) \in Nat /\ Cardinality(S) <= Cardinality(Beacons)
  BY <1>1, FS_Subset, FS_CardinalityType
<1>3. ASSUME NEW S \in SUBSET Beacons, NEW T \in SUBSET Beacons, S \subseteq T
      PROVE  Cardinality(S) <= Cardinality(T)
  BY <1>1, <1>3, FS_Subset
<1>4. ASSUME NEW S \in SUBSET Beacons, NEW b \in Beacons
      PROVE  /\ Cardinality(S \cup {b}) <= Cardinality(S) + 1
             /\ b \notin S => Cardinality(S \cup {b}) = Cardinality(S) + 1
  <2>1. Cardinality(S \cup {b}) = IF b \in S THEN Cardinality(S) ELSE Cardinality(S) + 1
    BY <1>1, FS_AddElement
  <2> QED
    BY <1>2, <2>1
<1>5. Cardinality(Beacons) \in Nat
  BY <1>1, FS_CardinalityType
<1> QED
  BY <1>2, <1>3, <1>4, <1>5

LEMMA UsageInitIInv == UsageInit => UsageIInv
<1> SUFFICES ASSUME UsageInit PROVE UsageIInv
  OBVIOUS
<1>1. UsageTypeOK
  <2>1. Cardinality(Beacons) \in Nat /\ LastMoment \in Nat /\ MaxErrors \in Nat
    BY UsageAssumption, FS_CardinalityType
  <2>2. series \in [SeriesReads ->
          [now : 0..moment, at : 0..moment, found : SUBSET Beacons, total : 0..total]]
    BY DEF UsageInit, NoSeries
  <2>3. totalAt \in Seq(Nat) /\ Len(totalAt) = moment
    BY DEF UsageInit
  <2> QED
    BY <2>1, <2>2, <2>3 DEF UsageInit, UsageTypeOK
<1>2. CountsAgree
  <2>1. Answered = {} /\ Written = {} /\ total = 0
    BY DEF UsageInit, Answered, Written
  <2> QED
    BY <2>1, FS_EmptySet DEF CountsAgree
<1>3. TotalsAgree /\ SeriesAgrees /\ NoBucketIsStarved
  BY DEF UsageInit, TotalsAgree, SeriesAgrees, NoBucketIsStarved
<1> QED
  BY <1>1, <1>2, <1>3 DEF UsageIInv

\* What a step leaves alone stays true as the counters and the clock go on.
LEMMA TotalsGrow ==
  ASSUME UsageTypeOK, total' \in Nat, total <= total', moment' \in Nat, moment <= moment'
  PROVE  /\ Totals \subseteq Totals'
         /\ \A x : x \in [now : 0..moment, at : 0..moment, found : SUBSET Beacons, total : 0..total]
              => x \in [now : 0..moment', at : 0..moment', found : SUBSET Beacons, total : 0..total']
         /\ 0..moment \subseteq 0..moment'
  BY DEF UsageTypeOK, Totals

\* What visitors were told, or will be, is not changed by a beacon.
LEMMA TotalsKept ==
  ASSUME UsageTypeOK, TotalsAgree, UNCHANGED <<moment, totalAt, visitAt, read, told>>,
         total' \in Nat, total <= total', \A r \in Replicas : statsCache'[r] \in {statsCache[r], Nil}
  PROVE  TotalsAgree'
<1>1. Totals \subseteq Totals'
  BY TotalsGrow DEF UsageTypeOK
<1>2. \A k \in 1..moment : totalAt'[k] <= total'
  BY DEF TotalsAgree, UsageTypeOK
<1>3. \A r \in Replicas : statsCache'[r] # Nil => Knows(statsCache[r], MaxRead)' /\ statsCache'[r] = statsCache[r]
  BY DEF TotalsAgree, Knows
<1> QED
  BY <1>1, <1>2, <1>3 DEF TotalsAgree, Knows

\* A beacon counts once at most, and its row is written when it was counted.
LEMMA BeaconKeeps ==
  ASSUME UsageIInv, NEW b \in Beacons,
         Drop(b) \/ CountEvent(b) \/ LogRow(b) \/ RecordFails(b) \/ ForgetCache(b)
  PROVE  UsageIInv'
<1> USE DEF UsageIInv
<1>0. UsageTypeOK /\ UsageAssumption
  BY UsageAssumption
<1>1. UNCHANGED <<moment, totalAt, visitAt, seriesAt, home, read, told, series>>
  BY DEF Drop, CountEvent, LogRow, RecordFails, ForgetCache
<1>2. /\ beaconAt' \in [Beacons -> {"new", "log", "forget", "done"}]
      /\ \A r \in Replicas : statsCache'[r] \in {statsCache[r], Nil}
      /\ statsCache' \in [Replicas -> Totals \cup {Nil}]
      /\ log' \in [Beacons -> (0..moment) \cup {Nil}]
      /\ errors' \in 0..MaxErrors
  <2>1. errors' \in 0..MaxErrors
    BY <1>0 DEF UsageTypeOK, Drop, CountEvent, LogRow, RecordFails, ForgetCache
  <2>2. /\ beaconAt' \in [Beacons -> {"new", "log", "forget", "done"}]
        /\ \A r \in Replicas : statsCache'[r] \in {statsCache[r], Nil}
        /\ statsCache' \in [Replicas -> Totals \cup {Nil}]
    BY <1>0 DEF UsageTypeOK, Drop, CountEvent, LogRow, RecordFails, ForgetCache, BeaconGoes
  <2>3. log' \in [Beacons -> (0..moment) \cup {Nil}]
    <3>1. moment \in 0..moment
      BY <1>0 DEF UsageTypeOK
    <3>2. log' = log \/ log' = [log EXCEPT ![b] = moment]
      BY DEF Drop, CountEvent, LogRow, RecordFails, ForgetCache
    <3> QED
      BY <1>0, <3>1, <3>2 DEF UsageTypeOK
  <2> QED
    BY <2>1, <2>2, <2>3
<1>3. /\ CountsAgree'
      /\ total' \in {total, total + 1} /\ total' \in 0..Cardinality(Beacons)
  <2>0. /\ Answered \in SUBSET Beacons /\ Written \in SUBSET Beacons
        /\ Answered' \in SUBSET Beacons /\ Written' \in SUBSET Beacons /\ total \in Nat
    BY <1>0 DEF Answered, Written, UsageTypeOK
  <2>1. CASE CountEvent(b)
    <3>1. b \notin Answered /\ Answered' = Answered \cup {b} /\ Written' \subseteq Written \cup {b}
          /\ total' = total + 1
      BY <1>0, <2>1 DEF CountEvent, BeaconGoes, Answered, Written, UsageTypeOK
    <3>2. Written \cup {b} \in SUBSET Beacons
      BY <2>0
    <3>3. /\ Cardinality(Answered') = Cardinality(Answered) + 1
          /\ Cardinality(Written') <= Cardinality(Written) + 1
      <4>1. Cardinality(Written') <= Cardinality(Written \cup {b})
        BY <2>0, <3>1, <3>2, BeaconSets
      <4>2. Cardinality(Written \cup {b}) <= Cardinality(Written) + 1
        BY <2>0, BeaconSets
      <4>3. Cardinality(Written') \in Nat /\ Cardinality(Written \cup {b}) \in Nat /\ Cardinality(Written) \in Nat
        BY <2>0, <3>2, BeaconSets
      <4> QED
        BY <2>0, <3>1, <4>1, <4>2, <4>3, BeaconSets
    <3>4. /\ Cardinality(Answered) \in 0..Cardinality(Beacons) /\ Cardinality(Answered') \in 0..Cardinality(Beacons)
          /\ Cardinality(Written) \in Nat /\ Cardinality(Written') \in Nat /\ Cardinality(Beacons) \in Nat
      BY <1>0, <2>0, BeaconSets, FS_CardinalityType
    <3>5. total' <= Cardinality(Answered') /\ Cardinality(Written') <= total'
      BY <2>0, <3>1, <3>3, <3>4 DEF CountsAgree
    <3> QED
      BY <2>0, <3>1, <3>4, <3>5 DEF CountsAgree
  <2>2. CASE ~CountEvent(b)
    <3>1. Answered \subseteq Answered' /\ Written' \subseteq Written /\ total' = total
      BY <1>0, <2>2 DEF Drop, LogRow, RecordFails, ForgetCache, BeaconGoes, Answered, Written,
            UsageTypeOK
    <3>2. /\ Cardinality(Answered) <= Cardinality(Answered') /\ Cardinality(Written') <= Cardinality(Written)
          /\ Cardinality(Answered) \in Nat /\ Cardinality(Answered') \in Nat
          /\ Cardinality(Written) \in Nat /\ Cardinality(Written') \in Nat
      BY <2>0, <3>1, BeaconSets
    <3> QED
      BY <1>0, <2>0, <3>1, <3>2 DEF CountsAgree, UsageTypeOK
  <2> QED
    BY <2>1, <2>2
<1>4. UsageTypeOK'
  <2>1. total' \in Nat /\ total <= total' /\ moment' = moment /\ moment \in Nat
    BY <1>0, <1>1, <1>3 DEF UsageTypeOK
  <2>2. /\ Totals \subseteq Totals'
        /\ \A x : x \in [now : 0..moment, at : 0..moment, found : SUBSET Beacons, total : 0..total]
              => x \in [now : 0..moment', at : 0..moment', found : SUBSET Beacons, total : 0..total']
    BY <1>0, <2>1, TotalsGrow
  <2>3. /\ read' \in [Visits -> Totals' \cup {Nil}] /\ told' \in [Visits -> Totals' \cup {Nil}]
        /\ statsCache' \in [Replicas -> Totals' \cup {Nil}]
    BY <1>0, <1>1, <1>2, <2>2 DEF UsageTypeOK
  <2>4. series' \in [SeriesReads ->
          [now : 0..moment', at : 0..moment', found : SUBSET Beacons, total : 0..total']]
    BY <1>0, <1>1, <2>2 DEF UsageTypeOK
  <2> QED
    BY <1>0, <1>1, <1>2, <1>3, <2>3, <2>4 DEF UsageTypeOK
<1>5. total' \in Nat /\ total <= total' /\ total \in Nat
  BY <1>0, <1>3 DEF UsageTypeOK
<1>6. TotalsAgree'
  BY <1>0, <1>1, <1>2, <1>5, TotalsKept
<1>7. SeriesAgrees'
  <2>1. \A q \in SeriesReads : Cardinality(series[q].found) \in Nat
    BY <1>0, BeaconSets DEF UsageTypeOK
  <2> QED
    BY <1>1, <1>5, <2>1 DEF SeriesAgrees
<1>8. NoBucketIsStarved'
  <2>1. \A d \in Beacons : log'[d] = log[d] \/ log'[d] = moment
    BY <1>0 DEF UsageTypeOK, Drop, CountEvent, LogRow, RecordFails, ForgetCache
  <2>2. \A q \in SeriesReads : series[q].at \in 0..moment /\ moment \in Nat
    BY <1>0 DEF UsageTypeOK
  <2> QED
    BY <1>1, <2>1, <2>2 DEF NoBucketIsStarved
<1> QED
  BY <1>3, <1>4, <1>6, <1>7, <1>8

\* A visitor is told what the replica has cached, or what it read itself.
LEMMA VisitKeeps ==
  ASSUME UsageIInv, NEW v \in Visits, FromCache(v) \/ ReadTotals(v) \/ FillCache(v)
  PROVE  UsageIInv'
<1> USE DEF UsageIInv
<1>0. UsageTypeOK /\ UsageAssumption /\ TotalsAgree /\ moment \in Nat /\ total \in Nat
      /\ CacheTtl \in Nat /\ MaxRead \in Nat /\ \A k \in 1..moment : totalAt[k] \in Nat
  BY UsageAssumption DEF UsageTypeOK, UsageAssumption
<1>1. UNCHANGED <<moment, total, log, beaconAt, seriesAt, home, series, totalAt, errors>>
  BY DEF FromCache, ReadTotals, FillCache
<1>2. home[v] \in Replicas
  BY <1>0 DEF UsageTypeOK
<1>3. UsageTypeOK' /\ TotalsAgree'
  <2>1. CASE FromCache(v)
    <3>1. /\ statsCache[home[v]] # Nil /\ statsCache[home[v]] \in Totals
          /\ Knows(statsCache[home[v]], MaxRead) /\ moment - statsCache[home[v]].at < CacheTtl
      BY <1>0, <1>2, <2>1 DEF FromCache, Fresh, UsageTypeOK, TotalsAgree
    <3> DEFINE new == [data |-> statsCache[home[v]].data, at |-> moment]
    <3>2. /\ told' = [told EXCEPT ![v] = new] /\ visitAt' = [visitAt EXCEPT ![v] = "done"]
          /\ UNCHANGED <<statsCache, read>>
      BY <2>1 DEF FromCache, Answer
    <3>3. new \in Totals /\ Knows(new, CacheTtl + MaxRead)
      BY <1>0, <3>1 DEF Totals, Knows
    <3> HIDE DEF new
    <3> QED
      BY <1>0, <1>1, <3>2, <3>3 DEF UsageTypeOK, TotalsAgree, Totals, Knows
  <2>2. CASE ReadTotals(v)
    <3> DEFINE new == [data |-> total, at |-> moment]
    <3>1. /\ read' = [read EXCEPT ![v] = new] /\ visitAt' = [visitAt EXCEPT ![v] = "read"]
          /\ UNCHANGED <<statsCache, told>>
      BY <2>2 DEF ReadTotals
    <3>2. new \in Totals /\ Knows(new, 0) /\ moment - new.at <= MaxRead
      BY <1>0 DEF Totals, Knows, TotalsAgree
    <3> HIDE DEF new
    <3> QED
      BY <1>0, <1>1, <3>1, <3>2 DEF UsageTypeOK, TotalsAgree, Totals, Knows
  <2>3. CASE FillCache(v)
    <3>1. read[v] \in Totals /\ Knows(read[v], 0) /\ moment - read[v].at <= MaxRead
      BY <1>0, <2>3 DEF FillCache, TotalsAgree
    <3> DEFINE new == [data |-> read[v].data, at |-> moment]
    <3>2. /\ told' = [told EXCEPT ![v] = new] /\ visitAt' = [visitAt EXCEPT ![v] = "done"]
          /\ statsCache' = [statsCache EXCEPT ![home[v]] = new] /\ UNCHANGED read
      BY <2>3 DEF FillCache, Answer
    <3>3. new \in Totals /\ Knows(new, CacheTtl + MaxRead) /\ Knows(new, MaxRead)
      BY <1>0, <3>1 DEF Totals, Knows
    <3> HIDE DEF new
    <3> QED
      BY <1>0, <1>1, <1>2, <3>2, <3>3 DEF UsageTypeOK, TotalsAgree, Totals, Knows
  <2> QED
    BY <2>1, <2>2, <2>3
<1>4. CountsAgree' /\ SeriesAgrees' /\ NoBucketIsStarved'
  BY <1>1 DEF CountsAgree, Answered, Written, SeriesAgrees, NoBucketIsStarved
<1> QED
  BY <1>3, <1>4

\* The first bucket begins a whole number of periods ago, which the scan reaches.
LEMMA FirstBucket ==
  ASSUME NEW t \in Nat, NEW clock \in Nat, PeriodOf(t) \in Periods(clock)
  PROVE  t >= clock - Span
<1> DEFINE p == PeriodOf(t)  n == PeriodOf(clock)  w == n + 1 - p
<1>1. Period \in Nat \ {0} /\ Window \in Nat \ {0} /\ Span \in Nat /\ Span >= Window * Period
  BY UsageAssumption
<1>2. p \in Int /\ n \in Int /\ p * Period <= t /\ clock < (n + 1) * Period
  BY <1>1 DEF PeriodOf
<1>3. w \in Int /\ w <= Window
  BY <1>1, <1>2 DEF Periods
<1>4. w * Period <= Window * Period
  BY <1>1, <1>3
<1>5. (n + 1) * Period - p * Period = w * Period
  BY <1>1, <1>2
<1>6. /\ (n + 1) * Period \in Int /\ p * Period \in Int /\ w * Period \in Int
      /\ Window * Period \in Int
  BY <1>1, <1>2, <1>3
<1> HIDE DEF p, n, w
<1> QED
  BY <1>1, <1>2, <1>4, <1>5, <1>6

\* The rows are read, then the totals.
LEMMA SeriesKeeps ==
  ASSUME UsageIInv, NEW q \in SeriesReads, StartSeries(q) \/ ReadRows(q) \/ ReadSeriesTotals(q)
  PROVE  UsageIInv'
<1> USE DEF UsageIInv
<1>0. UsageTypeOK /\ moment \in Nat /\ total \in Nat
  BY DEF UsageTypeOK
<1>1. UNCHANGED <<moment, total, log, beaconAt, visitAt, home, statsCache, read, told, totalAt, errors>>
  BY DEF StartSeries, ReadRows, ReadSeriesTotals
<1> DEFINE SeriesRecords == [now : 0..moment, at : 0..moment, found : SUBSET Beacons,
      total : 0..total]
<1>2. PICK s \in SeriesRecords, next \in {"rows", "totals", "done"} :
        /\ series' = [series EXCEPT ![q] = s] /\ seriesAt' = [seriesAt EXCEPT ![q] = next]
        /\ next = "totals" => s.found = Bucketed(s.now) /\ s.at = moment
        /\ next = "done" => /\ seriesAt[q] = "totals" /\ s.total = total
                            /\ s.found = series[q].found /\ s.at = series[q].at /\ s.now = series[q].now
  <2>0. series[q] \in SeriesRecords
    BY <1>0 DEF UsageTypeOK
  <2>1. CASE StartSeries(q)
    <3> DEFINE s == [series[q] EXCEPT !.now = moment]
    <3>1. s = [now |-> moment, at |-> series[q].at, found |-> series[q].found, total |-> series[q].total]
      BY <2>0
    <3>2. s \in SeriesRecords
      BY <1>0, <2>0, <3>1
    <3>3. series' = [series EXCEPT ![q] = s]
      BY <1>0, <2>1 DEF StartSeries, UsageTypeOK
    <3>4. seriesAt' = [seriesAt EXCEPT ![q] = "rows"]
      BY <2>1 DEF StartSeries
    <3> QED
      BY <3>2, <3>3, <3>4
  <2>2. CASE ReadRows(q)
    <3> DEFINE f == Bucketed(series[q].now)
               s == [series[q] EXCEPT !.found = f, !.at = moment]
    <3>1. f \in SUBSET Beacons
      BY DEF Bucketed, Scanned
    <3> HIDE DEF f
    <3>0. s = [now |-> series[q].now, at |-> moment, found |-> f, total |-> series[q].total]
      <4> DEFINE x == series[q]  y == [x EXCEPT !.found = f]
      <4>1. x \in SeriesRecords
        BY <2>0
      <4> HIDE DEF x
      <4>2. y = [now |-> x.now, at |-> x.at, found |-> f, total |-> x.total]
        BY <4>1
      <4>3. s = [y EXCEPT !.at = moment]
        BY DEF x
      <4> HIDE DEF y, s
      <4> QED
        BY <4>2, <4>3 DEF x
    <3>2. s \in SeriesRecords /\ s.now = series[q].now /\ s.found = f /\ s.at = moment
      BY <1>0, <2>0, <3>0, <3>1
    <3>3. series' = [series EXCEPT ![q] = s]
      BY <1>0, <2>2 DEF ReadRows, UsageTypeOK, f
    <3>4. seriesAt' = [seriesAt EXCEPT ![q] = "totals"]
      BY <2>2 DEF ReadRows
    <3> QED
      BY <3>2, <3>3, <3>4 DEF f
  <2>3. CASE ReadSeriesTotals(q)
    <3> DEFINE s == [series[q] EXCEPT !.total = total]
    <3>1. s = [now |-> series[q].now, at |-> series[q].at, found |-> series[q].found, total |-> total]
      BY <2>0
    <3>2. s \in SeriesRecords
      BY <1>0, <2>0, <3>1
    <3>3. series' = [series EXCEPT ![q] = s]
      BY <1>0, <2>3 DEF ReadSeriesTotals, UsageTypeOK
    <3>4. seriesAt' = [seriesAt EXCEPT ![q] = "done"] /\ seriesAt[q] = "totals"
      BY <2>3 DEF ReadSeriesTotals
    <3>5. s.total = total /\ s.found = series[q].found /\ s.at = series[q].at /\ s.now = series[q].now
      BY <3>1
    <3> QED
      BY <3>2, <3>3, <3>4, <3>5
  <2> QED
    BY <2>1, <2>2, <2>3
<1>3. UsageTypeOK' /\ TotalsAgree' /\ CountsAgree'
  BY <1>0, <1>1, <1>2 DEF UsageTypeOK, TotalsAgree, CountsAgree, Totals, Knows, Answered, Written
<1>4. SeriesAgrees'
  <2>1. Bucketed(s.now) \subseteq Written
    BY DEF Bucketed, Scanned, Written
  <2>2. Cardinality(Bucketed(s.now)) <= total
    <3>1. /\ Cardinality(Bucketed(s.now)) <= Cardinality(Written) /\ Cardinality(Written) <= total
          /\ Cardinality(Bucketed(s.now)) \in Nat /\ Cardinality(Written) \in Nat
      <4>1. Written \in SUBSET Beacons /\ Bucketed(s.now) \in SUBSET Beacons
        BY DEF Written, Bucketed, Scanned
      <4> QED
        BY <2>1, <4>1, BeaconSets DEF CountsAgree
    <3> QED
      BY <1>0, <3>1
  <2> QED
    BY <1>0, <1>1, <1>2, <2>2 DEF SeriesAgrees, UsageTypeOK
<1>5. NoBucketIsStarved'
  <2>1. ASSUME NEW r \in SeriesReads, seriesAt'[r] \in {"totals", "done"}, NEW b \in Beacons, log'[b] # Nil,
               log'[b] < series'[r].at, PeriodOf(log'[b]) \in Periods(series'[r].now)
        PROVE  b \in series'[r].found
    <3>1. CASE r # q
      BY <1>0, <1>1, <1>2, <2>1, <3>1 DEF NoBucketIsStarved, UsageTypeOK
    <3>2. CASE r = q /\ next = "totals"
      <4>1. series'[r] = s /\ log[b] # Nil /\ log[b] \in Nat /\ s.now \in Nat
            /\ PeriodOf(log[b]) \in Periods(s.now)
        BY <1>0, <1>1, <1>2, <2>1, <3>2 DEF UsageTypeOK
      <4>2. log[b] >= s.now - Span
        BY <4>1, FirstBucket
      <4> QED
        BY <1>2, <3>2, <4>1, <4>2 DEF Bucketed, Scanned
    <3>3. CASE r = q /\ next = "done"
      BY <1>0, <1>1, <1>2, <2>1, <3>3 DEF NoBucketIsStarved, UsageTypeOK
    <3> QED
      BY <1>0, <1>2, <2>1, <3>1, <3>2, <3>3 DEF UsageTypeOK
  <2> QED
    BY <2>1 DEF NoBucketIsStarved, PeriodOf, Periods
<1> QED
  BY <1>3, <1>4, <1>5

\* The total of a tick is what there was when it ended.
LEMMA MomentKeeps ==
  ASSUME UsageIInv, MomentPasses
  PROVE  UsageIInv'
<1> USE DEF UsageIInv
<1>0. UsageTypeOK /\ moment \in Nat /\ total \in Nat /\ LastMoment \in Nat
      /\ MaxRead \in Nat /\ CacheTtl \in Nat
  BY UsageAssumption DEF UsageTypeOK
<1>1. /\ moment' = moment + 1 /\ moment < LastMoment /\ totalAt' = Append(totalAt, total)
      /\ UNCHANGED <<total, log, beaconAt, visitAt, seriesAt, home, statsCache, read, told, series, errors>>
      /\ \A v \in Visits : visitAt[v] = "read" => moment - read[v].at < MaxRead
  BY DEF MomentPasses
<1>2. /\ totalAt' \in Seq(Nat) /\ Len(totalAt') = moment'
      /\ totalAt'[moment'] = total
      /\ \A k \in 1..moment : totalAt'[k] = totalAt[k]
  BY <1>0, <1>1 DEF UsageTypeOK
<1>3. /\ Totals \subseteq Totals' /\ 0..moment \subseteq 0..moment'
      /\ \A x : x \in [now : 0..moment, at : 0..moment, found : SUBSET Beacons, total : 0..total]
            => x \in [now : 0..moment', at : 0..moment', found : SUBSET Beacons, total : 0..total']
  BY <1>0, <1>1, TotalsGrow
<1>4. UsageTypeOK'
  <2>1. /\ read' \in [Visits -> Totals' \cup {Nil}] /\ told' \in [Visits -> Totals' \cup {Nil}]
        /\ statsCache' \in [Replicas -> Totals' \cup {Nil}]
        /\ log' \in [Beacons -> (0..moment') \cup {Nil}]
    BY <1>0, <1>1, <1>3 DEF UsageTypeOK
  <2>2. series' \in [SeriesReads ->
          [now : 0..moment', at : 0..moment', found : SUBSET Beacons, total : 0..total']]
    BY <1>0, <1>1, <1>3 DEF UsageTypeOK
  <2>3. moment' \in 0..LastMoment
    BY <1>0, <1>1
  <2> QED
    BY <1>0, <1>1, <1>2, <2>1, <2>2, <2>3 DEF UsageTypeOK
<1>5. TotalsAgree'
  <2>1. \A x \in Totals : x.at <= moment /\ x.at \in Nat
    BY <1>0 DEF Totals
  <2>2. ASSUME NEW x \in Totals, NEW age \in Nat, Knows(x, age)
        PROVE  \A k \in 1..moment' : k <= x.at - age => totalAt'[k] <= x.data
    BY <1>0, <1>1, <1>2, <2>1, <2>2 DEF Knows
  <2>3. \A k \in 1..moment' : totalAt'[k] <= total'
    BY <1>0, <1>1, <1>2 DEF TotalsAgree
  <2>4. \A r \in Replicas : statsCache'[r] # Nil => Knows(statsCache[r], MaxRead)'
    BY <1>0, <1>1, <2>2 DEF TotalsAgree, UsageTypeOK, Knows
  <2>5. ASSUME NEW v \in Visits, visitAt'[v] = "read"
        PROVE  read'[v] \in Totals' /\ Knows(read[v], 0)' /\ moment' - read'[v].at <= MaxRead
    <3>1. read[v] \in Totals /\ Knows(read[v], 0) /\ moment - read[v].at < MaxRead /\ read' = read
      BY <1>1, <2>5 DEF TotalsAgree
    <3>2. \A k \in 1..moment' : k <= read[v].at - 0 => totalAt'[k] <= read[v].data
      BY <2>2, <3>1
    <3>3. read[v].at \in Nat /\ read'[v] \in Totals'
      BY <1>3, <2>1, <3>1
    <3>4. moment' - read'[v].at <= MaxRead
      BY <1>0, <1>1, <3>1, <3>3
    <3> QED
      BY <3>1, <3>2, <3>3, <3>4 DEF Knows
  <2>6. ASSUME NEW v \in Visits, told'[v] # Nil
        PROVE  Knows(told[v], CacheTtl + MaxRead)'
    <3>1. told[v] \in Totals /\ Knows(told[v], CacheTtl + MaxRead) /\ told' = told
          /\ CacheTtl + MaxRead \in Nat
      BY <1>0, <1>1, <2>6 DEF TotalsAgree, UsageTypeOK
    <3> DEFINE age == CacheTtl + MaxRead
    <3> HIDE DEF age
    <3>2. \A k \in 1..moment' : k <= told[v].at - age => totalAt'[k] <= told[v].data
      BY <2>2, <3>1 DEF age
    <3> QED
      BY <3>1, <3>2 DEF Knows, age
  <2> QED
    BY <2>3, <2>4, <2>5, <2>6 DEF TotalsAgree
<1>6. CountsAgree' /\ SeriesAgrees' /\ NoBucketIsStarved'
  BY <1>1 DEF CountsAgree, Answered, Written, SeriesAgrees, NoBucketIsStarved
<1> QED
  BY <1>4, <1>5, <1>6

LEMMA UsageStep == UsageIInv /\ [UsageNext]_usageVars => UsageIInv'
<1> SUFFICES ASSUME UsageIInv, [UsageNext]_usageVars PROVE UsageIInv'
  OBVIOUS
<1>1. CASE UNCHANGED usageVars
  BY <1>1 DEF usageVars, UsageIInv, UsageTypeOK, CountsAgree, TotalsAgree, SeriesAgrees,
        NoBucketIsStarved,
    Totals, Knows, Answered, Written, PeriodOf, Periods
<1> QED
  BY <1>1, BeaconKeeps, VisitKeeps, SeriesKeeps, MomentKeeps DEF UsageNext

LEMMA UsageIInvIsEnough == UsageIInv => UsageInv
<1> SUFFICES ASSUME UsageIInv PROVE UsageInv
  OBVIOUS
<1> USE DEF UsageIInv
<1>0. UsageTypeOK /\ moment \in Nat /\ MaxRead \in Nat /\ CacheTtl \in Nat
  BY UsageAssumption DEF UsageTypeOK
<1>1. AnswerIsRecent
  <2>1. ASSUME NEW v \in Visits, told[v] # Nil, told[v].at - CacheTtl - MaxRead >= 1
        PROVE  totalAt[told[v].at - CacheTtl - MaxRead] <= told[v].data
    <3>1. told[v].at \in 0..moment /\ Knows(told[v], CacheTtl + MaxRead)
      BY <1>0, <2>1 DEF UsageTypeOK, TotalsAgree, Totals
    <3> QED
      BY <1>0, <2>1, <3>1 DEF Knows
  <2> QED
    BY <2>1 DEF AnswerIsRecent
<1>2. SeriesWithinTotals
  BY DEF SeriesAgrees, SeriesWithinTotals
<1> QED
  BY <1>0, <1>1, <1>2 DEF UsageInv

\* routes/stats.ts, series-read.ts: whatever is recorded or half recorded meanwhile
\* and on whichever replica, an answer lacks no event counted longer ago than the
\* cache lives and a read takes, and a series shows no more events in its buckets
\* than in its totals, and all that were written before it was read.
THEOREM UsageInvariance == UsageSpec => []UsageInv
  BY UsageInitIInv, UsageStep, UsageIInvIsEnough, PTL DEF UsageSpec

-----------------------------------------------------------------------------
(* The rate limiter.                                                       *)

USE BucketAssumption DEF bucketVars, Buckets, Windows

\* No call is older or newer than the clocks allow, and so neither is the
\* bucket's time when Redis forgets it.
ClocksAgree ==
  /\ \A c \in Callers : stamp[c] # Void => instant - Lag <= stamp[c] /\ stamp[c] <= instant + Lead
  /\ bucket # Void => bucket.ts <= bucket.until - Ttl + Lead /\ bucket.until <= instant + Ttl

\* What was spent and what is left come from a full bucket and the calls' time.
SpentAndLeft ==
  window # Void =>
    /\ bucket # Void
    /\ window.spent + bucket.tokens <= Full + (bucket.ts - window.since) + window.rewound

\* A refused call was told when the bucket it left behind holds a token.
PromiseIsKept ==
  promised # Void =>
    /\ bucket # Void /\ bucket.tokens < PerToken
    /\ promised = bucket.ts + (PerToken - bucket.tokens)

BucketIInv == BucketTypeOK /\ ClocksAgree /\ SpentAndLeft /\ PromiseIsKept

\* The key outlives a full refill by more than the clocks disagree.
LEMMA TtlOutlivesRefill == Ttl \in Nat /\ Ttl >= Full + Lead + Lag
  BY DEF Ttl

\* A bucket that is alive is refilled for the time that passed, one that was
\* forgotten is full.
LEMMA RefilledBounds ==
  ASSUME BucketTypeOK, NEW s \in Int
  PROVE  /\ Refilled(s) \in 0..Full
         /\ Alive => Refilled(s) <= bucket.tokens + (IF bucket.ts < s THEN s - bucket.ts ELSE 0)
         /\ ~Alive => Refilled(s) = Full
  <1>1. CASE Alive
    BY <1>1 DEF Refilled, Alive, BucketTypeOK
  <1>2. CASE ~Alive
    BY <1>2 DEF Refilled, BucketTypeOK
  <1> QED
    BY <1>1, <1>2

LEMMA BucketInitIInv == BucketInit => BucketIInv
  BY DEF BucketInit, BucketIInv, BucketTypeOK, ClocksAgree, SpentAndLeft, PromiseIsKept

\* The script, whichever call runs it.
LEMMA ScriptStep ==
  ASSUME BucketIInv, NEW c \in Callers, Script(c)
  PROVE  BucketIInv'
  <1> DEFINE s == stamp[c]
             left == Refilled(s) - Spent(s)
  <1> USE DEF BucketIInv
  <1>1. s \in Int /\ instant - Lag <= s /\ s <= instant + Lead /\ instant \in Nat
    BY DEF Script, ClocksAgree, BucketTypeOK
  <1>2. Refilled(s) \in 0..Full /\ Spent(s) \in {0, PerToken} /\ left \in 0..Full
    BY <1>1, RefilledBounds DEF Spent
  <1>3. bucket' = [tokens |-> left, ts |-> s, until |-> instant + Ttl] /\ UNCHANGED instant
    BY DEF Script
  <1>4. bucket' \in Buckets /\ bucket' # Void
    BY <1>1, <1>2, <1>3, TtlOutlivesRefill
  <1>5. bucket'.tokens = left /\ bucket'.ts = s /\ bucket'.until = instant + Ttl
    BY <1>3
  <1>6. stamp' \in [Callers -> Int \cup {Void}]
    BY DEF Script, BucketTypeOK
  <1>7. ASSUME window = Void PROVE window' = Void /\ SpentAndLeft'
    <2>1. window' = Void
      BY <1>7 DEF Script
    <2> QED
      BY <2>1 DEF SpentAndLeft
  <1>8. ASSUME window # Void
        PROVE  /\ window' \in Windows /\ window'.since = window.since
               /\ window'.spent = window.spent + Spent(s)
               /\ window'.rewound = window.rewound + Rewound(s)
               /\ Rewound(s) = IF s < bucket.ts THEN bucket.ts - s ELSE 0
    <2>1. bucket \in Buckets /\ window \in Windows
      BY <1>8 DEF BucketTypeOK, SpentAndLeft
    <2>2. Rewound(s) \in Nat /\ Rewound(s) = IF s < bucket.ts THEN bucket.ts - s ELSE 0
      BY <1>1, <2>1 DEF Rewound
    <2>3. window' = [window EXCEPT !.spent = @ + Spent(s), !.rewound = @ + Rewound(s)]
      BY <1>8 DEF Script
    <2>4. Spent(s) \in Nat
      BY <1>2
    <2> DEFINE spent == Spent(s)  rewound == Rewound(s)
    <2> HIDE DEF s, spent, rewound
    <2>5. spent \in Nat /\ rewound \in Nat /\ window' = [window EXCEPT !.spent = @ + spent,
    !.rewound = @ + rewound]
      BY <2>2, <2>3, <2>4 DEF spent, rewound
    <2>6. window' \in Windows /\ window'.since = window.since
          /\ window'.spent = window.spent + spent /\ window'.rewound = window.rewound + rewound
      <3>1. window' = [since |-> window.since, spent |-> window.spent + spent,
      rewound |-> window.rewound + rewound]
        BY <2>1, <2>5
      <3> QED
        BY <2>1, <2>5, <3>1
    <2> QED
      BY <2>2, <2>6 DEF spent, rewound
  <1>9. ASSUME window # Void, Alive PROVE SpentAndLeft'
    <2>1. Refilled(s) <= bucket.tokens + (IF bucket.ts < s THEN s - bucket.ts ELSE 0)
      BY <1>1, <1>9, RefilledBounds
    <2> QED
      BY <1>1, <1>2, <1>4, <1>5, <1>8, <1>9, <2>1 DEF SpentAndLeft, BucketTypeOK
  <1>10. ASSUME window # Void, ~Alive PROVE SpentAndLeft'
    \* It was forgotten: the calls' time went on for longer than a refill.
    <2>1. s - bucket.ts >= Full
      BY <1>1, <1>10, TtlOutlivesRefill DEF Alive, ClocksAgree, SpentAndLeft, BucketTypeOK
    <2> QED
      BY <1>1, <1>2, <1>4, <1>5, <1>8, <1>10, <2>1 DEF SpentAndLeft, BucketTypeOK
  <1>11. ClocksAgree'
    BY <1>1, <1>3, <1>4, <1>5, <1>6, TtlOutlivesRefill DEF Script, ClocksAgree, BucketTypeOK
  <1>12. promised' \in Int \cup {Void} /\ PromiseIsKept'
    BY <1>1, <1>2, <1>4, <1>5 DEF Script, PromiseIsKept, Spent
  <1>13. BucketTypeOK'
    BY <1>3, <1>4, <1>6, <1>7, <1>8, <1>12 DEF BucketTypeOK, Script
  <1> QED
    BY <1>7, <1>9, <1>10, <1>11, <1>12, <1>13

LEMMA BucketStep == BucketIInv /\ [BucketNext]_bucketVars => BucketIInv'
  <1> SUFFICES ASSUME BucketIInv, [BucketNext]_bucketVars PROVE BucketIInv'
    OBVIOUS
  <1>1. ASSUME NEW c \in Callers, Call(c) PROVE BucketIInv'
    BY <1>1, TtlOutlivesRefill
       DEF BucketIInv, BucketTypeOK, ClocksAgree, SpentAndLeft, PromiseIsKept, Call
  <1>2. ASSUME NEW c \in Callers, Script(c) PROVE BucketIInv'
    BY <1>2, ScriptStep
  <1>3. CASE Watch
    BY <1>3 DEF BucketIInv, BucketTypeOK, ClocksAgree, SpentAndLeft, PromiseIsKept, Watch
  <1>4. CASE InstantPasses
    BY <1>4, TtlOutlivesRefill
       DEF BucketIInv, BucketTypeOK, ClocksAgree, SpentAndLeft, PromiseIsKept, InstantPasses
  <1>5. CASE UNCHANGED bucketVars
    BY <1>5 DEF BucketIInv, BucketTypeOK, ClocksAgree, SpentAndLeft, PromiseIsKept
  <1> QED
    BY <1>1, <1>2, <1>3, <1>4, <1>5 DEF BucketNext

LEMMA BucketIInvIsEnough == BucketIInv => BucketInv
  <1> SUFFICES ASSUME BucketIInv PROVE BucketInv
    OBVIOUS
  <1> USE DEF BucketIInv
  <1>1. NoMoreThanRefilled
    BY DEF NoMoreThanRefilled, SpentAndLeft, BucketTypeOK
  <1>2. ASSUME promised # Void, NEW s \in {promised, promised + 1}
        PROVE  Refilled(s) >= PerToken
    <2>1. s \in Int /\ bucket \in Buckets /\ s >= bucket.ts + (PerToken - bucket.tokens)
          /\ bucket.tokens < PerToken
      BY <1>2 DEF PromiseIsKept, BucketTypeOK
    <2>2. CASE Alive
      BY <2>1, <2>2 DEF Refilled
    <2>3. CASE ~Alive
      BY <2>1, <2>3 DEF Refilled
    <2> QED
      BY <2>2, <2>3
  <1> QED
    BY <1>1, <1>2 DEF BucketInv, WaitIsEnough

\* rate-limit.ts: over any stretch of calls, however they overlap and however
\* their clocks disagree, no more is let through than a full bucket and what
\* their own time refilled, what was refilled twice included; and whoever waits
\* as long as it was told is let through.
THEOREM BucketInvariant == BucketSpec => []BucketInv
  BY BucketInitIInv, BucketStep, BucketIInvIsEnough, PTL DEF BucketSpec

-----------------------------------------------------------------------------
(* The inbox: what a row says of the object, of the code and of WhatsApp.  *)
(* The lemmas take one action of InboxLifecycle each.                      *)

Past == {"store", "notify", "done", "failed"}
Over(d) == HasRow(d) /\ rows[d].ttlAt < now

\* A row is made by its delivery, once; the code after it, to end before it does,
\* since the clock waits for that one call; the object before it.
RowsAreMade == \A d \in Deliveries : HasRow(d) => at[d] \in Past /\ rows[d].message = msg[d]
StoredNow == \A d \in Deliveries : at[d] = "store" => HasRow(d) /\ rows[d].ttlAt = now + RowTtl
CodesEndFirst == \A d \in Deliveries : Live(codes[d]) => HasRow(d) /\ codes[d] <= rows[d].ttlAt
UploadedFirst == \A d \in Deliveries : at[d] = "create" => d \in objects

\* A send that erases has marked a row that no delivery makes again.
SendsFollow ==
  \A s \in Sends :
    /\ sendAt[s] = "mark" => s \in delivered[sendOf[s]]
    /\ sendAt[s] = "erase" => at[sendOf[s]] \in Past /\ rows[sendOf[s]].status # "PENDING"

\* What the sweep has in hand, and what it marked, had its term.
SweptIsOver ==
  /\ cleaner.since <= now
  /\ cleaner.pc \in {"erase", "mark"} => cleaner.row \in Deliveries /\ Over(cleaner.row)
  /\ cleaner.pc = "mark" => cleaner.row \notin objects
  /\ \A d \in cleaner.left : Over(d)
DeletedIsOver == \A d \in Deliveries : rows[d].status = "DELETED" => rows[d].ttlAt < now

InboxIInv ==
  /\ InboxTypeOK /\ RowsAreMade /\ StoredNow /\ CodesEndFirst /\ UploadedFirst
  /\ SendsFollow /\ SweptIsOver /\ DeletedIsOver
  /\ PendingHasObject /\ SentWasDelivered /\ DeletedHasNoObject

RowType == [status : Statuses, message : WaMessages, ttlAt : Nat, deletedAt : 0..LastTick]

LEMMA RowShape ==
  ASSUME InboxTypeOK, NEW d \in Deliveries
  PROVE  /\ HasRow(d) => rows[d] \in RowType
         /\ HasRow(d) <=> rows[d].status \in Statuses
         /\ rows[d].ttlAt \in Nat
<1>1. rows[d] = NoRow \/ rows[d] \in RowType
  BY DEF InboxTypeOK, RowType
<1> QED
  BY <1>1 DEF HasRow, NoRow, RowType, Statuses

LEMMA InboxNumbers ==
  /\ {OtpTtl, TokenTtl, RowTtl, Retention, BatchSize} \subseteq Nat \ {0} /\ OtpTtl < RowTtl
  /\ {LastArrival, LastTick, MaxFaults} \subseteq Nat
  BY InboxAssumption

\* A delivery arrives.
LEMMA ArriveInbox ==
  ASSUME InboxIInv, NEW d \in Deliveries, Arrive(d)
  PROVE  InboxIInv'
<1> USE DEF InboxIInv, Arrive, webhook, outboxRoute
<1>1. InboxTypeOK'
  BY InboxNumbers DEF InboxTypeOK
<1>2. RowsAreMade' /\ StoredNow' /\ CodesEndFirst' /\ UploadedFirst' /\ DeletedIsOver'
  BY DEF InboxTypeOK, RowsAreMade, HasRow, Past, StoredNow, CodesEndFirst, Live, UploadedFirst,
      DeletedIsOver
<1>3. SendsFollow' /\ SweptIsOver'
  BY DEF InboxTypeOK, SendsFollow, Past, SweptIsOver, Over, HasRow
<1>4. PendingHasObject' /\ SentWasDelivered' /\ DeletedHasNoObject'
  BY DEF InboxTypeOK, PendingHasObject, SentWasDelivered, DeletedHasNoObject
<1> QED
  BY <1>1, <1>2, <1>3, <1>4

\* Its PDF is stored.
LEMMA UploadInbox ==
  ASSUME InboxIInv, NEW d \in Deliveries, Upload(d)
  PROVE  InboxIInv'
<1> USE DEF InboxIInv, Upload, webhook, outboxRoute
<1>1. InboxTypeOK'
  BY InboxNumbers DEF InboxTypeOK
<1>2. RowsAreMade' /\ StoredNow' /\ CodesEndFirst' /\ UploadedFirst' /\ DeletedIsOver'
  BY DEF InboxTypeOK, RowsAreMade, HasRow, Past, StoredNow, CodesEndFirst, Live, UploadedFirst,
      DeletedIsOver
<1>3. SendsFollow' /\ SweptIsOver'
  BY DEF InboxTypeOK, SendsFollow, Past, SweptIsOver, Over, HasRow, RowsAreMade
<1>4. PendingHasObject'
  BY DEF InboxTypeOK, PendingHasObject
<1>5. SentWasDelivered'
  BY DEF InboxTypeOK, SentWasDelivered
<1>6. DeletedHasNoObject'
  BY DEF InboxTypeOK, DeletedHasNoObject, RowsAreMade, Past, HasRow, NoRow
<1> QED
  BY <1>1, <1>2, <1>3, <1>4, <1>5, <1>6

\* Its row is made, for a message that has none.
LEMMA CreateInbox ==
  ASSUME InboxIInv, NEW d \in Deliveries, Create(d)
  PROVE  InboxIInv'
<1> USE DEF InboxIInv, webhook, outboxRoute
<1>1. CASE ~Unique(d)
  <2>1. rows' = rows /\ at' = [at EXCEPT ![d] = "failed"] /\ at[d] = "create"
        /\ UNCHANGED <<now, objects, codes, msg, linkAt, token, outboxRoute, cleaner, faults>>
    BY <1>1 DEF Create
  <2>2. InboxTypeOK'
    BY <2>1 DEF InboxTypeOK
  <2>3. \A e \in Deliveries : at[e] \in Past => at'[e] \in Past
    BY <2>1 DEF InboxTypeOK, Past
  <2>4. RowsAreMade' /\ SendsFollow'
    BY <2>1, <2>3 DEF InboxTypeOK, RowsAreMade, SendsFollow, HasRow
  <2>5. StoredNow' /\ CodesEndFirst' /\ UploadedFirst'
    BY <2>1 DEF InboxTypeOK, StoredNow, CodesEndFirst, UploadedFirst, HasRow, Live
  <2>6. SweptIsOver' /\ DeletedIsOver' /\ PendingHasObject' /\ SentWasDelivered' /\ DeletedHasNoObject'
    BY <2>1 DEF SweptIsOver, Over, HasRow, DeletedIsOver, PendingHasObject, SentWasDelivered,
          DeletedHasNoObject
  <2> QED
    BY <2>2, <2>4, <2>5, <2>6
<1>2. CASE Unique(d)
  <2>1. rows' = [rows EXCEPT ![d] = NewRow(d)] /\ at' = [at EXCEPT ![d] = "store"] /\ at[d] = "create"
        /\ UNCHANGED <<now, objects, codes, msg, linkAt, token, outboxRoute, cleaner, faults>>
    BY <1>2 DEF Create
  <2>2. NewRow(d) \in RowType /\ NewRow(d).message = msg[d] /\ NewRow(d).status = "PENDING"
        /\ NewRow(d).ttlAt = now + RowTtl /\ NewRow(d) # NoRow
    BY InboxNumbers DEF NewRow, NoRow, RowType, Statuses, InboxTypeOK
  <2>3. /\ ~HasRow(d) /\ HasRow(d)' /\ rows'[d] = NewRow(d) /\ at'[d] = "store"
        /\ \A e \in Deliveries \ {d} : rows'[e] = rows[e] /\ (HasRow(e)' <=> HasRow(e)) /\ at'[e] = at[e]
    BY <2>1, <2>2 DEF InboxTypeOK, RowsAreMade, Past, HasRow
  <2>4. InboxTypeOK'
    <3>1. rows' \in [Deliveries -> {NoRow} \cup RowType]
      BY <2>1, <2>2 DEF InboxTypeOK, RowType
    <3> QED
      BY <2>1, <3>1 DEF InboxTypeOK, RowType
  <2>5. RowsAreMade'
    BY <2>1, <2>2, <2>3 DEF RowsAreMade, Past
  <2>6. StoredNow'
    BY <2>1, <2>2, <2>3 DEF StoredNow
  <2>7. CodesEndFirst'
    BY <2>1, <2>3 DEF CodesEndFirst, Live
  <2>8. UploadedFirst'
    BY <2>1, <2>3 DEF UploadedFirst
  <2>9. SendsFollow'
    BY <2>1, <2>3 DEF SendsFollow, Past, InboxTypeOK
  <2>10. SweptIsOver'
    BY <2>1, <2>3 DEF SweptIsOver, Over, InboxTypeOK
  <2>11. DeletedIsOver' /\ SentWasDelivered' /\ DeletedHasNoObject'
    BY <2>1, <2>2, <2>3 DEF DeletedIsOver, SentWasDelivered, DeletedHasNoObject
  <2>12. PendingHasObject'
    BY <2>1, <2>3 DEF PendingHasObject, UploadedFirst
  <2> QED
    BY <2>4, <2>5, <2>6, <2>7, <2>8, <2>9, <2>10, <2>11, <2>12
<1> QED
  BY <1>1, <1>2

\* Its code is stored within the tick of its row.
LEMMA StoreCodeInbox ==
  ASSUME InboxIInv, NEW d \in Deliveries, StoreCode(d)
  PROVE  InboxIInv'
<1> USE DEF InboxIInv, StoreCode, webhook, outboxRoute
<1>1. InboxTypeOK'
  BY InboxNumbers DEF InboxTypeOK
<1>2. RowsAreMade' /\ StoredNow' /\ CodesEndFirst' /\ UploadedFirst' /\ DeletedIsOver'
  BY InboxNumbers, RowShape DEF InboxTypeOK, RowsAreMade, HasRow, Past, StoredNow, CodesEndFirst,
      Live, UploadedFirst, DeletedIsOver
<1>3. SendsFollow' /\ SweptIsOver'
  BY DEF InboxTypeOK, SendsFollow, Past, SweptIsOver, Over, HasRow
<1>4. PendingHasObject' /\ SentWasDelivered' /\ DeletedHasNoObject'
  BY DEF InboxTypeOK, PendingHasObject, SentWasDelivered, DeletedHasNoObject
<1> QED
  BY <1>1, <1>2, <1>3, <1>4

\* The sender is told.
LEMMA NotifyInbox ==
  ASSUME InboxIInv, NEW d \in Deliveries, Notify(d)
  PROVE  InboxIInv'
<1> USE DEF InboxIInv, Notify, webhook, outboxRoute, MayFail
<1>1. InboxTypeOK'
  BY InboxNumbers DEF InboxTypeOK
<1>2. RowsAreMade' /\ StoredNow' /\ CodesEndFirst' /\ UploadedFirst' /\ DeletedIsOver'
  BY DEF InboxTypeOK, RowsAreMade, HasRow, Past, StoredNow, CodesEndFirst, Live, UploadedFirst,
      DeletedIsOver
<1>3. SendsFollow' /\ SweptIsOver'
  BY DEF InboxTypeOK, SendsFollow, Past, SweptIsOver, Over, HasRow
<1>4. PendingHasObject' /\ SentWasDelivered' /\ DeletedHasNoObject'
  BY DEF InboxTypeOK, PendingHasObject, SentWasDelivered, DeletedHasNoObject
<1> QED
  BY <1>1, <1>2, <1>3, <1>4

\* A delivery fails on the way.
LEMMA WebhookFailsInbox ==
  ASSUME InboxIInv, NEW d \in Deliveries, WebhookFails(d)
  PROVE  InboxIInv'
<1> USE DEF InboxIInv, WebhookFails, webhook, outboxRoute, MayFail
<1>1. InboxTypeOK'
  BY InboxNumbers DEF InboxTypeOK
<1>2. RowsAreMade' /\ StoredNow' /\ CodesEndFirst' /\ UploadedFirst' /\ DeletedIsOver'
  BY DEF InboxTypeOK, RowsAreMade, HasRow, Past, StoredNow, CodesEndFirst, Live, UploadedFirst,
      DeletedIsOver
<1>3. SendsFollow' /\ SweptIsOver'
  BY DEF InboxTypeOK, SendsFollow, Past, SweptIsOver, Over, HasRow
<1>4. PendingHasObject' /\ SentWasDelivered' /\ DeletedHasNoObject'
  BY DEF InboxTypeOK, PendingHasObject, SentWasDelivered, DeletedHasNoObject
<1> QED
  BY <1>1, <1>2, <1>3, <1>4

\* A code is exchanged for a token.
LEMMA VerifyInbox ==
  ASSUME InboxIInv, NEW d \in Deliveries, Verify(d)
  PROVE  InboxIInv'
<1> USE DEF InboxIInv, Verify, webhook, outboxRoute
<1>1. InboxTypeOK'
  BY InboxNumbers DEF InboxTypeOK
<1>2. RowsAreMade' /\ StoredNow' /\ CodesEndFirst' /\ UploadedFirst' /\ DeletedIsOver'
  BY DEF InboxTypeOK, RowsAreMade, HasRow, StoredNow, CodesEndFirst, Live, UploadedFirst,
      DeletedIsOver
<1>3. SendsFollow' /\ SweptIsOver'
  BY DEF InboxTypeOK, SendsFollow, SweptIsOver, Over, HasRow
<1>4. PendingHasObject' /\ SentWasDelivered' /\ DeletedHasNoObject'
  BY DEF InboxTypeOK, PendingHasObject, SentWasDelivered, DeletedHasNoObject
<1> QED
  BY <1>1, <1>2, <1>3, <1>4

\* A send finds its row.
LEMMA FindRowInbox ==
  ASSUME InboxIInv, NEW s \in Sends, FindRow(s)
  PROVE  InboxIInv'
<1> USE DEF InboxIInv, FindRow, webhook, outboxRoute, SendGoes
<1>1. InboxTypeOK'
  BY InboxNumbers DEF InboxTypeOK
<1>2. RowsAreMade' /\ StoredNow' /\ CodesEndFirst' /\ UploadedFirst' /\ DeletedIsOver'
  BY DEF InboxTypeOK, RowsAreMade, HasRow, StoredNow, CodesEndFirst, Live, UploadedFirst,
      DeletedIsOver
<1>3. SendsFollow' /\ SweptIsOver'
  BY DEF InboxTypeOK, SendsFollow, SweptIsOver, Over, HasRow
<1>4. PendingHasObject' /\ SentWasDelivered' /\ DeletedHasNoObject'
  BY DEF InboxTypeOK, PendingHasObject, SentWasDelivered, DeletedHasNoObject
<1> QED
  BY <1>1, <1>2, <1>3, <1>4

\* WhatsApp takes the document.
LEMMA SendDocumentInbox ==
  ASSUME InboxIInv, NEW s \in Sends, SendDocument(s)
  PROVE  InboxIInv'
<1> USE DEF InboxIInv, SendDocument, webhook, outboxRoute, SendGoes
<1>1. InboxTypeOK'
  BY InboxNumbers DEF InboxTypeOK
<1>2. RowsAreMade' /\ StoredNow' /\ CodesEndFirst' /\ UploadedFirst' /\ DeletedIsOver'
  BY DEF InboxTypeOK, RowsAreMade, HasRow, StoredNow, CodesEndFirst, Live, UploadedFirst,
      DeletedIsOver
<1>3. SendsFollow' /\ SweptIsOver'
  BY DEF InboxTypeOK, SendsFollow, SweptIsOver, Over, HasRow
<1>4. PendingHasObject' /\ SentWasDelivered' /\ DeletedHasNoObject'
  BY DEF InboxTypeOK, PendingHasObject, SentWasDelivered, DeletedHasNoObject
<1> QED
  BY <1>1, <1>2, <1>3, <1>4

\* Its row says so.
LEMMA MarkSentInbox ==
  ASSUME InboxIInv, NEW s \in Sends, MarkSent(s)
  PROVE  InboxIInv'
<1> USE DEF InboxIInv, webhook, outboxRoute
<1> DEFINE d == sendOf[s]
<1>1. /\ UNCHANGED <<now, objects, codes, webhook, token, sendOf, delivered, cleaner, faults>>
      /\ sendAt[s] = "mark" /\ d \in Deliveries
  BY DEF MarkSent, InboxTypeOK
<1>2. \/ ~HasRow(d) /\ rows' = rows /\ sendAt' = [sendAt EXCEPT ![s] = "failed"]
      \/ HasRow(d) /\ rows' = [rows EXCEPT ![d].status = "SENT"] /\ sendAt' = [sendAt EXCEPT ![s] = "erase"]
  BY DEF MarkSent, SendGoes
<1>3. \A e \in Deliveries :
        /\ rows'[e] \in {NoRow} \cup RowType
        /\ HasRow(e)' <=> HasRow(e)
        /\ rows'[e].message = rows[e].message /\ rows'[e].ttlAt = rows[e].ttlAt
        /\ rows'[e].status = rows[e].status \/ (e = d /\ HasRow(d) /\ rows'[e].status = "SENT")
  <2>1. CASE rows' = rows
    BY <2>1 DEF InboxTypeOK, RowType, HasRow
  <2>2. CASE HasRow(d) /\ rows' = [rows EXCEPT ![d].status = "SENT"]
    <3>1. rows[d] \in RowType /\ rows'[d] = [rows[d] EXCEPT !.status = "SENT"]
      BY <1>1, <2>2, RowShape DEF InboxTypeOK
    <3>2. rows'[d] \in RowType /\ rows'[d].status = "SENT"
          /\ rows'[d].message = rows[d].message /\ rows'[d].ttlAt = rows[d].ttlAt /\ rows'[d] # NoRow
      BY <3>1 DEF RowType, Statuses, NoRow
    <3> QED
      BY <1>1, <2>2, <3>2 DEF InboxTypeOK, RowType, HasRow
  <2> QED
    BY <1>2, <2>1, <2>2
<1>4. InboxTypeOK'
  <2>1. rows' \in [Deliveries -> {NoRow} \cup RowType]
    BY <1>2, <1>3 DEF InboxTypeOK
  <2> QED
    BY <1>1, <1>2, <2>1 DEF InboxTypeOK, RowType
<1>5. sendAt'[s] # "mark" /\ (sendAt'[s] = "erase" => HasRow(d) /\ rows'[d].status = "SENT")
      /\ \A r \in Sends \ {s} : sendAt'[r] = sendAt[r]
  <2>1. CASE rows' = rows /\ sendAt' = [sendAt EXCEPT ![s] = "failed"]
    BY <2>1 DEF InboxTypeOK
  <2>2. CASE HasRow(d) /\ rows' = [rows EXCEPT ![d].status = "SENT"] /\ sendAt' = [sendAt EXCEPT ![s] = "erase"]
    <3>1. rows[d] \in RowType /\ rows'[d] = [rows[d] EXCEPT !.status = "SENT"]
      BY <1>1, <2>2, RowShape DEF InboxTypeOK
    <3> QED
      BY <2>2, <3>1 DEF InboxTypeOK, RowType
  <2> QED
    BY <1>2, <2>1, <2>2
<1> HIDE DEF d
<1>6. RowsAreMade' /\ StoredNow'
  BY <1>1, <1>3 DEF RowsAreMade, StoredNow
<1>7. CodesEndFirst' /\ UploadedFirst' /\ DeletedIsOver'
  BY <1>1, <1>3 DEF CodesEndFirst, UploadedFirst, DeletedIsOver, Live
<1>8. SendsFollow'
  BY <1>1, <1>3, <1>5 DEF d, SendsFollow, RowsAreMade, InboxTypeOK
<1>9. SweptIsOver'
  BY <1>1, <1>3 DEF SweptIsOver, Over, InboxTypeOK
<1>10. PendingHasObject' /\ DeletedHasNoObject'
  BY <1>1, <1>3 DEF PendingHasObject, DeletedHasNoObject
<1>11. SentWasDelivered'
  BY <1>1, <1>3 DEF d, SentWasDelivered, SendsFollow
<1> QED
  BY <1>4, <1>6, <1>7, <1>8, <1>9, <1>10, <1>11

\* Its object is erased.
LEMMA EraseSentInbox ==
  ASSUME InboxIInv, NEW s \in Sends, EraseSent(s)
  PROVE  InboxIInv'
<1> USE DEF InboxIInv, EraseSent, webhook, outboxRoute, SendGoes, MayFail
<1>1. InboxTypeOK'
  BY InboxNumbers DEF InboxTypeOK
<1>2. RowsAreMade' /\ StoredNow' /\ CodesEndFirst' /\ UploadedFirst' /\ DeletedIsOver'
  BY DEF InboxTypeOK, RowsAreMade, HasRow, StoredNow, CodesEndFirst, Live, UploadedFirst,
      SendsFollow, Past, DeletedIsOver
<1>3. SendsFollow' /\ SweptIsOver'
  BY DEF InboxTypeOK, SendsFollow, SweptIsOver, Over, HasRow
<1>4. PendingHasObject' /\ SentWasDelivered' /\ DeletedHasNoObject'
  BY DEF InboxTypeOK, PendingHasObject, SendsFollow, SentWasDelivered, DeletedHasNoObject
<1> QED
  BY <1>1, <1>2, <1>3, <1>4

\* A send fails on the way.
LEMMA SendFailsInbox ==
  ASSUME InboxIInv, NEW s \in Sends, SendFails(s)
  PROVE  InboxIInv'
<1> USE DEF InboxIInv, SendFails, webhook, outboxRoute, SendGoes, MayFail
<1>1. InboxTypeOK'
  BY InboxNumbers DEF InboxTypeOK
<1>2. RowsAreMade' /\ StoredNow' /\ CodesEndFirst' /\ UploadedFirst' /\ DeletedIsOver'
  BY DEF InboxTypeOK, RowsAreMade, HasRow, StoredNow, CodesEndFirst, Live, UploadedFirst,
      DeletedIsOver
<1>3. SendsFollow' /\ SweptIsOver'
  BY DEF InboxTypeOK, SendsFollow, SweptIsOver, Over, HasRow
<1>4. PendingHasObject' /\ SentWasDelivered' /\ DeletedHasNoObject'
  BY DEF InboxTypeOK, PendingHasObject, SentWasDelivered, DeletedHasNoObject
<1> QED
  BY <1>1, <1>2, <1>3, <1>4

\* A sweep takes the rows that are over.
LEMMA StartSweepInbox ==
  ASSUME InboxIInv, StartSweep
  PROVE  InboxIInv'
<1> USE DEF InboxIInv, StartSweep, webhook, outboxRoute, Expired
<1>1. InboxTypeOK'
  BY InboxNumbers DEF InboxTypeOK
<1>2. RowsAreMade' /\ StoredNow' /\ CodesEndFirst' /\ UploadedFirst' /\ DeletedIsOver'
  BY DEF InboxTypeOK, RowsAreMade, HasRow, StoredNow, CodesEndFirst, Live, UploadedFirst,
      DeletedIsOver
<1>3. SendsFollow' /\ SweptIsOver'
  BY DEF InboxTypeOK, SendsFollow, SweptIsOver, Over, HasRow
<1>4. PendingHasObject' /\ SentWasDelivered' /\ DeletedHasNoObject'
  BY DEF InboxTypeOK, PendingHasObject, SentWasDelivered, DeletedHasNoObject
<1> QED
  BY <1>1, <1>2, <1>3, <1>4

\* It takes one of them.
LEMMA NextRowInbox ==
  ASSUME InboxIInv, NextRow
  PROVE  InboxIInv'
<1> USE DEF InboxIInv, NextRow, webhook, outboxRoute
<1>1. InboxTypeOK'
  <2>1. PICK d \in cleaner.left :
          cleaner' = [pc |-> "erase", since |-> cleaner.since, left |-> cleaner.left \ {d}, row |-> d]
    <3>1. PICK d \in cleaner.left :
            cleaner' = [cleaner EXCEPT !.pc = "erase", !.left = @ \ {d}, !.row = d]
      OBVIOUS
    <3>2. cleaner = [pc |-> cleaner.pc, since |-> cleaner.since, left |-> cleaner.left, row |-> cleaner.row]
      BY DEF InboxTypeOK
    <3> QED
      BY <3>1, <3>2
  <2>2. cleaner.left \subseteq Deliveries /\ cleaner.since \in 0..LastTick
    BY DEF InboxTypeOK
  <2> QED
    BY <2>1, <2>2 DEF InboxTypeOK
<1>2. RowsAreMade' /\ StoredNow' /\ CodesEndFirst' /\ UploadedFirst' /\ DeletedIsOver'
  BY DEF InboxTypeOK, RowsAreMade, HasRow, StoredNow, CodesEndFirst, Live, UploadedFirst,
      DeletedIsOver
<1>3. SendsFollow' /\ SweptIsOver'
  BY DEF InboxTypeOK, SendsFollow, SweptIsOver, Over, HasRow
<1>4. PendingHasObject' /\ SentWasDelivered' /\ DeletedHasNoObject'
  BY DEF InboxTypeOK, PendingHasObject, SentWasDelivered, DeletedHasNoObject
<1> QED
  BY <1>1, <1>2, <1>3, <1>4

\* It erases the object.
LEMMA EraseExpiredInbox ==
  ASSUME InboxIInv, EraseExpired
  PROVE  InboxIInv'
<1> USE DEF InboxIInv, EraseExpired, webhook, outboxRoute, CleanerGoes, MayFail
<1>1. InboxTypeOK'
  BY InboxNumbers DEF InboxTypeOK
<1>2. RowsAreMade' /\ StoredNow' /\ CodesEndFirst' /\ UploadedFirst' /\ DeletedIsOver'
  BY DEF InboxTypeOK, RowsAreMade, HasRow, StoredNow, CodesEndFirst, Live, UploadedFirst,
      SweptIsOver, Over, Past, DeletedIsOver
<1>3. SendsFollow' /\ SweptIsOver'
  BY DEF InboxTypeOK, SendsFollow, SweptIsOver, Over, HasRow
<1>4. PendingHasObject' /\ SentWasDelivered' /\ DeletedHasNoObject'
  BY RowShape DEF InboxTypeOK, PendingHasObject, SweptIsOver, Over, SentWasDelivered,
      DeletedHasNoObject
<1> QED
  BY <1>1, <1>2, <1>3, <1>4

\* It marks the row.
LEMMA MarkDeletedInbox ==
  ASSUME InboxIInv, MarkDeleted
  PROVE  InboxIInv'
<1> USE DEF InboxIInv, webhook, outboxRoute
<1> DEFINE d == cleaner.row
<1>1. /\ UNCHANGED <<now, objects, codes, webhook, token, outboxRoute>>
      /\ d \in Deliveries /\ Over(d) /\ d \notin objects
      /\ cleaner' = [cleaner EXCEPT !.pc = "next"] /\ faults' \in 0..MaxFaults
  BY InboxNumbers DEF MarkDeleted, MayFail, CleanerGoes, SweptIsOver, InboxTypeOK
<1>2. \/ rows' = rows
      \/ HasRow(d) /\ rows' = [rows EXCEPT ![d].status = "DELETED", ![d].deletedAt = cleaner.since]
  BY DEF MarkDeleted
<1>3. \A e \in Deliveries :
        /\ rows'[e] \in {NoRow} \cup RowType
        /\ HasRow(e)' <=> HasRow(e)
        /\ rows'[e].message = rows[e].message /\ rows'[e].ttlAt = rows[e].ttlAt
        /\ rows'[e].status = rows[e].status \/ (e = d /\ rows'[e].status = "DELETED")
  <2>1. CASE rows' = rows
    BY <2>1 DEF InboxTypeOK, RowType, HasRow
  <2>2. CASE HasRow(d) /\ rows' = [rows EXCEPT ![d].status = "DELETED", ![d].deletedAt = cleaner.since]
    <3> DEFINE r == [rows[d] EXCEPT !.status = "DELETED"]
    <3>1. rows[d] \in RowType /\ rows'[d] = [r EXCEPT !.deletedAt = cleaner.since]
      BY <1>1, <2>2, RowShape DEF InboxTypeOK
    <3>2. r \in RowType /\ r.status = "DELETED" /\ r.message = rows[d].message /\ r.ttlAt = rows[d].ttlAt
      BY <3>1 DEF RowType, Statuses
    <3> HIDE DEF r
    <3>3. rows'[d] \in RowType /\ rows'[d].status = "DELETED"
          /\ rows'[d].message = rows[d].message /\ rows'[d].ttlAt = rows[d].ttlAt /\ rows'[d] # NoRow
      BY <3>1, <3>2 DEF RowType, NoRow, InboxTypeOK
    <3> QED
      BY <1>1, <2>2, <3>3 DEF InboxTypeOK, RowType, HasRow
  <2> QED
    BY <1>2, <2>1, <2>2
<1>4. InboxTypeOK'
  <2>1. rows' \in [Deliveries -> {NoRow} \cup RowType]
    BY <1>2, <1>3 DEF InboxTypeOK
  <2> QED
    BY <1>1, <2>1 DEF InboxTypeOK, RowType
<1> HIDE DEF d
<1>5. RowsAreMade' /\ StoredNow'
  BY <1>1, <1>3 DEF RowsAreMade, StoredNow
<1>6. CodesEndFirst' /\ UploadedFirst'
  BY <1>1, <1>3 DEF CodesEndFirst, UploadedFirst, Live
<1>7. DeletedIsOver'
  BY <1>1, <1>3 DEF DeletedIsOver, Over
<1>8. SendsFollow'
  BY <1>1, <1>3 DEF SendsFollow, InboxTypeOK
<1>9. SweptIsOver'
  BY <1>1, <1>3 DEF SweptIsOver, Over, InboxTypeOK
<1>10. PendingHasObject' /\ DeletedHasNoObject' /\ SentWasDelivered'
  BY <1>1, <1>3 DEF PendingHasObject, DeletedHasNoObject, SentWasDelivered
<1> QED
  BY <1>4, <1>5, <1>6, <1>7, <1>8, <1>9, <1>10

\* It drops the rows marked long ago.
LEMMA DropTombstonesInbox ==
  ASSUME InboxIInv, DropTombstones
  PROVE  InboxIInv'
<1> USE DEF InboxIInv, webhook, outboxRoute
<1>1. /\ UNCHANGED <<now, objects, codes, webhook, token, outboxRoute>> /\ faults' \in 0..MaxFaults
      /\ cleaner' = [IdleCleaner EXCEPT !.since = now]
  BY InboxNumbers DEF DropTombstones, MayFail, InboxTypeOK
<1>2. /\ rows' \in [Deliveries -> {NoRow} \cup RowType]
      /\ \A e \in Deliveries : rows'[e] = rows[e] \/ (rows'[e] = NoRow /\ rows[e].status = "DELETED")
  BY DEF DropTombstones, Tombstones, InboxTypeOK, RowType
<1>3. \A e \in Deliveries : HasRow(e)' => HasRow(e) /\ rows'[e] = rows[e]
  BY <1>2 DEF HasRow
<1>4. \A e \in Deliveries : rows'[e] = rows[e] \/ (~HasRow(e)' /\ rows'[e].status = "none" /\ rows[e].ttlAt < now)
  BY <1>2 DEF HasRow, NoRow, DeletedIsOver
<1>5. InboxTypeOK'
  BY <1>1, <1>2 DEF InboxTypeOK, RowType, IdleCleaner
<1>6. RowsAreMade'
  BY <1>1, <1>3 DEF RowsAreMade
<1>7. StoredNow'
  <2> SUFFICES ASSUME NEW e \in Deliveries, at'[e] = "store" PROVE HasRow(e)' /\ rows'[e].ttlAt = now' + RowTtl
    BY DEF StoredNow
  <2>1. HasRow(e) /\ rows[e].ttlAt = now + RowTtl
    BY <1>1 DEF StoredNow
  <2>2. rows'[e] = rows[e]
    BY <1>4, <2>1, InboxNumbers DEF InboxTypeOK
  <2> QED
    BY <1>1, <2>1, <2>2 DEF HasRow
<1>8. CodesEndFirst'
  <2> SUFFICES ASSUME NEW e \in Deliveries, now < codes[e] PROVE HasRow(e)' /\ codes[e] <= rows'[e].ttlAt
    BY <1>1 DEF CodesEndFirst, Live
  <2>1. HasRow(e) /\ codes[e] <= rows[e].ttlAt /\ codes[e] \in Int /\ rows[e].ttlAt \in Int /\ now \in Int
    BY RowShape, InboxNumbers DEF CodesEndFirst, Live, InboxTypeOK
  <2>2. rows'[e] = rows[e]
    BY <1>4, <2>1
  <2> QED
    BY <2>1, <2>2 DEF HasRow
<1>9. UploadedFirst'
  BY <1>1 DEF UploadedFirst
<1>10. SendsFollow'
  BY <1>1, <1>4 DEF SendsFollow, InboxTypeOK
<1>11. SweptIsOver'
  BY <1>1 DEF SweptIsOver, IdleCleaner, InboxTypeOK
<1>12. DeletedIsOver' /\ PendingHasObject' /\ SentWasDelivered' /\ DeletedHasNoObject'
  BY <1>1, <1>4 DEF DeletedIsOver, PendingHasObject, SentWasDelivered, DeletedHasNoObject
<1> QED
  BY <1>5, <1>6, <1>7, <1>8, <1>9, <1>10, <1>11, <1>12

\* It fails on the way.
LEMMA SweepFailsInbox ==
  ASSUME InboxIInv, SweepFails
  PROVE  InboxIInv'
<1> USE DEF InboxIInv, SweepFails, webhook, outboxRoute, IdleCleaner, MayFail
<1>1. InboxTypeOK'
  BY InboxNumbers DEF InboxTypeOK
<1>2. RowsAreMade' /\ StoredNow' /\ CodesEndFirst' /\ UploadedFirst' /\ DeletedIsOver'
  BY DEF InboxTypeOK, RowsAreMade, HasRow, StoredNow, CodesEndFirst, Live, UploadedFirst,
      DeletedIsOver
<1>3. SendsFollow' /\ SweptIsOver'
  BY DEF InboxTypeOK, SendsFollow, SweptIsOver, Over, HasRow
<1>4. PendingHasObject' /\ SentWasDelivered' /\ DeletedHasNoObject'
  BY DEF InboxTypeOK, PendingHasObject, SentWasDelivered, DeletedHasNoObject
<1> QED
  BY <1>1, <1>2, <1>3, <1>4

\* The clock goes on.
LEMMA TickInbox ==
  ASSUME InboxIInv, Tick
  PROVE  InboxIInv'
<1> USE DEF InboxIInv, Tick, webhook, outboxRoute
<1>1. InboxTypeOK'
  BY InboxNumbers DEF InboxTypeOK
<1>2. RowsAreMade' /\ StoredNow' /\ CodesEndFirst' /\ UploadedFirst' /\ DeletedIsOver'
  BY InboxNumbers, RowShape DEF InboxTypeOK, RowsAreMade, HasRow, StoredNow, CodesEndFirst, Live,
      UploadedFirst, DeletedIsOver
<1>3. SendsFollow' /\ SweptIsOver'
  BY RowShape DEF InboxTypeOK, SendsFollow, SweptIsOver, Over, HasRow
<1>4. PendingHasObject' /\ SentWasDelivered' /\ DeletedHasNoObject'
  BY RowShape DEF InboxTypeOK, PendingHasObject, HasRow, SentWasDelivered, DeletedHasNoObject
<1> QED
  BY <1>1, <1>2, <1>3, <1>4

LEMMA InboxInitIInv == InboxInit => InboxIInv
<1> SUFFICES ASSUME InboxInit PROVE InboxIInv
  OBVIOUS
<1> USE DEF InboxInit
<1>1. InboxTypeOK
  BY InboxNumbers DEF InboxTypeOK, IdleCleaner
<1>2. \A d \in Deliveries : ~HasRow(d) /\ rows[d].status = "none" /\ at[d] = "new" /\ ~Live(codes[d])
  BY DEF HasRow, NoRow, Live
<1>3. RowsAreMade /\ StoredNow /\ CodesEndFirst /\ UploadedFirst /\ DeletedIsOver
  BY <1>2 DEF RowsAreMade, StoredNow, CodesEndFirst, UploadedFirst, DeletedIsOver
<1>4. SendsFollow /\ SweptIsOver
  BY DEF SendsFollow, SweptIsOver, IdleCleaner
<1>5. PendingHasObject /\ SentWasDelivered /\ DeletedHasNoObject
  BY <1>2 DEF PendingHasObject, SentWasDelivered, DeletedHasNoObject
<1> QED
  BY <1>1, <1>3, <1>4, <1>5 DEF InboxIInv

LEMMA InboxStutter == InboxIInv /\ UNCHANGED inboxVars => InboxIInv'
<1> SUFFICES ASSUME InboxIInv, UNCHANGED inboxVars PROVE InboxIInv'
  OBVIOUS
<1> USE DEF InboxIInv, inboxVars
<1>1. InboxTypeOK'
  BY DEF InboxTypeOK
<1>2. RowsAreMade' /\ StoredNow' /\ CodesEndFirst' /\ UploadedFirst' /\ DeletedIsOver'
  BY DEF RowsAreMade, StoredNow, CodesEndFirst, UploadedFirst, DeletedIsOver, HasRow, Live
<1>3. SendsFollow' /\ SweptIsOver' /\ PendingHasObject' /\ SentWasDelivered' /\ DeletedHasNoObject'
  BY DEF SendsFollow, SweptIsOver, PendingHasObject, SentWasDelivered, DeletedHasNoObject, Over,
        HasRow
<1> QED
  BY <1>1, <1>2, <1>3

LEMMA InboxStep == InboxIInv /\ [InboxNext]_inboxVars => InboxIInv'
  BY ArriveInbox, UploadInbox, CreateInbox, StoreCodeInbox, NotifyInbox, WebhookFailsInbox,
        VerifyInbox,
     FindRowInbox, SendDocumentInbox, MarkSentInbox, EraseSentInbox, SendFailsInbox,
     StartSweepInbox,
     NextRowInbox, EraseExpiredInbox, MarkDeletedInbox, DropTombstonesInbox, SweepFailsInbox,
     TickInbox,
     InboxStutter DEF InboxNext, Cleaner

\* The unique index of the messages: a row is made only where its message has none.
MessagesApart ==
  \A d, e \in Deliveries : (d # e /\ msg[d] = msg[e]) => ~(HasRow(d) /\ HasRow(e))

LEMMA MessagesApartStep ==
  ASSUME InboxIInv, InboxIInv', MessagesApart, [InboxNext]_inboxVars
  PROVE  MessagesApart'
<1>1. \/ \E d \in Deliveries : at[d] = "create" /\ Unique(d) /\ rows' = [rows EXCEPT ![d] = NewRow(d)]
      \/ \A d \in Deliveries : HasRow(d)' => HasRow(d)
  <2>1. CASE \E d \in Deliveries : Create(d)
    BY <2>1 DEF Create, HasRow
  <2>2. CASE DropTombstones
    BY <2>2 DEF DropTombstones, HasRow, InboxIInv, InboxTypeOK
  <2>3. CASE MarkDeleted
    BY <2>3, RowShape DEF MarkDeleted, HasRow, InboxIInv, InboxTypeOK
  <2>4. CASE \E s \in Sends : MarkSent(s)
    BY <2>4, RowShape DEF MarkSent, HasRow, InboxIInv, InboxTypeOK
  <2>5. CASE rows' = rows
    BY <2>5 DEF HasRow
  <2> QED
    BY <2>1, <2>2, <2>3, <2>4, <2>5 DEF InboxNext, Cleaner, inboxVars, Arrive, Upload, StoreCode,
          Notify,
      WebhookFails, Verify, FindRow, SendDocument, EraseSent, SendFails, StartSweep, NextRow,
      EraseExpired,
      SweepFails, Tick
<1>2. msg' = msg
  BY DEF InboxNext, Cleaner, inboxVars, Arrive, Upload, Create, StoreCode, Notify, WebhookFails,
        Verify, FindRow,
    SendDocument, MarkSent, EraseSent, SendFails, StartSweep, NextRow, EraseExpired, MarkDeleted,
    DropTombstones,
    SweepFails, Tick, webhook
<1>3. CASE \A d \in Deliveries : HasRow(d)' => HasRow(d)
  BY <1>2, <1>3 DEF MessagesApart
<1>4. ASSUME NEW d \in Deliveries, Unique(d), rows' = [rows EXCEPT ![d] = NewRow(d)]
      PROVE  MessagesApart'
  <2>1. \A e \in Deliveries \ {d} : HasRow(e)' => HasRow(e)
    BY <1>4 DEF HasRow, InboxIInv, InboxTypeOK
  <2>2. \A e \in Deliveries \ {d} : msg[e] = msg[d] => ~HasRow(e)
    BY <1>4 DEF Unique, RowOf, InboxIInv, RowsAreMade
  <2> QED
    BY <1>2, <2>1, <2>2 DEF MessagesApart
<1> QED
  BY <1>1, <1>3, <1>4

LEMMA InboxIInvGives == InboxIInv /\ MessagesApart => InboxInv
<1> SUFFICES ASSUME InboxIInv, MessagesApart PROVE InboxInv
  OBVIOUS
<1>1. CodeLeadsToRow
  BY DEF InboxIInv, CodesEndFirst, CodeLeadsToRow
<1>2. OneRowPerMessage
  BY <1>1 DEF MessagesApart, OneRowPerMessage, CodeLeadsToRow
<1> QED
  BY <1>1, <1>2 DEF InboxIInv, InboxInv

\* routes/webhook-wa.ts, inbox-verify.ts, outbox-send.ts and ttl-cleaner.ts: whatever
\* deliveries, sends and sweeps run at once, and whatever fails on the way, a pending
\* row has its object until its term, a code that works leads to a row, SENT was
\* delivered, DELETED is gone, and a message has one row.
THEOREM InboxInvariance == InboxSpec => []InboxInv
<1>1. InboxInit => MessagesApart
  BY DEF InboxInit, MessagesApart, HasRow
<1> QED
  BY <1>1, InboxInitIInv, InboxStep, MessagesApartStep, InboxIInvGives, PTL DEF InboxSpec

=============================================================================
