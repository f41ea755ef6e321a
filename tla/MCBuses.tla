------------------------------ MODULE MCBuses -------------------------------
(***************************************************************************)
(* What must come to an end, and what it ends with, for TLC: the two buses *)
(* between a page and a worker it may have to kill - the batch's signing   *)
(* session and the verification of a document -, and the erasing of an     *)
(* inbox.  Each behaviour is of one of them, the others never move.        *)
(***************************************************************************)
EXTENDS SessionClient, VerifyBus

CONSTANTS
  Deliveries, WaMessages, Sends, OtpTtl, TokenTtl, RowTtl, Retention, BatchSize, SlowSweeps,
  LastArrival, LastTick, MaxFaults

VARIABLES now, rows, objects, codes, at, msg, linkAt, token, sendAt, sendOf, delivered, cleaner, faults

Inbox == INSTANCE InboxLifecycle

VARIABLE topic  \* whose behaviour this is

inboxVars ==
  <<now, rows, objects, codes, at, msg, linkAt, token, sendAt, sendOf, delivered, cleaner, faults>>
allVars == <<topic, sessionBusVars, verifyVars, inboxVars>>

BusesInit ==
  /\ topic \in {"session", "verify", "erase"}
  /\ SessionInit /\ BusInit /\ Inbox!InboxInit
  \* One initial state of what never moves.
  /\ topic # "verify" => file = <<>>
  /\ topic # "erase" =>
       msg = [d \in Deliveries |-> CHOOSE m \in WaMessages : TRUE]
       /\ sendOf = [s \in Sends |-> CHOOSE d \in Deliveries : TRUE]

BusesNext ==
  /\ UNCHANGED topic
  /\ \/ topic = "session" /\ SessionNext /\ UNCHANGED <<verifyVars, inboxVars>>
     \/ topic = "verify" /\ BusNext /\ UNCHANGED <<sessionBusVars, inboxVars>>
     \/ topic = "erase" /\ Inbox!InboxNext /\ UNCHANGED <<sessionBusVars, verifyVars>>

\* The fairness of SessionClient's Spec and of InboxLifecycle's, of the part that moves.
SessionStep(A) == topic = "session" /\ A /\ UNCHANGED <<topic, verifyVars, inboxVars>>
EraseStep(A) == topic = "erase" /\ A /\ UNCHANGED <<topic, sessionBusVars, verifyVars>>

BusesSpec ==
  /\ BusesInit /\ [][BusesNext]_allVars
  /\ \A s \in Sessions : /\ SF_allVars(SessionStep(Timer(s)))
                         /\ WF_allVars(SessionStep(Consume(s)))
  /\ WF_allVars(EraseStep(Inbox!Tick)) /\ WF_allVars(EraseStep(Inbox!Cleaner))
  /\ \A d \in Deliveries : WF_allVars(EraseStep(Inbox!StoreCode(d)))

\* See InboxLifecycle.
ExpiredIsErased == Inbox!ExpiredIsErased
=============================================================================
