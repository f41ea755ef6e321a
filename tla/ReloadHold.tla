----------------------------- MODULE ReloadHold -----------------------------
(***************************************************************************)
(* Updates of the installed page (apps/pwa/src/lib/swUpdate.svelte.ts) and *)
(* the two screens that hold them back.  A deploy of ours activates its    *)
(* service worker by itself and reloads the page; work that lives in       *)
(* memory holds the reload back with a counter.  A reload ends the page,   *)
(* and everything it remembers.                                            *)
(*                                                                         *)
(* Of the screens only what holds and releases is kept: the single one     *)
(* holds while it has a document (Firmar.svelte), the batch one while it   *)
(* signs (FirmarLote.svelte), and a batch left while it signs goes on.     *)
(***************************************************************************)
EXTENDS Naturals

CONSTANT MaxLate  \* bound on the batches left while they sign
ASSUME ReloadAssumption == MaxLate \in Nat

VARIABLES
  holds,       \* reloadHolds
  pending,     \* swUpdate.reloadPending
  applying,    \* applyingUpdate: "no", "timer" while its fallback is set, "spent"
  controlled,  \* a service worker controls the page
  reloaded,    \* "no", or who reloaded the page: "deploy" or "person"
  screen,      \* "other", "single" or "batch"
  working,     \* the screen holds: it has a document, or it is signing
  late,        \* batches left while signing that have not ended
  robbed       \* history: a batch left behind released the hold of another

updateVars == <<pending, applying, controlled, reloaded>>
reloadVars == <<holds, updateVars, screen, working, late, robbed>>

ReloadInit ==
  /\ holds = 0 /\ pending = FALSE /\ applying = "no" /\ reloaded = "no"
  /\ controlled \in BOOLEAN
  /\ screen = "other" /\ working = FALSE /\ late = 0 /\ robbed = FALSE

Held == holds > 0
Release(n) == IF n = 0 THEN 0 ELSE n - 1  \* one too many must not go below zero

-----------------------------------------------------------------------------
(* The service worker.                                                     *)

\* mutant: the hold is only looked at when the person asks
ControllerChangeDeaf ==
  /\ controlled' = TRUE
  /\ reloaded' = IF controlled THEN "deploy" ELSE reloaded
  /\ UNCHANGED <<holds, pending, applying, screen, working, late, robbed>>

\* The new service worker takes control: the first one ever is no update.
ControllerChange ==
  /\ controlled' = TRUE
  /\ pending' = (pending \/ (controlled /\ Held))
  /\ reloaded' = IF controlled /\ ~Held THEN "deploy" ELSE reloaded
  /\ UNCHANGED <<holds, applying, screen, working, late, robbed>>

\* The person accepts the update on offer; nothing is asked of it under a hold.
ApplyUpdate ==
  /\ applying = "no"
  /\ pending' = (pending \/ Held)
  /\ applying' = IF Held THEN "no" ELSE "timer"
  /\ UNCHANGED <<holds, controlled, reloaded, screen, working, late, robbed>>

\* The fallback of applyUpdate looks at the hold again: work may have begun
\* while it waited.
FallbackReload ==
  /\ applying = "timer"
  /\ applying' = "spent"
  /\ pending' = (pending \/ Held)
  /\ reloaded' = IF Held THEN reloaded ELSE "deploy"
  /\ UNCHANGED <<holds, controlled, screen, working, late, robbed>>

\* The person asks for the held version, hold or no hold.
ReloadOnUserRequest ==
  /\ pending
  /\ reloaded' = "person"
  /\ UNCHANGED <<holds, pending, applying, controlled, screen, working, late, robbed>>

-----------------------------------------------------------------------------
(* The screens.                                                            *)

Open(s) ==
  /\ screen = "other"
  /\ screen' = s
  /\ UNCHANGED <<holds, updateVars, working, late, robbed>>

\* A document is loaded, or the batch begins to sign.
Begin ==
  /\ screen # "other" /\ ~working
  /\ working' = TRUE
  /\ holds' = holds + 1
  /\ UNCHANGED <<updateVars, screen, late, robbed>>

\* Another document takes the place of the first: the effect is cleaned up and
\* runs again, which is one release and one hold.
Replace ==
  /\ screen = "single" /\ working
  /\ holds' = Release(holds) + 1
  /\ UNCHANGED <<updateVars, screen, working, late, robbed>>

\* The document is dropped, or the batch ends on its screen.
End ==
  /\ working
  /\ working' = FALSE
  /\ holds' = Release(holds)
  /\ UNCHANGED <<updateVars, screen, late, robbed>>

\* The route is left, and its hold with it. A batch that signs is aborted but
\* takes its time.
Leave ==
  /\ screen # "other"
  /\ screen' = "other" /\ working' = FALSE
  /\ holds' = IF working THEN Release(holds) ELSE holds
  /\ late' = IF screen = "batch" /\ working THEN late + 1 ELSE late
  /\ late' <= MaxLate
  /\ UNCHANGED <<updateVars, robbed>>

\* A batch left behind ends: its finally releases what onDestroy had released.
LateEnd ==
  /\ late > 0
  /\ late' = late - 1
  /\ holds' = Release(holds)
  /\ robbed' = (robbed \/ Held)
  /\ UNCHANGED <<updateVars, screen, working>>

ReloadNext ==
  /\ reloaded = "no"
  /\ \/ ControllerChange \/ ApplyUpdate \/ FallbackReload \/ ReloadOnUserRequest
     \/ (\E s \in {"single", "batch"} : Open(s))
     \/ Begin \/ Replace \/ End \/ Leave \/ LateEnd

ReloadSpec == ReloadInit /\ [][ReloadNext]_reloadVars

-----------------------------------------------------------------------------
(* Properties.                                                             *)

Work == IF working THEN 1 ELSE 0

\* No hold outlives its work, which would leave the page without updates for
\* ever, and the work has its hold - unless a batch left behind took it.
HoldsMatchWork == holds <= Work /\ (~robbed => holds = Work)

\* A deploy does not reload a page with work in it.
ReloadSparesWork == reloaded = "deploy" => ~working \/ robbed

\* What every state of the updates satisfies.
ReloadInv ==
  /\ applying \in {"no", "timer", "spent"} /\ late \in 0..MaxLate
  /\ HoldsMatchWork /\ ReloadSparesWork

-----------------------------------------------------------------------------
\* Said of the code but not kept by it (README, section 5).

\* "Mientras haya un documento cargado, un despliegue NUESTRO no puede recargar
\* la página por su cuenta" (Firmar.svelte:154).
DeploySparesWork == reloaded = "deploy" => ~working
=============================================================================
