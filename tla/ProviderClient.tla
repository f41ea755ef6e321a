--------------------------- MODULE ProviderClient ---------------------------
(***************************************************************************)
(* The HTTP client of the certificate provider                             *)
(* (packages/uanataca-client/src/http.ts, UanatacaHttpClient) over its     *)
(* cache of access tokens (token-manager.ts, UanatacaTokenManager).        *)
(*                                                                         *)
(* ClientCalls run concurrently on one event loop and meet in the token cache:   *)
(* every action is what one continuation does between two awaits. A token  *)
(* is the number of the login that obtained it, and logins are numbered in *)
(* the order they start. A provider that answers a creation with a success *)
(* other than 201 is outside its contract and outside the model.           *)
(***************************************************************************)
EXTENDS Naturals, FiniteSets

CONSTANTS
  Gets,        \* reading calls
  Posts,       \* calls of createCertificateRequest
  Life,        \* expires_in, in ticks
  Margin,      \* refreshMarginSeconds, in ticks
  LastMinute,    \* bound: the clock stops here
  MaxRevoked   \* bound: tokens the provider refuses before they expire

ClientCalls  == Gets \cup Posts
\* A call logs in at most twice: get retries once.
Logins == 1..(2 * Cardinality(ClientCalls))
None   == 0

ASSUME ClientAssumption ==
  /\ IsFiniteSet(ClientCalls) /\ Gets \cap Posts = {}
  /\ Life \in Nat /\ Margin \in Nat /\ LastMinute \in Nat /\ MaxRevoked \in Nat

VARIABLES
  cache,      \* token (None: no token) and expiresAtMs
  inFlight,   \* the login getToken joins, or None
  login,      \* every login: "no", "asked", "issued", "refused", then "done"
  issuedAt,   \* when the provider issued the token
  heardAt,    \* when the client heard of it
  callAt,     \* where a call is: "idle", "login", "sent", "heard", then its result
  loginOf,      \* the login a call waits for, then the token it sends
  tries,      \* requests a call has sent
  reply,      \* the provider's reply to the last one
  charged,    \* provider: the creations it processed
  minute,
  revoked,    \* provider: tokens it refuses early
  \* what the properties remember
  refused,    \* tokens a reading call has been refused with
  mark,       \* logins started when a call was first refused
  superseded  \* logins in flight at an invalidation

tokenVars == <<cache, inFlight, login, issuedAt, heardAt>>
callVars  == <<callAt, loginOf, tries, reply>>
provider  == <<charged, minute, revoked>>
history   == <<refused, mark, superseded>>
clientVars == <<tokenVars, callVars, provider, history>>

Results == {"ok", "error", "mayHaveCharged"}

ClientInit ==
  /\ cache = [token |-> None, until |-> 0]
  /\ inFlight = None
  /\ login = [n \in Logins |-> "no"]
  /\ issuedAt = [n \in Logins |-> 0] /\ heardAt = [n \in Logins |-> 0]
  /\ callAt = [c \in ClientCalls |-> "idle"]
  /\ loginOf = [c \in ClientCalls |-> None]
  /\ tries = [c \in ClientCalls |-> 0]
  /\ reply = [c \in ClientCalls |-> "none"]
  /\ charged = {} /\ minute = 0 /\ revoked = {}
  /\ refused = {} /\ mark = [c \in ClientCalls |-> 0] /\ superseded = {}

Started == {n \in Logins : login[n] # "no"}
InFlight == {n \in Logins : login[n] \in {"asked", "issued", "refused"}}

-----------------------------------------------------------------------------
(* The token cache. These operators take the cache and the login in flight *)
(* that an earlier statement of the same continuation leaves.              *)

\* The cached token, and the login in flight, after invalidate().
Forgotten    == [cache |-> [token |-> None, until |-> 0], inFlight |-> None]
Current      == [cache |-> cache, inFlight |-> inFlight]

\* getToken: the cached token, the login in flight, or a login of its own.
\* The call sends its request as soon as it has the token.
GetToken(c, from) ==
  IF from.cache.token # None /\ minute < from.cache.until
  THEN /\ callAt' = [callAt EXCEPT ![c] = "sent"]
       /\ loginOf' = [loginOf EXCEPT ![c] = from.cache.token]
       /\ tries' = [tries EXCEPT ![c] = @ + 1]
       /\ inFlight' = from.inFlight
       /\ UNCHANGED login
  ELSE \E n \in Logins :
       /\ IF from.inFlight # None
          THEN n = from.inFlight /\ UNCHANGED login
          ELSE /\ n = Cardinality(Started) + 1
               /\ login' = [login EXCEPT ![n] = "asked"]
       /\ inFlight' = n
       /\ callAt' = [callAt EXCEPT ![c] = "login"]
       /\ loginOf' = [loginOf EXCEPT ![c] = n]
       /\ UNCHANGED tries

Waiting(n) == {c \in ClientCalls : callAt[c] = "login" /\ loginOf[c] = n}

\* ClientCalls that are over keep nothing but their result.
End(calls, result) ==
  /\ callAt' = [c \in ClientCalls |-> IF c \in calls THEN result ELSE callAt[c]]
  /\ loginOf' = [c \in ClientCalls |-> IF c \in calls THEN None ELSE loginOf[c]]
  /\ tries' = [c \in ClientCalls |-> IF c \in calls THEN 0 ELSE tries[c]]
  /\ reply' = [c \in ClientCalls |-> IF c \in calls THEN "none" ELSE reply[c]]
  /\ mark' = [c \in ClientCalls |-> IF c \in calls THEN 0 ELSE mark[c]]

UntilItExpires == minute + Life
Until == minute + (IF Life > Margin THEN Life - Margin ELSE 0)

LoginEndsIfJoined(n) ==
  /\ login[n] = "issued"
  /\ login' = [login EXCEPT ![n] = "done"]
  /\ cache' = [token |-> n, until |-> Until]
  /\ inFlight' = None
  /\ heardAt' = [heardAt EXCEPT ![n] = minute]
  /\ LET woken == IF inFlight = n THEN Waiting(n) ELSE {}
     IN /\ callAt' = [c \in ClientCalls |-> IF c \in woken THEN "sent" ELSE callAt[c]]
        /\ tries' = [c \in ClientCalls |-> IF c \in woken THEN tries[c] + 1 ELSE tries[c]]
  /\ UNCHANGED <<issuedAt, loginOf, reply, provider, history>>

\* login resolves: the token is cached, the login in flight is forgotten,
\* whichever it is by now, and every call that waited sends its request.
LoginEnds(n) ==
  /\ login[n] = "issued"
  /\ login' = [login EXCEPT ![n] = "done"]
  /\ cache' = [token |-> n, until |-> Until]
  /\ inFlight' = None
  /\ heardAt' = [heardAt EXCEPT ![n] = minute]
  /\ callAt' = [c \in ClientCalls |-> IF c \in Waiting(n) THEN "sent" ELSE callAt[c]]
  /\ tries' = [c \in ClientCalls |-> IF c \in Waiting(n) THEN tries[c] + 1 ELSE tries[c]]
  /\ UNCHANGED <<issuedAt, loginOf, reply, provider, history>>

\* login rejects: not OK, no token in the answer, or no answer. The cache
\* stays and every call that waited ends with the error.
LoginFails(n) ==
  /\ login[n] = "refused"
  /\ login' = [login EXCEPT ![n] = "done"]
  /\ inFlight' = None
  /\ End(Waiting(n), "error")
  /\ UNCHANGED <<cache, issuedAt, heardAt, provider, refused, superseded>>

-----------------------------------------------------------------------------
(* The calls.                                                              *)

Start(c) ==
  /\ callAt[c] = "idle"
  /\ GetToken(c, Current)
  /\ UNCHANGED <<cache, issuedAt, heardAt, reply, provider, history>>

HeardRefused(c) ==
  /\ c \in Gets /\ callAt[c] = "heard" /\ reply[c] = "unauthorized"
  /\ refused' = refused \cup {loginOf[c]}
  /\ superseded' = superseded \cup InFlight

\* get: the first 401 invalidates the token and asks again, in one
\* continuation.
AskAgain(c) ==
  /\ HeardRefused(c) /\ tries[c] = 1
  /\ GetToken(c, Forgotten)
  /\ cache' = Forgotten.cache
  /\ mark' = [mark EXCEPT ![c] = Cardinality(Started)]
  /\ reply' = [reply EXCEPT ![c] = "none"]
  /\ UNCHANGED <<issuedAt, heardAt, provider>>

\* get: the second 401 invalidates the token and is the answer.
StopAsking(c) ==
  /\ HeardRefused(c) /\ tries[c] = 2
  /\ cache' = Forgotten.cache
  /\ inFlight' = Forgotten.inFlight
  /\ End({c}, "error")
  /\ UNCHANGED <<login, issuedAt, heardAt, provider>>

\* get: any other reply is the answer.
GetEnds(c) ==
  /\ c \in Gets /\ callAt[c] = "heard" /\ reply[c] # "unauthorized"
  /\ End({c}, IF reply[c] = "ok" THEN "ok" ELSE "error")
  /\ UNCHANGED <<tokenVars, provider, refused, superseded>>

VerdictByStatus(r) ==
  IF r = "ok" THEN "ok" ELSE IF r = "broken" THEN "mayHaveCharged" ELSE "error"
\* What createCertificateRequest says of the reply: a fetch that rejects and a
\* status from 500 on may have charged, a 4xx has not.
Verdict(r) ==
  CASE r = "ok"                -> "ok"
    [] r \in {"broken", "lost"} -> "mayHaveCharged"
    [] OTHER                   -> "error"

\* createCertificateRequest never asks again.
PostEnds(c) ==
  /\ c \in Posts /\ callAt[c] = "heard"
  /\ End({c}, Verdict(reply[c]))
  /\ UNCHANGED <<tokenVars, provider, refused, superseded>>

-----------------------------------------------------------------------------
(* The provider and the network.                                           *)

Honoured(n) == n \notin revoked /\ minute < issuedAt[n] + Life

Issue(n) ==
  /\ login[n] = "asked"
  /\ login' = [login EXCEPT ![n] = "issued"]
  /\ issuedAt' = [issuedAt EXCEPT ![n] = minute]
  /\ UNCHANGED <<cache, inFlight, heardAt, callVars, provider, history>>

RefuseLogin(n) ==
  /\ login[n] = "asked"
  /\ login' = [login EXCEPT ![n] = "refused"]
  /\ UNCHANGED <<cache, inFlight, issuedAt, heardAt, callVars, provider, history>>

\* A request whose token is not honoured gets a 401. Another one is processed,
\* or fails with a 5xx or without a reply, processed or not.
Reply(c) ==
  /\ callAt[c] = "sent"
  /\ \E r \in IF Honoured(loginOf[c]) THEN {"ok", "broken", "lost"} ELSE {"unauthorized", "lost"} :
       /\ reply' = [reply EXCEPT ![c] = r]
       /\ \E done \in SUBSET ({c} \cap Posts) :
            /\ r = "ok" => c \in done \cup Gets
            /\ done # {} => Honoured(loginOf[c])
            /\ charged' = charged \cup done
  /\ callAt' = [callAt EXCEPT ![c] = "heard"]
  /\ UNCHANGED <<tokenVars, loginOf, tries, minute, revoked, history>>

Revoke(n) ==
  /\ login[n] \in {"issued", "done"} /\ Honoured(n)
  /\ Cardinality(revoked) < MaxRevoked
  /\ revoked' = revoked \cup {n}
  /\ UNCHANGED <<tokenVars, callVars, charged, minute, history>>

MinutePasses ==
  /\ minute < LastMinute
  /\ minute' = minute + 1
  /\ UNCHANGED <<tokenVars, callVars, charged, revoked, history>>

-----------------------------------------------------------------------------
Continue(c) == AskAgain(c) \/ StopAsking(c) \/ GetEnds(c) \/ PostEnds(c)
LoginSettles(n) == Issue(n) \/ RefuseLogin(n) \/ LoginEnds(n) \/ LoginFails(n)

ClientNext ==
  \/ \E c \in ClientCalls : Start(c) \/ Reply(c) \/ Continue(c)
  \/ \E n \in Logins : LoginSettles(n) \/ Revoke(n)
  \/ MinutePasses

ClientSpec == ClientInit /\ [][ClientNext]_clientVars

-----------------------------------------------------------------------------
ClientTypeOK ==
  /\ cache \in [token : Logins \cup {None}, until : 0..(LastMinute + Life)]
  /\ inFlight \in Logins \cup {None}
  /\ login \in [Logins -> {"no", "asked", "issued", "refused", "done"}]
  /\ issuedAt \in [Logins -> 0..LastMinute] /\ heardAt \in [Logins -> 0..LastMinute]
  /\ callAt \in [ClientCalls -> {"idle", "login", "sent", "heard"} \cup Results]
  /\ loginOf \in [ClientCalls -> Logins \cup {None}]
  /\ tries \in [ClientCalls -> 0..2]
  /\ reply \in [ClientCalls -> {"none", "ok", "unauthorized", "broken", "lost"}]
  /\ charged \subseteq Posts
  /\ minute \in 0..LastMinute
  /\ revoked \subseteq Logins /\ refused \subseteq Logins /\ superseded \subseteq Logins
  /\ mark \in [ClientCalls -> 0..Cardinality(Logins)]

\* A token that a reading call was refused with is never served again from
\* the cache, the second refusal's included (http.ts:150,157).
RefusedIsNotCached == cache.token \notin refused

\* A creation the provider processed is never reported as certainly not
\* charged (client.ts:39-45): the caller would send it again.
NoSilentCharge == \A c \in charged : callAt[c] # "error"

\* The second request of a reading call carries a token from a login that
\* started after the refusal, never the refused one nor one that was already
\* on its way (token-manager.ts:60-64).
RetryTokenIsNew ==
  \A c \in Gets : callAt[c] \in {"login", "sent"} /\ mark[c] > 0 => loginOf[c] > mark[c]

\* A request goes out only with a token the provider has not let expire,
\* whenever the provider's answer to the login took no longer than the margin:
\* the margin covers that delay for every later use of the cached token
\* (token-manager.ts:15-18,89).
SentBeforeExpiry ==
  [][\A c \in ClientCalls :
       callAt'[c] = "sent" /\ callAt[c] # "sent" =>
         LET n == loginOf'[c] IN
           heardAt'[n] - issuedAt'[n] <= Margin /\ Margin < Life => minute' < issuedAt'[n] + Life]_clientVars

\* What a call waits for, and what getToken would make another one wait for, is a
\* login that will still settle: nobody is left behind by a login that others gave
\* up, and nobody is handed one that already failed (token-manager.ts:53-56).
NobodyIsLeftWaiting ==
  /\ \A c \in ClientCalls : callAt[c] = "login" => loginOf[c] \in InFlight
  /\ inFlight # None => inFlight \in InFlight

\* What every state of the client satisfies.
ClientInv == ClientTypeOK /\ RefusedIsNotCached /\ NoSilentCharge /\ RetryTokenIsNew /\ NobodyIsLeftWaiting

-----------------------------------------------------------------------------
\* Said of the code but not kept by it (README, section 5).

\* token-manager.ts:27: concurrent logins are one request in flight. Logins
\* that an invalidation gave up are not counted.
OneLoginInFlight == Cardinality(InFlight \ superseded) <= 1
=============================================================================
