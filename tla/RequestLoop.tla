----------------------------- MODULE RequestLoop -----------------------------
(***************************************************************************)
(* lib/runtime-rotation-proxy.ts, handleRequestInner: concurrent client    *)
(* requests, each trying one account after the other until something can   *)
(* be answered.  An action is what a request does between two awaits.  The *)
(* accounts are named by identity: a manager replacement carries their     *)
(* quota state over, and a request that still holds the old manager may    *)
(* see any of it (Usable).  Scores and affinity only rank the eligible     *)
(* accounts, so any eligible one may be chosen.                            *)
(***************************************************************************)
EXTENDS Integers, Sequences, FiniteSets

CONSTANTS
  Requests, Accounts, None,
  Scopes,        \* workspaces of each account, best first
  Kinds,         \* request kinds considered
  Pins,          \* accounts a request may be pinned to, None for no pin
  Native,        \* nativeOpenai mode
  MaxAttempts,   \* maxRuntimeAccountAttempts
  MaxPinned,     \* MAX_PINNED_TRANSIENT_ATTEMPTS
  MaxSelections, \* MAX_PINNED_SELECTION_ITERATIONS
  MaxTokens,     \* size of an account's pool token bucket
  Drain,         \* tokens a rate limit takes
  Patience,      \* capacity waits that fit in modelCapacityRetryMs
  MaxResets,     \* bound on quota resets that upstream confirms
  MaxSwaps       \* bound on manager replacements

ASSUME LoopAssumption ==
  /\ None \notin Accounts \cup Requests /\ "sent" \notin Requests /\ IsFiniteSet(Accounts) /\ Pins \subseteq Accounts \cup {None}
  /\ Scopes \in [Accounts -> Seq(UNION {{Scopes[a][i] : i \in DOMAIN Scopes[a]} : a \in Accounts})]
  /\ Kinds \subseteq {"responses", "image", "transcribe", "search", "realtime", "thread-goal"}
  /\ Native \in BOOLEAN
  /\ {MaxAttempts, MaxPinned, MaxSelections, MaxTokens, Drain} \subseteq Nat \ {0}
  /\ {Patience, MaxResets, MaxSwaps} \subseteq Nat

VARIABLES
  acct,    \* what the live manager knows of each account
  bucket,  \* pool tokens left
  circuit, \* breaker state
  slot,    \* half-open probe slot: None, the request holding it, or "sent"
  pool,    \* rows of the live manager
  gen,     \* how often the manager was replaced
  lifted,  \* accounts whose last rejection a confirmed reset lifted
  resets,  \* confirmed resets so far
  q        \* the requests

vars == <<acct, bucket, circuit, slot, pool, gen, lifted, resets, q>>
shared == <<acct, bucket, circuit, slot, pool, gen, lifted, resets>>
managers == <<pool, gen, lifted, resets>>

Least(x, y) == IF x < y THEN x ELSE y
AtLeastOne(x) == IF x < 1 THEN 1 ELSE x
Workspaces == UNION {{Scopes[a][i] : i \in DOMAIN Scopes[a]} : a \in Accounts}
\* Both auth values carry the reason "auth-failure": for 30 s, or for the long
\* time after a revocation.
Cooldowns == {"none", "network-error", "server-error", "auth-failure", "auth-revoked"}

Fresh == [enabled |-> TRUE, invalid |-> FALSE, limited |-> FALSE, dictated |-> FALSE,
          cooling |-> "none", dead |-> {}]

\* Request-local state at the top of the loop; "owed", "unsure" and "nays" only record.
Idle ==
  [pc |-> "idle", kind |-> None, pin |-> None, pinGone |-> FALSE, at |-> None, ws |-> None,
   gen |-> 0, rows |-> {}, cands |-> {}, pend |-> [a \in Accounts |-> {}],
   attempted |-> {}, blocked |-> {}, rejected |-> {}, own |-> {},
   transient |-> 0, limit |-> 1, selections |-> 0, capacity |-> 0,
   reconciled |-> FALSE, recovered |-> FALSE, reloaded |-> FALSE, reason |-> "no-account",
   owed |-> 0,        \* pool tokens debited and not refunded by this request's current attempt
   unsure |-> FALSE,  \* an upstream may be working on a copy whose answer was lost
   nays |-> {}]       \* workspaces that rejected this request

Pcs == {"idle", "select", "lost", "refresh", "sent", "waiting", "stream", "exhausted", "answered"}

TypeOK ==
  /\ acct \in [Accounts -> [enabled : BOOLEAN, invalid : BOOLEAN, limited : BOOLEAN, dictated : BOOLEAN,
                            cooling : Cooldowns, dead : SUBSET Workspaces]]
  /\ bucket \in [Accounts -> 0..MaxTokens]
  /\ circuit \in [Accounts -> {"closed", "open", "half-open"}]
  /\ slot \in [Accounts -> {None, "sent"} \cup Requests]
  /\ pool \subseteq Accounts /\ gen \in 0..MaxSwaps
  /\ lifted \subseteq Accounts /\ resets \in 0..MaxResets
  /\ \A r \in Requests :
       /\ q[r].pc \in Pcs /\ q[r].kind \in Kinds \cup {None} /\ q[r].pin \in Pins \cup {None}
       /\ q[r].rows \subseteq Accounts /\ q[r].attempted \subseteq Accounts
       /\ q[r].limit \in 1..(MaxAttempts + MaxPinned) /\ q[r].transient \in 0..(MaxAttempts + MaxPinned)

Init ==
  /\ acct = [a \in Accounts |-> Fresh]
  /\ bucket = [a \in Accounts |-> MaxTokens]
  /\ circuit = [a \in Accounts |-> "closed"] /\ slot = [a \in Accounts |-> None]
  /\ pool = Accounts /\ gen = 0 /\ lifted = {} /\ resets = 0
  /\ q = [r \in Requests |-> Idle]

-----------------------------------------------------------------------------
(* Request-local helpers; s is the record of a request. *)

Becomes(r, s) == q' = [q EXCEPT ![r] = s]
Answer(r) == Becomes(r, [Idle EXCEPT !.pc = "answered", !.owed = q[r].owed])
Pinned(s) == s.pin # None
Stale(s) == s.gen # gen
Routed(s) == Native /\ s.kind = "responses"       \* routed by the model catalog
Bypass(s) == Pinned(s) \/ s.kind = "transcribe" \/ Routed(s)

\* Workspaces of an account are named by their places in Scopes[a].
Routable(a) == {i \in DOMAIN Scopes[a] : Scopes[a][i] \notin acct[a].dead}

\* The workspaces still to be tried on account a, the best of them and the others.
ScopesLeft(s, a) == IF Routed(s) THEN s.pend[a] \cap Routable(a) ELSE Routable(a)
Best(left) == CHOOSE i \in left : \A j \in left : i <= j
Others(left) == left \ {Best(left)}

PoolLimit(rows) == AtLeastOne(Least(Cardinality(rows), MaxAttempts))
PinLimit == AtLeastOne(Least(MaxAttempts, MaxPinned))

\* remapRequestWorkspaceState: what is left to try follows the account by identity.
Remapped(s) == [a \in Accounts |-> IF a \in pool THEN s.pend[a] \cap Routable(a) ELSE {}]

\* remapPinnedAccount: the pin names an identity, and may have gone.
PinLost(s) == Pinned(s) /\ s.pin \notin pool

\* adoptAccountManager: indexes belong to one manager, so every index-keyed
\* record of the request is dropped or remapped by identity.
Adopted(s) ==
  [s EXCEPT !.gen = gen, !.rows = pool, !.limit = PoolLimit(pool),
            !.pinGone = PinLost(s), !.pend = Remapped(s), !.cands = @ \cap pool,
            !.attempted = {}, !.own = {}, !.blocked = {}]

Current(s) == IF Stale(s) THEN Adopted(s) ELSE s

\* A failed attempt that another pass may repeat.
Transient(s, why) ==
  [s EXCEPT !.pc = "select", !.transient = @ + 1, !.reason = why]

Refunded(s) == [s EXCEPT !.owed = IF Bypass(s) THEN @ ELSE @ - 1]
AnswerRefunded(r) == Becomes(r, [Idle EXCEPT !.pc = "answered", !.owed = Refunded(q[r]).owed])

Refund(s) ==
  bucket' = IF Bypass(s) THEN bucket ELSE [bucket EXCEPT ![s.at] = Least(@ + 1, MaxTokens)]

-----------------------------------------------------------------------------
(* Account state, lib/accounts.ts. *)

Drained(n) == IF n > Drain THEN n - Drain ELSE 0
Cooling(a, why) == [acct EXCEPT ![a].cooling = why]

\* applyMonotonicAuthCooldown: only ever extends.
AuthCooling(a, why) ==
  [acct EXCEPT ![a].cooling = IF @ = "auth-revoked" THEN @ ELSE why]

\* The login is refused for good.
Revoking(a) == [acct EXCEPT ![a].invalid = TRUE, ![a].cooling = "auth-revoked"]

CircuitAvailable(a) == circuit[a] = "closed" \/ (circuit[a] = "half-open" /\ slot[a] = None)

\* The breaker opens on a failed probe and, at its threshold, on any failure.
recordFailure(a) ==
  \/ /\ circuit[a] # "open"
     /\ circuit' = [circuit EXCEPT ![a] = "open"] /\ slot' = [slot EXCEPT ![a] = None]
  \/ circuit[a] # "half-open" /\ UNCHANGED <<circuit, slot>>

recordSuccess(a) ==
  IF circuit[a] = "half-open"
  THEN circuit' = [circuit EXCEPT ![a] = "closed"] /\ slot' = [slot EXCEPT ![a] = None]
  ELSE UNCHANGED <<circuit, slot>>

\* Mutant of releaseUnusedProbe: the slot of an attempt that was never sent is kept.
keepUnusedProbe(r, a) == UNCHANGED slot

releaseUnusedProbe(r, a) == slot' = [slot EXCEPT ![a] = IF @ = r THEN None ELSE @]

-----------------------------------------------------------------------------
(* chooseAccount and chooseTranscriptionAccount. *)

Usable(s, a) ==
  \/ Stale(s)
  \/ /\ acct[a].enabled /\ Routable(a) # {} /\ ~acct[a].invalid /\ ~acct[a].limited
     /\ acct[a].cooling = "none" /\ CircuitAvailable(a)

\* A pin's own cooldown is waived for its retries and after a network error;
\* the skip reason names the cooldown first, so the circuit is not looked at.
PinWaived(s, a) ==
  /\ acct[a].enabled /\ Routable(a) # {} /\ ~acct[a].invalid /\ ~acct[a].limited
  /\ acct[a].cooling # "none" /\ (s.transient > 0 \/ acct[a].cooling = "network-error")

Credential(a) ==
  /\ acct[a].enabled /\ Routable(a) # {} /\ ~acct[a].invalid /\ ~acct[a].dictated
  /\ acct[a].cooling \notin {"auth-failure", "auth-revoked"}

\* Mutant of Eligible: a request whose pinned row vanished falls back to the pool.
EligibleUnpinned(s) ==
  {a \in (IF Pinned(s) /\ ~s.pinGone THEN {s.pin} \cap s.rows ELSE s.rows) \ (s.attempted \cup s.blocked) :
     Usable(s, a)}

Eligible(s) ==
  LET rows == IF Pinned(s) THEN (IF s.pinGone THEN {} ELSE {s.pin} \cap s.rows) ELSE s.rows
  IN  CASE s.kind = "transcribe" ->
             {a \in rows \ (s.attempted \cup s.blocked) : Stale(s) \/ Credential(a)}
        [] s.kind # "transcribe" /\ Pinned(s) ->
             {a \in rows \ s.blocked : Usable(s, a) \/ PinWaived(s, a)}
        [] OTHER ->
             {a \in rows \ (s.attempted \cup s.blocked) :
                Usable(s, a) /\ (Routed(s) => a \in s.cands)}

LoopOpen(s) ==
  /\ \/ Pinned(s) \/ Cardinality(s.attempted) < Cardinality(s.rows) \/ ~s.recovered
     \/ s.kind = "transcribe" /\ ~Native /\ s.rows = {} /\ ~s.reloaded
  /\ s.transient < s.limit
  /\ Pinned(s) => s.selections - s.capacity < MaxSelections

-----------------------------------------------------------------------------
(* Arrival: authentication, parsing, storage sync, policy and catalog. *)

\* Any of the refusals before the pool is involved.
Refuse(r) == q[r].pc = "idle" /\ Answer(r) /\ UNCHANGED shared

\* The request enters the loop with the accounts whose catalog has its model.
\* The accounts whose catalogs may offer the model to a request with this pin.
Advertising(pin) == SUBSET (IF pin = None THEN pool ELSE {pin} \cap pool)

Start(r, kind, pin, advertised) ==
  /\ q[r].pc = "idle"
  /\ advertised \in Advertising(pin)
  /\ IF Native /\ kind = "responses" THEN advertised # {} ELSE advertised = {}
  /\ Becomes(r, [Idle EXCEPT !.pc = "select", !.kind = kind, !.pin = pin, !.gen = gen, !.rows = pool,
                             !.limit = IF pin = None THEN PoolLimit(pool) ELSE PinLimit,
                             !.cands = advertised,
                             !.pend = [a \in Accounts |-> IF a \in advertised THEN Routable(a) ELSE {}]])
  /\ UNCHANGED shared

-----------------------------------------------------------------------------
(* Selection found an account. *)

Chosen(r, a) == q[r].pc = "select" /\ LoopOpen(q[r]) /\ a \in Eligible(q[r])

\* Mutant of Trying: the selections of a pinned request are not counted.
uncountedTrying(s, a) == [s EXCEPT !.at = a, !.attempted = @ \cup {a}]

Trying(s, a) == [s EXCEPT !.at = a, !.attempted = @ \cup {a}, !.selections = IF Pinned(s) THEN @ + 1 ELSE @]

\* The quota scheduler expects the account's quota to run out: skip it.
Defer(r, a) ==
  /\ Chosen(r, a) /\ q[r].kind # "transcribe"
  /\ acct' = [acct EXCEPT ![a].limited = TRUE]
  /\ bucket' = [bucket EXCEPT ![a] = Drained(@)]
  /\ Becomes(r, [Trying(q[r], a) EXCEPT !.reason = "rate-limit"])
  /\ UNCHANGED <<circuit, slot, managers>>

HasToken(s, a) == Bypass(s) \/ bucket[a] > 0

\* consumeTokenWithReason says no.
Reject(r, a) ==
  /\ Chosen(r, a) /\ q[r].kind # "transcribe"
  /\ ~HasToken(q[r], a) \/ ~CircuitAvailable(a)
  /\ Becomes(r, [Trying(q[r], a) EXCEPT !.reason = "rate-limit",
                                        !.pc = IF Pinned(q[r]) THEN "exhausted" ELSE "select"])
  /\ UNCHANGED shared

Admit(r, a) ==
  /\ Chosen(r, a)
  /\ \/ /\ q[r].kind = "transcribe"
        /\ UNCHANGED <<bucket, slot>>
     \/ /\ q[r].kind # "transcribe" /\ HasToken(q[r], a) /\ CircuitAvailable(a)
        /\ bucket' = IF Bypass(q[r]) THEN bucket ELSE [bucket EXCEPT ![a] = @ - 1]
        /\ slot' = IF circuit[a] = "half-open" THEN [slot EXCEPT ![a] = r] ELSE slot
  /\ Becomes(r, [Trying(q[r], a) EXCEPT !.pc = "refresh", !.owed = IF Bypass(q[r]) THEN 0 ELSE 1])
  /\ UNCHANGED <<acct, circuit, managers>>

-----------------------------------------------------------------------------
(* Selection found nothing. *)

Nothing(r) == q[r].pc = "select" /\ LoopOpen(q[r]) /\ Eligible(q[r]) = {}
Reconciles(s) == ~Pinned(s) /\ s.kind = "responses" /\ ~s.reconciled

\* A reset of account a's quota is confirmed upstream.
Lift(a) ==
  /\ resets < MaxResets /\ acct[a].limited
  /\ resets' = resets + 1 /\ lifted' = lifted \cup {a}
  /\ acct' = [acct EXCEPT ![a].limited = FALSE]
  /\ UNCHANGED <<bucket, circuit, slot, pool, gen>>

\* reconcileConfirmedResets, then another pass in every case.
Reconcile(r) ==
  LET s == q[r] IN
  /\ Nothing(r) /\ Reconciles(s)
  /\ \/ Stale(s) /\ (Becomes(r, Adopted(s)) \/ Answer(r)) /\ UNCHANGED shared
     \/ /\ ~Stale(s) /\ \E a \in pool : Lift(a)
        /\ Becomes(r, [s EXCEPT !.attempted = {}])
     \/ /\ ~Stale(s)
        /\ Becomes(r, [s EXCEPT !.reconciled = TRUE, !.attempted = @ \ (s.own \cap lifted)])
        /\ UNCHANGED shared

\* recoverPrimaryQuota, once per request: spends a reset credit if it can.
Recover(r) ==
  LET s == q[r] IN
  /\ Nothing(r) /\ ~Reconciles(s) /\ ~Pinned(s) /\ ~s.recovered
  /\ \/ /\ Routed(s) /\ \E a \in pool : Lift(a)
        /\ Becomes(r, [s EXCEPT !.recovered = TRUE, !.attempted = {}])
     \/ Becomes(r, [s EXCEPT !.recovered = TRUE, !.pc = "lost"]) /\ UNCHANGED shared

DeadEnd(r) ==
  \/ q[r].pc = "lost"
  \/ Nothing(r) /\ ~Reconciles(q[r]) /\ (Pinned(q[r]) \/ q[r].recovered)

\* reloadRuntimeCredentials for dictation, once per request.
ReloadCredentials(r) ==
  LET s == q[r] IN
  /\ DeadEnd(r) /\ s.kind = "transcribe" /\ ~Native /\ ~s.reloaded
  /\ IF Stale(s) THEN (Becomes(r, [Adopted(s) EXCEPT !.pc = "select", !.reloaded = TRUE]) \/ Answer(r))
     ELSE Becomes(r, [s EXCEPT !.pc = "exhausted", !.reloaded = TRUE])
  /\ UNCHANGED shared

Recoverable(s) ==
  /\ s.kind # "transcribe" /\ ~s.reloaded /\ ~Pinned(s) /\ s.rows # {}
  /\ s.reason = "no-account" /\ s.blocked = {}

\* recoverStaleRuntimeState: a new manager without any transient state, the
\* manager another request just installed, or none.
RecoverStale(r) ==
  LET s == q[r]
      next(g) == [s EXCEPT !.pc = "select", !.reloaded = TRUE, !.gen = g, !.rows = pool,
                           !.limit = PoolLimit(pool), !.attempted = {}, !.own = {}]
  IN
  /\ DeadEnd(r) /\ Recoverable(s)
  /\ \/ /\ gen < MaxSwaps /\ gen' = gen + 1
        /\ acct' = [a \in Accounts |-> [acct[a] EXCEPT !.cooling = "none", !.limited = FALSE]]
        /\ bucket' = [a \in Accounts |-> MaxTokens]
        /\ circuit' = [a \in Accounts |-> "closed"] /\ slot' = [a \in Accounts |-> None]
        /\ IF Native /\ s.rows # pool THEN Answer(r) ELSE Becomes(r, next(gen'))
        /\ UNCHANGED <<pool, lifted, resets>>
     \/ /\ IF Native /\ s.rows # pool THEN Answer(r) ELSE Becomes(r, next(gen))
        /\ UNCHANGED shared
     \/ Becomes(r, [s EXCEPT !.pc = "exhausted"]) /\ UNCHANGED shared

GiveUp(r) ==
  /\ \/ /\ DeadEnd(r) /\ ~Recoverable(q[r])
        /\ ~(q[r].kind = "transcribe" /\ ~Native /\ ~q[r].reloaded)
     \/ q[r].pc = "select" /\ ~LoopOpen(q[r])
  /\ Becomes(r, [q[r] EXCEPT !.pc = "exhausted"])
  /\ UNCHANGED shared

\* The 503 or 429 of an exhausted pool, an unavailable pin or the last rejection.
Exhausted(r) == q[r].pc = "exhausted" /\ Answer(r) /\ UNCHANGED shared

-----------------------------------------------------------------------------
(* ensureFreshAccessToken returned; c is the request on the live manager. *)

Refreshing(r) == q[r].pc = "refresh"
Gone(s) == s.at \notin pool \/ ~acct[s.at].enabled

\* The row vanished or was disabled meanwhile: choose again, nobody is charged.
RefreshRestart(r) ==
  LET c == Current(q[r]) IN
  /\ Refreshing(r) /\ Gone(q[r])
  /\ Becomes(r, [Refunded(c) EXCEPT !.pc = "select", !.reason = "no-account"])
  /\ Refund(c) /\ releaseUnusedProbe(r, c.at)
  /\ UNCHANGED <<acct, circuit, managers>>

\* The policy refuses on the new manager, or the row on disk is not routable any more.
RefusedLate(r) ==
  /\ Refreshing(r) /\ (Stale(q[r]) \/ Native)
  /\ Answer(r) /\ releaseUnusedProbe(r, q[r].at)
  /\ UNCHANGED <<acct, bucket, circuit, managers>>

\* A local lease failure says nothing about the login.
RefreshUncoordinated(r) ==
  /\ Refreshing(r) /\ ~Gone(q[r])
  /\ AnswerRefunded(r)
  /\ Refund(q[r]) /\ releaseUnusedProbe(r, q[r].at)
  /\ UNCHANGED <<acct, circuit, managers>>

\* The refresh token was revoked: answer 401, present no other account's token.
RefreshRevoked(r) ==
  LET a == q[r].at IN
  /\ Refreshing(r) /\ ~Gone(q[r])
  /\ acct' = Revoking(a)
  /\ recordFailure(a) /\ Refund(q[r])
  /\ AnswerRefunded(r)
  /\ UNCHANGED managers

RefreshFailed(r, retryable) ==
  LET c == Current(q[r]) IN
  /\ Refreshing(r) /\ ~Gone(q[r])
  /\ acct' = AuthCooling(c.at, "auth-failure")
  /\ recordFailure(c.at) /\ Refund(c)
  /\ Becomes(r, [Refunded(c) EXCEPT !.pc = "select", !.reason = "auth-failure",
                                    !.transient = IF retryable THEN @ + 1 ELSE @])
  /\ UNCHANGED managers

\* The refreshed credential could not be stored, or names no account: the
\* cooldown replaces whatever cooldown the account had.
CommitFailed(r) ==
  LET c == Current(q[r]) IN
  /\ Refreshing(r) /\ ~Gone(q[r])
  /\ acct' = Cooling(c.at, "auth-failure")
  /\ recordFailure(c.at) /\ Refund(c)
  /\ Becomes(r, [Refunded(c) EXCEPT !.pc = "select", !.reason = "auth-failure", !.transient = @ + 1])
  /\ UNCHANGED managers

\* Refreshed, but there is nothing to send: no workspace left, or the
\* serving workspace is rate limited by now.
NotSendable(r) ==
  LET c == Current(q[r])
      limited == ~Native /\ c.kind = "responses" /\ acct[c.at].limited
  IN
  /\ Refreshing(r) /\ ~Gone(q[r])
  /\ ScopesLeft(c, c.at) = {} \/ limited
  /\ Becomes(r, [Refunded(c) EXCEPT !.pc = IF Pinned(c) THEN "exhausted" ELSE "select",
                                    !.attempted = IF limited THEN @ \cup {c.at} ELSE @,
                                    !.reason = IF limited THEN "rate-limit" ELSE @])
  /\ Refund(c) /\ releaseUnusedProbe(r, c.at)
  /\ UNCHANGED <<acct, circuit, managers>>

\* Leave workspace w of account a behind: its next one, or another account.
NextWorkspace(s, left) ==
  IF Others(left) # {}
  THEN [s EXCEPT !.pend[s.at] = Others(left), !.attempted = @ \ {s.at}]
  ELSE [s EXCEPT !.pend[s.at] = left, !.blocked = @ \cup {s.at}]

\* Mutant of Skipped: a workspace is only skipped for the account that was rejected.
NeverSkipped(s, left) == FALSE

Skipped(s, left) == Scopes[s.at][Best(left)] \in s.rejected

\* Another account's attempt showed that this workspace rejects the request.
SkipWorkspace(r) ==
  LET c == Current(q[r])
      left == ScopesLeft(c, c.at)
  IN
  /\ Refreshing(r) /\ ~Gone(q[r]) /\ left # {} /\ Skipped(c, left)
  /\ Becomes(r, [NextWorkspace(Refunded(c), left) EXCEPT !.pc = "select"])
  /\ Refund(c) /\ releaseUnusedProbe(r, c.at)
  /\ UNCHANGED <<acct, circuit, managers>>

Dispatch(r) ==
  LET c == Current(q[r])
      left == ScopesLeft(c, c.at)
  IN
  /\ Refreshing(r) /\ ~Gone(q[r]) /\ left # {} /\ ~Skipped(c, left)
  /\ ~(~Native /\ c.kind = "responses" /\ acct[c.at].limited)
  /\ Becomes(r, [c EXCEPT !.pc = "sent", !.ws = Scopes[c.at][Best(left)], !.pend[c.at] = left])
  /\ slot' = [slot EXCEPT ![c.at] = IF @ = r THEN "sent" ELSE @]
  /\ UNCHANGED <<acct, bucket, circuit, managers>>

-----------------------------------------------------------------------------
(* Upstream's answer, or the lack of one. *)

Sent(r) == q[r].pc = "sent"
Forward(r) == Answer(r)
Unretried == {"image", "transcribe", "realtime", "search"}
OwnLimits == {"search", "realtime", "transcribe"}   \* endpoints with rate limits of their own

ClientGone(r) ==
  /\ Sent(r) /\ Refund(q[r])
  /\ AnswerRefunded(r)
  /\ UNCHANGED <<acct, circuit, slot, managers>>

\* Mutant of mayResend: only calls that create something are not repeated.
mayResendSearch(s) == s.kind \notin Unretried \ {"search", "image"}

\* After a lost answer upstream may have done the work already.
mayResend(s) == s.kind \notin Unretried

TransportError(r) ==
  /\ Sent(r) /\ Refund(q[r])
  /\ IF mayResend(q[r])
     THEN /\ acct' = Cooling(q[r].at, "network-error")
          /\ Becomes(r, [Transient(Refunded(q[r]), "network-error") EXCEPT !.unsure = TRUE])
     ELSE /\ UNCHANGED acct
          /\ AnswerRefunded(r)
  /\ UNCHANGED <<circuit, slot, managers>>

\* Redirects, and answers that say nothing about the account, are forwarded.
ForwardAnswer(r) == Sent(r) /\ Forward(r) /\ UNCHANGED shared

\* Upstream says that this workspace may not use the model or setting.
CapabilityRejected(r) ==
  LET s == q[r]
      said == [Refunded(s) EXCEPT !.rejected = @ \cup {s.ws}, !.nays = @ \cup {s.ws}, !.pc = "select"]
      left == s.pend[s.at]
  IN
  /\ Sent(r) /\ Routed(s) /\ Refund(s)
  /\ IF Pinned(s) /\ Others(left) = {}
     THEN AnswerRefunded(r)
     ELSE Becomes(r, NextWorkspace(said, left))
  /\ UNCHANGED <<acct, circuit, slot, managers>>

\* 429: this account is out for its retry window.
RateLimited(r) ==
  LET s == q[r] IN
  /\ Sent(r)
  /\ IF s.kind \in OwnLimits
     THEN /\ acct' = IF s.kind = "transcribe" THEN [acct EXCEPT ![s.at].dictated = TRUE] ELSE acct
          /\ Answer(r) /\ UNCHANGED <<bucket, lifted>>
     ELSE /\ acct' = [acct EXCEPT ![s.at].limited = TRUE]
          /\ bucket' = [bucket EXCEPT ![s.at] = Drained(@)]
          /\ lifted' = lifted \ {s.at}
          /\ Becomes(r, [s EXCEPT !.pc = "select", !.own = @ \cup {s.at}, !.reason = "rate-limit",
                                  !.transient = IF Pinned(s) THEN @ + 1 ELSE @])
  /\ UNCHANGED <<circuit, slot, pool, gen, resets>>

\* Mutant of waitOutModelCapacity: the token of the attempt is kept.
waitWithoutRefund(r) ==
  /\ Becomes(r, [q[r] EXCEPT !.pc = "waiting", !.capacity = @ + 1, !.attempted = @ \ {q[r].at}])
  /\ UNCHANGED bucket

waitOutModelCapacity(r) ==
  /\ Becomes(r, [Refunded(q[r]) EXCEPT !.pc = "waiting", !.capacity = @ + 1, !.attempted = @ \ {q[r].at}])
  /\ Refund(q[r])

\* The model is at capacity (429 or 5xx): nobody is penalised, the request waits
\* until its deadline.
AtCapacity(r) ==
  /\ Sent(r) /\ q[r].kind \notin OwnLimits /\ q[r].capacity < Patience
  /\ waitOutModelCapacity(r)
  /\ UNCHANGED <<acct, circuit, slot, managers>>

\* A capacity 429 past the deadline is one of the account's own, and transient.
CapacityOver(r) ==
  LET s == q[r] IN
  /\ Sent(r) /\ s.kind \notin OwnLimits /\ s.capacity >= Patience
  /\ acct' = [acct EXCEPT ![s.at].limited = TRUE]
  /\ bucket' = [bucket EXCEPT ![s.at] = Drained(@)]
  /\ lifted' = lifted \ {s.at}
  /\ Becomes(r, [Transient(s, "rate-limit") EXCEPT !.own = @ \cup {s.at}])
  /\ UNCHANGED <<circuit, slot, pool, gen, resets>>

Waited(r) ==
  /\ q[r].pc = "waiting"
  /\ (Becomes(r, [q[r] EXCEPT !.pc = "select"]) \/ Answer(r))
  /\ UNCHANGED shared

\* 402/403 naming a disabled workspace.
WorkspaceDisabled(r) ==
  LET s == q[r]
      rest == Others(s.pend[s.at])
  IN
  /\ Sent(r) /\ Refund(s)
  /\ acct' = [acct EXCEPT ![s.at].dead = @ \cup {s.ws}]
  /\ Becomes(r, [Refunded(s) EXCEPT !.pc = "select", !.pend[s.at] = rest,
                                    !.attempted = IF rest # {} THEN @ \ {s.at} ELSE @,
                                    !.blocked = IF rest # {} THEN @ ELSE @ \cup {s.at}])
  /\ UNCHANGED <<circuit, slot, managers>>

\* ... of an account without workspace records: the account is disabled.
AccountDisabled(r) ==
  LET s == q[r] IN
  /\ Sent(r) /\ Refund(s)
  /\ IF acct[s.at].enabled
     THEN recordFailure(s.at) /\ acct' = [acct EXCEPT ![s.at].enabled = FALSE]
     ELSE UNCHANGED <<circuit, slot, acct>>
  /\ Becomes(r, [Refunded(s) EXCEPT !.pc = "select", !.reason = "deactivated"])
  /\ UNCHANGED managers

\* 401 saying that the token was revoked.
Revoked(r) ==
  LET s == q[r] IN
  /\ Sent(r) /\ Refund(s)
  /\ \/ /\ acct' = Revoking(s.at)
        /\ IF s.kind = "transcribe" THEN UNCHANGED <<circuit, slot>> ELSE recordFailure(s.at)
     \/ Stale(s) /\ UNCHANGED <<acct, circuit, slot>>   \* the row holds another login by now
  /\ AnswerRefunded(r)
  /\ UNCHANGED managers

Unauthorized(r) ==
  LET s == q[r] IN
  /\ Sent(r) /\ Refund(s)
  /\ IF s.kind = "transcribe"
     THEN /\ AnswerRefunded(r)
          /\ UNCHANGED <<acct, circuit, slot>>
     ELSE /\ \/ acct' = AuthCooling(s.at, "auth-failure") /\ recordFailure(s.at)
             \/ Stale(s) /\ UNCHANGED <<acct, circuit, slot>>
          /\ Becomes(r, Transient(Refunded(s), "auth-failure"))
  /\ UNCHANGED managers

ServerError(r) ==
  LET s == q[r] IN
  /\ Sent(r) /\ s.kind \notin Unretried /\ Refund(s)
  /\ acct' = Cooling(s.at, "server-error")
  /\ recordFailure(s.at)
  /\ Becomes(r, Transient(Refunded(s), "server-error"))
  /\ UNCHANGED managers

\* Headers of a usable answer: the account serves the session from now on, or
\* is set aside because its quota is about to run out.
Headers(r, nearExhaustion) ==
  LET s == q[r] IN
  /\ Sent(r) /\ (nearExhaustion => s.kind # "transcribe")
  /\ acct' = IF nearExhaustion THEN [acct EXCEPT ![s.at].limited = TRUE] ELSE acct
  /\ Becomes(r, [s EXCEPT !.pc = "stream"])
  /\ UNCHANGED <<bucket, circuit, slot, managers>>

Streaming(r) == q[r].pc = "stream"

StreamDone(r) ==
  /\ Streaming(r) /\ Answer(r)
  /\ IF q[r].kind = "transcribe" THEN UNCHANGED <<circuit, slot>> ELSE recordSuccess(q[r].at)
  /\ UNCHANGED <<acct, bucket, managers>>

StreamBroken(r) ==
  /\ Streaming(r) /\ Answer(r)
  /\ IF q[r].kind = "transcribe" THEN UNCHANGED <<acct, circuit, slot>>
     ELSE acct' = Cooling(q[r].at, "network-error") /\ recordFailure(q[r].at)
  /\ UNCHANGED <<bucket, managers>>

\* The client left, or the answer was an error that says nothing of the account.
StreamAbandoned(r) == Streaming(r) /\ Answer(r) /\ UNCHANGED shared

-----------------------------------------------------------------------------
(* The rest of the world: time, and other writers of the account file. *)

Expire(a) ==
  /\ \/ acct[a].cooling # "none" /\ acct' = [acct EXCEPT ![a].cooling = "none"]
     \/ acct[a].limited /\ acct' = [acct EXCEPT ![a].limited = FALSE]
     \/ acct[a].dictated /\ acct' = [acct EXCEPT ![a].dictated = FALSE]
  /\ UNCHANGED <<bucket, circuit, slot, managers, q>>

Refill(a) ==
  /\ bucket[a] < MaxTokens /\ bucket' = [bucket EXCEPT ![a] = @ + 1]
  /\ UNCHANGED <<acct, circuit, slot, managers, q>>

\* The reset time-out: an open circuit admits a probe, a probe without a verdict is given up.
HalfOpen(a) ==
  /\ circuit[a] = "open" \/ slot[a] = "sent"
  /\ circuit' = [circuit EXCEPT ![a] = "half-open"] /\ slot' = [slot EXCEPT ![a] = None]
  /\ UNCHANGED <<acct, bucket, managers, q>>

\* A request or a file watcher loads a changed account file: rows come and go,
\* and those in back were added, logged in or enabled again.
Swap(rows, back) ==
  /\ gen < MaxSwaps /\ gen' = gen + 1
  /\ pool' = rows /\ rows \ pool \subseteq back
  /\ acct' = [a \in Accounts |-> IF a \in back THEN Fresh ELSE acct[a]]
  /\ UNCHANGED <<bucket, circuit, slot, lifted, resets, q>>

-----------------------------------------------------------------------------
Arrive(r) ==
  \/ Refuse(r)
  \/ \E kind \in Kinds, pin \in Pins, advertised \in SUBSET Accounts : Start(r, kind, pin, advertised)

Work(r) ==
  \/ \E a \in Accounts : Defer(r, a) \/ Reject(r, a) \/ Admit(r, a)
  \/ Reconcile(r) \/ Recover(r) \/ ReloadCredentials(r) \/ RecoverStale(r) \/ GiveUp(r) \/ Exhausted(r)
  \/ RefreshRestart(r) \/ RefusedLate(r) \/ RefreshUncoordinated(r) \/ RefreshRevoked(r)
  \/ \E retryable \in BOOLEAN : RefreshFailed(r, retryable)
  \/ CommitFailed(r) \/ NotSendable(r) \/ SkipWorkspace(r) \/ Dispatch(r)
  \/ ClientGone(r) \/ TransportError(r) \/ ForwardAnswer(r) \/ CapabilityRejected(r)
  \/ RateLimited(r) \/ AtCapacity(r) \/ CapacityOver(r) \/ Waited(r)
  \/ WorkspaceDisabled(r) \/ AccountDisabled(r) \/ Revoked(r) \/ Unauthorized(r) \/ ServerError(r)
  \/ \E nearExhaustion \in BOOLEAN : Headers(r, nearExhaustion)
  \/ StreamDone(r) \/ StreamBroken(r) \/ StreamAbandoned(r)

\* Bound: after the last answer nothing that happens matters to a request.
World ==
  /\ \E r \in Requests : q[r].pc # "answered"
  /\ \/ \E a \in Accounts : Expire(a) \/ Refill(a) \/ HalfOpen(a)
     \/ \E rows \in SUBSET Accounts : \E back \in SUBSET rows : Swap(rows, back)

Next == (\E r \in Requests : Arrive(r) \/ Work(r)) \/ World

Spec == Init /\ [][Next]_vars
FairSpec == Spec /\ \A r \in Requests : WF_vars(Work(r))

-----------------------------------------------------------------------------
(* Properties. *)

\* Every upstream attempt of an unpinned pool request is paid with one token of
\* its account, and the token is given back at most once: an attempt being
\* prepared or in flight has exactly one debit, a request waiting for model
\* capacity has none (refundConsumedPoolToken and its many callers).
TokenAccounting ==
  \A r \in Requests :
    /\ q[r].owed \in {0, 1}
    /\ q[r].pc \in {"refresh", "sent"} => (q[r].owed = 1) = ~Bypass(q[r])
    /\ q[r].pc = "waiting" => q[r].owed = 0

\* A half-open circuit's probe slot is held by a request only while it prepares
\* the attempt on that account: every early exit before the upstream call gives
\* the slot back (the finally that calls releaseUnusedProbe).
ProbeNotLeaked ==
  \A a \in Accounts, r \in Requests :
    slot[a] = r => q[r].pc = "refresh" /\ q[r].at = a

\* After an answer was lost, a request that creates something upstream (an
\* image, a transcription, a realtime call) or a search is never sent again.
NoReplay ==
  \A r \in Requests :
    q[r].pc = "sent" /\ q[r].unsure => q[r].kind \in {"responses", "thread-goal"}

\* A pinned request is only ever served by its pinned account, also when the
\* pin's row moves or vanishes in a manager replacement.
PinHonoured ==
  \A r \in Requests :
    q[r].pin # None /\ q[r].pc \in {"refresh", "sent", "stream"} => q[r].at = q[r].pin

\* A workspace that rejected the request's model or setting does not get the
\* request again, whichever account reaches it (rejectedWorkspaces).
WorkspaceOnce ==
  \A r \in Requests : q[r].pc = "sent" => q[r].ws \notin q[r].nays

\* Every attempt settles what it took: pool tokens and probe slots.
AttemptsSettled == TypeOK /\ TokenAccounting /\ ProbeNotLeaked

\* Neither a manager replacement nor a lost answer makes the request go where it
\* should not: to another account than its pin, to a workspace that refused it, or
\* upstream a second time.
PinnedAndOnce == PinHonoured /\ NoReplay /\ WorkspaceOnce

\* Every request that enters the loop is answered: retries, waits, recoveries
\* and manager replacements are all bounded.
EveryRequestAnswered == \A r \in Requests : q[r].pc = "select" ~> q[r].pc = "answered"

=============================================================================
