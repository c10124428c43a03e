----------------------------- MODULE RateLimits -----------------------------
(***************************************************************************)
(* One account's rate-limit marks in a running proxy, and the operator's   *)
(* `switch`, which asks for a fresh attempt and so clears them, once.  A   *)
(* 429 is ordered against the selection on disk by reading it; while the   *)
(* file cannot be read the 429 is kept aside, to be put back should the    *)
(* switch turn out to be older.  Deadlines are remaining ticks: 0 is none. *)
(***************************************************************************)
EXTENDS Integers, FiniteSetsExt

CONSTANTS Models,        \* model names of one family
          Reserve,       \* LUNA_RESERVE_MODEL, metered on its own
          CacheTTL,      \* RATE_LIMIT_CACHE_TTL_MS
          UnsequencedTTL,\* UNSEQUENCED_RATE_LIMIT_TTL_MS
          MaxRetryAfter, MaxSelections, NoModel, NoPending

ASSUME MarksAssumption ==
  /\ Reserve \in Models /\ NoModel \notin Models
  /\ {CacheTTL, UnsequencedTTL, MaxRetryAfter, MaxSelections} \subseteq Nat

Base == "base"
QuotaKeys == {Base} \cup Models

VARIABLES limits,      \* rateLimitResetTimes: key -> ticks left
          pending,     \* unsequencedRateLimits: limits and their age, or none
          knownGen,    \* the manager's affinityGeneration
          selection,   \* the file: its generation, whether it pins this account
          owed         \* ticks the server asked for since the account was last switched to

markVars == <<limits, pending, knownGen, selection, owed>>

None == [k \in QuotaKeys |-> 0]
LaterOf(f, g) == [k \in QuotaKeys |-> Max({f[k], g[k]})]
Elapse(f) == [k \in QuotaKeys |-> Max({0, f[k] - 1})]

MarksInit ==
  /\ limits = None /\ pending = NoPending /\ owed = None
  /\ knownGen = 0 /\ selection = [gen |-> 0, pins |-> FALSE]

-----------------------------------------------------------------------------
Replayable(p) == p # NoPending /\ p.age <= UnsequencedTTL

\* The keys a rejection for a model closes, by the reason the server gave.
KeysClosed(model, reason) ==
  (IF model # Reserve /\ (model = NoModel \/ reason \in {"quota", "unknown"}) THEN {Base} ELSE {})
    \cup (IF model # NoModel /\ (model = Reserve \/ reason \in {"tokens", "concurrent", "unknown"})
          THEN {model} ELSE {})

Marked(keys, ticks) == [k \in QuotaKeys |-> IF k \in keys THEN Min({ticks, CacheTTL}) ELSE 0]

\* What a newer selection leaves of the limits of the account it pins.
ClearedOf(p) == IF Replayable(p) THEN p.limits ELSE None

\* applyManualSelection: limits, pending and generation after it.
applyManualSelectionAlways ==
  IF selection.pins THEN [lim |-> ClearedOf(pending), pend |-> NoPending, gen |-> selection.gen]
  ELSE [lim |-> limits, pend |-> pending, gen |-> selection.gen]
applyManualSelection ==
  IF selection.gen > knownGen THEN applyManualSelectionAlways
  ELSE [lim |-> limits, pend |-> pending, gen |-> knownGen]

\* The selection could be read: the 429 comes after it and needs no copy aside.
RejectedReadable(marks) ==
  LET after == applyManualSelection IN
    /\ limits' = LaterOf(after.lim, marks)
    /\ knownGen' = after.gen
    /\ pending' = NoPending

\* It could not: the 429 is recorded and remembered with the ones still replayable.
RejectedBlind(marks) ==
  /\ limits' = LaterOf(limits, marks)
  /\ pending' = [limits |-> IF Replayable(pending) THEN LaterOf(pending.limits, marks) ELSE marks,
                 age |-> 0]
  /\ UNCHANGED knownGen

\* markRateLimitedWithReason.
Rejected == \E model \in Models \cup {NoModel}, reason \in {"quota", "tokens", "unknown"},
               ticks \in 1..MaxRetryAfter :
  LET marks == Marked(KeysClosed(model, reason), ticks) IN
    /\ RejectedReadable(marks) \/ RejectedBlind(marks)
    /\ owed' = LaterOf(owed, marks)
    /\ UNCHANGED selection

\* A request reads the selection and applies it.
SelectionRead ==
  LET after == applyManualSelection IN
    /\ limits' = after.lim /\ pending' = after.pend /\ knownGen' = after.gen
    /\ UNCHANGED <<selection, owed>>

\* `switch` to this account or to another one, or `unpin`, in another process.
Switched == \E pins \in BOOLEAN :
  /\ selection.gen < MaxSelections
  /\ selection' = [gen |-> selection.gen + 1, pins |-> pins]
  /\ owed' = IF pins THEN None ELSE owed
  /\ UNCHANGED <<limits, pending, knownGen>>

\* clearAccountTransientState, after a runtime was found stale.
clearAccountTransientState ==
  /\ limits # None
  /\ limits' = None /\ owed' = None
  /\ UNCHANGED <<pending, knownGen, selection>>

\* Expired marks read as absent.  A copy kept aside for longer than the file may
\* stay unreadable is given up, and with it what it stood for.
MarkAges ==
  /\ limits # None \/ pending # NoPending
  /\ limits' = Elapse(limits)
  /\ pending' = IF pending = NoPending \/ pending.age > UnsequencedTTL THEN pending
                ELSE [limits |-> Elapse(pending.limits), age |-> pending.age + 1]
  /\ owed' = IF pending' # NoPending /\ ~Replayable(pending') THEN None ELSE Elapse(owed)
  /\ UNCHANGED <<knownGen, selection>>

MarksNext ==
  \/ Rejected \/ SelectionRead \/ Switched
  \/ clearAccountTransientState \/ MarkAges

MarksSpec == MarksInit /\ [][MarksNext]_markVars

-----------------------------------------------------------------------------
\* A switch clears the limits it finds and no later one: what the server asked for
\* after the operator switched to the account stays in force, even where the 429
\* was recorded while the selection could not be read.
LaterLimitKept == \A k \in QuotaKeys : owed[k] > 0 => limits[k] >= owed[k]

-----------------------------------------------------------------------------
(***************************************************************************)
(* lib/preemptive-quota-scheduler.ts for one account and model: responses  *)
(* report two quota windows, a 429 adds how long to stay away, and before  *)
(* a request the scheduler says whether to hold the account back and for   *)
(* how long.  Times are remaining ticks (NoReset: none was reported).      *)
(***************************************************************************)

CONSTANTS MaxReset,       \* bound on how far a reset lies ahead
          MaxDeferral,    \* maxDeferralMs
          SnapshotTTL,    \* RATE_LIMIT_CACHE_TTL_MS
          NoSnapshot

ASSUME SchedulerAssumption == {MaxReset, MaxDeferral, SnapshotTTL} \subseteq Nat

NoReset == -1
\* usedPercent by what the code tells apart: not reported, healthy, past the
\* threshold, nothing left.
UsedPercent == {"unknown", "healthy", "near", "full"}
Windows == [used : UsedPercent, reset : NoReset..MaxReset]

VARIABLES snapshot,  \* the entry of the map: status, windows, age
          verdict,   \* the last getDeferral
          blame,     \* the longest wait the server asked for and has not run out
          sentence   \* what the last 429 asked for, while no later response spoke

schedulerVars == <<snapshot, verdict, blame, sentence>>

Proceed == [defer |-> FALSE, wait |-> 0, why |-> "none"]

SchedulerInit ==
  /\ snapshot = NoSnapshot /\ verdict = Proceed /\ blame = 0 /\ sentence = 0

\* Windows whose reset is about a limit: exhausted, or saying nothing of their use.
IsRateLimitWindow(w) == w.used \in {"unknown", "full"}
LimitResets(s) == {w.reset : w \in {v \in {s.primary, s.secondary} : IsRateLimitWindow(v)}}
ResetOr0(w) == Max({w.reset, 0})

\* prune drops entries all of whose resets lie in the past; it runs once a minute.
ExpiredEither(s) == s # NoSnapshot /\ 0 \in {s.primary.reset, s.secondary.reset}
Expired(s) == s # NoSnapshot /\ Max({s.primary.reset, s.secondary.reset}) = 0
MayPrune(s) == IF Expired(s) THEN {s, NoSnapshot} ELSE {s}

\* readQuotaSchedulerSnapshot and update: a response with quota headers.
update == \E status \in {200, 429}, p \in Windows, q \in {[used |-> "unknown", reset |-> NoReset],
                                                          [used |-> "healthy", reset |-> MaxReset],
                                                          [used |-> "near", reset |-> 1]} :
  /\ p # [used |-> "unknown", reset |-> NoReset] \/ q.used # "unknown"
  /\ snapshot' = [status |-> status, primary |-> p, secondary |-> q, age |-> 0]
  /\ blame' = Max({0} \cup {w.reset : w \in {v \in {p, q} : v.used \in {"unknown", "full"}}})
  /\ sentence' = 0
  /\ verdict' = Proceed

\* The primary window a 429 finds is kept only where it was itself a limit.
FoldsAny(w) == ResetOr0(w)
Folds(w) == IF IsRateLimitWindow(w) THEN ResetOr0(w) ELSE 0

markRateLimited429 == \E retry \in 0..MaxReset :
  LET before == IF snapshot = NoSnapshot THEN 0 ELSE Folds(snapshot.primary)
      second == IF snapshot = NoSnapshot THEN [used |-> "unknown", reset |-> NoReset] ELSE snapshot.secondary
  IN
    /\ snapshot' = [status |-> 429, primary |-> [used |-> "full", reset |-> Max({before, retry})],
                    secondary |-> second, age |-> 0]
    /\ blame' = Max({blame, retry})
    /\ sentence' = Max({sentence, retry})
    /\ verdict' = Proceed

\* trustedResetWaitMs: a window that reports no reset holds for the whole cap.
NearWait(w) ==
  IF w.used \in {"near", "full"} THEN (IF w.reset = NoReset THEN MaxDeferral ELSE w.reset) ELSE 0

Deferral(s) ==
  LET left == SnapshotTTL - s.age
      limit == Max({0} \cup LimitResets(s))
      near == Max({NearWait(s.primary), NearWait(s.secondary)})
  IN CASE s.status = 429 /\ limit > 0 -> [defer |-> TRUE, wait |-> Min({limit, MaxDeferral, left}), why |-> "rate-limit"]
       [] s.status # 429 /\ near > 0 -> [defer |-> TRUE, wait |-> Min({near, left}), why |-> "quota-near-exhaustion"]
       [] OTHER -> Proceed

\* getDeferral: an entry older than its time to live is dropped.
getDeferral == \E s \in MayPrune(snapshot) :
  /\ IF s = NoSnapshot \/ s.age >= SnapshotTTL
     THEN snapshot' = NoSnapshot /\ verdict' = Proceed
     ELSE snapshot' = s /\ verdict' = Deferral(s)
  /\ UNCHANGED <<blame, sentence>>

\* clear, clearByPrefix and clearAll: the account recovered, left or was reset.
clear ==
  /\ snapshot # NoSnapshot
  /\ snapshot' = NoSnapshot /\ verdict' = Proceed /\ blame' = 0 /\ sentence' = 0

QuotaTick ==
  LET elapse(w) == [w EXCEPT !.reset = IF @ > 0 THEN @ - 1 ELSE @] IN
    /\ snapshot # NoSnapshot /\ snapshot.age < SnapshotTTL
    /\ snapshot' = [snapshot EXCEPT !.primary = elapse(@), !.secondary = elapse(@), !.age = @ + 1]
    /\ blame' = Max({0, blame - 1}) /\ sentence' = Max({0, sentence - 1})
    /\ verdict' = Proceed

SchedulerNext == update \/ markRateLimited429 \/ getDeferral \/ clear \/ QuotaTick

SchedulerSpec == SchedulerInit /\ [][SchedulerNext]_schedulerVars

-----------------------------------------------------------------------------
\* A short 429 never benches the account until a healthy window resets: a deferral
\* for a rate limit is no longer than the server asked for, by Retry-After or by a
\* window it reported exhausted.
DeferralWasAsked == verdict.why = "rate-limit" => verdict.wait <= blame

\* What a 429 asked for is waited out: until it has run, or a later response spoke,
\* or the entry outlived its time, a request is held back for the rest of it.
LimitIsHonoured ==
  getDeferral /\ sentence > 0 /\ snapshot # NoSnapshot /\ snapshot.age < SnapshotTTL
  => verdict'.defer /\ verdict'.wait >= Min({sentence, MaxDeferral, SnapshotTTL - snapshot.age})

-----------------------------------------------------------------------------
(***************************************************************************)
(* lib/request/rate-limit-backoff.ts for one account and quota key: how    *)
(* long to wait after a 429.  Requests run in parallel, so several may     *)
(* report the same limit; a quiet spell starts the count afresh.           *)
(***************************************************************************)

CONSTANTS DedupWindow, StateReset, MaxBackoff,
          MaxAsked,      \* bound on the server's Retry-After
          MaxAttempts,   \* bound on consecutive 429s
          NoBackoff

ASSUME BackoffAssumption ==
  /\ {DedupWindow, StateReset, MaxBackoff, MaxAsked, MaxAttempts} \subseteq Nat
  /\ DedupWindow > 0 /\ StateReset > DedupWindow

VARIABLES entry,    \* rateLimitStateByAccountQuota: attempt, age, delay, or none
          told,     \* the last answer: attempt, delay, reason
          spell     \* since the count started: ticks, and the longest delay asked for

backoffVars == <<entry, told, spell>>

\* BACKOFF_MULTIPLIERS, in halves.
Halves(reason) ==
  CASE reason = "quota" -> 6 [] reason = "tokens" -> 3 [] reason = "concurrent" -> 1 [] OTHER -> 2

NotTold == [attempt |-> 0, delay |-> 0, reason |-> "unknown"]
BackoffInit ==
  /\ entry = NoBackoff /\ told = NotTold /\ spell = [ticks |-> 0, asked |-> 0]

Capped(d) == Min({d, MaxBackoff})
\* addBackoffJitter: a fifth either way, rounded down.
Jittered(d) == ((4 * d) \div 5)..((6 * d) \div 5)

DuplicateNever(e) == FALSE
Duplicate(e) == e # NoBackoff /\ e.age < DedupWindow
SameStreak(e) == e # NoBackoff /\ e.age < StateReset
Attempt(e) == IF SameStreak(e) THEN e.attempt + 1 ELSE 1

\* calculateBackoffMs: the reason's multiplier, and not the exponent again.
calculateBackoffTwice(base, attempt, reason) == Capped((Halves(reason) * base * 2^(attempt - 1)) \div 2)
calculateBackoffMs(base, attempt, reason) == Capped((Halves(reason) * base) \div 2)

\* getRateLimitBackoffWithReason for a 429 within the window of the last one.
RepeatedLimit == \E reason \in {"quota", "concurrent", "unknown"} :
  /\ Duplicate(entry)
  /\ told' = [attempt |-> entry.attempt, reason |-> reason,
              delay |-> calculateBackoffMs(entry.delay, entry.attempt, reason)]
  /\ UNCHANGED <<entry, spell>>

\* And for one that counts.  The first attempt is told without jitter.
CountedLimit == \E reason \in {"quota", "concurrent", "unknown"}, asked \in 1..MaxAsked :
  LET n == Attempt(entry) IN
    /\ ~Duplicate(entry) /\ n <= MaxAttempts
    /\ \E j \in Jittered(Capped(asked * 2^(n - 1))) :
         LET delay == Max({asked, Capped(j)}) IN
           /\ entry' = [attempt |-> n, age |-> 0, delay |-> delay]
           /\ told' = [attempt |-> n, reason |-> reason,
                       delay |-> calculateBackoffMs(IF n = 1 THEN asked ELSE delay, n, reason)]
    /\ spell' = IF SameStreak(entry) THEN [spell EXCEPT !.asked = Max({@, asked})]
                ELSE [ticks |-> 0, asked |-> asked]

\* A success resets the account's count.
resetRateLimitBackoff ==
  /\ entry # NoBackoff
  /\ entry' = NoBackoff /\ told' = NotTold /\ spell' = [ticks |-> 0, asked |-> 0]

\* Entries older than the reset time are pruned at the next 429.
BackoffTick ==
  /\ entry # NoBackoff /\ entry.age <= StateReset
  /\ entry' = [entry EXCEPT !.age = @ + 1]
  /\ spell' = [spell EXCEPT !.ticks = Min({@ + 1, MaxAttempts * DedupWindow})]
  /\ UNCHANGED told

BackoffNext == RepeatedLimit \/ CountedLimit \/ resetRateLimitBackoff \/ BackoffTick

BackoffSpec == BackoffInit /\ [][BackoffNext]_backoffVars

-----------------------------------------------------------------------------
\* Requests in flight together count once: the attempt a caller is told rises by at
\* most one per window, however many 429s arrive.
AttemptsArePaced == told.attempt <= 1 + (spell.ticks \div DedupWindow)

\* The exponent is applied once: the delay is at most the reason's multiple of the
\* server's, doubled per attempt, and a fifth of jitter.
ExponentialOnce ==
  10 * told.delay <= 6 * Halves(told.reason) * Max({1, spell.asked}) * 2^(Max({1, told.attempt}) - 1)

-----------------------------------------------------------------------------
(***************************************************************************)
(* The gates an account passes before a request may use it (enabled, a     *)
(* workspace left, credential not revoked, no rate limit, no cooldown,     *)
(* breaker closed), the selectors of AccountManager over a pool, and the   *)
(* wait it advertises when no account passes.  Deadlines are remaining     *)
(* ticks.  One model family; the breaker is CircuitBreaker's, seen by its  *)
(* remaining open time.                                                    *)
(***************************************************************************)
CONSTANTS PoolSize, MaxWait,
          MaxBlows   \* bound on what may go wrong

ASSUME GatesAssumption == {PoolSize, MaxWait, MaxBlows} \subseteq Nat /\ PoolSize > 0

Rows == 0..PoolSize - 1
NoUsable == -1

VARIABLES shut,   \* gate -> row -> ticks it stays shut
          flags,    \* row -> enabled, has a workspace, credential revoked
          cursor, currentRow,
          promise,  \* the wait last advertised, for which rows, and what is left of it
          passedBy,   \* picks in a row that passed by a usable account
          blows

gateVars == <<shut, flags, cursor, currentRow, promise, passedBy, blows>>

Timed == {"limit", "cooldown", "breaker"}
Healthy == [enabled |-> TRUE, workspace |-> TRUE, revoked |-> FALSE]
NoPromise == [given |-> FALSE]

GatesInit ==
  /\ shut = [g \in Timed |-> [a \in Rows |-> 0]]
  /\ flags = [a \in Rows |-> Healthy]
  /\ cursor = 0 /\ currentRow = 0
  /\ promise = NoPromise /\ passedBy = [a \in Rows |-> 0] /\ blows = 0

-----------------------------------------------------------------------------
TimedOpen(a) == \A g \in Timed : shut[g][a] = 0

\* The order of getManagedAccountRuntimeSkipReason.
SkipReason(a) ==
  CASE ~flags[a].enabled       -> "disabled"
    [] ~flags[a].workspace     -> "workspace-disabled"
    [] flags[a].revoked        -> "auth-invalidated"
    [] shut["limit"][a] > 0  -> "rate-limited"
    [] shut["cooldown"][a] > 0 -> "cooling-down"
    [] shut["breaker"][a] > 0  -> "circuit-open"
    [] OTHER -> "none"

Usable(a) == SkipReason(a) = "none"

After(a) == (a + 1) % PoolSize
\* The first usable row from a start, wrapping round.
FirstUsable(start, blocked) ==
  LET at(i) == (start + i) % PoolSize
      open == {i \in 0..PoolSize - 1 : Usable(at(i)) /\ at(i) \notin blocked}
  IN IF open = {} THEN NoUsable ELSE at(Min(open))

\* Round robin's account of whom it passed by.
Passed(a) == passedBy' = [b \in Rows |-> IF b = a \/ ~Usable(b) THEN 0 ELSE passedBy[b] + 1]
NoOneWaits == passedBy' = [b \in Rows |-> 0]

-----------------------------------------------------------------------------
(* The selectors. *)

RotatesToSame(a) == cursor' = a
Rotates(a) == cursor' = After(a)

\* getNextForFamily, and getCurrentOrNextForFamily, which moves the active row too.
getNextForFamily ==
  LET a == FirstUsable(cursor, {}) IN
    /\ a # NoUsable
    /\ Rotates(a) /\ Passed(a)
    /\ currentRow' \in {currentRow, a}
    /\ UNCHANGED <<shut, flags, promise, blows>>

\* getCurrentOrNextForFamilySequential: stays while the active row is usable.
SequentialPick(blocked) ==
  IF Usable(currentRow) /\ currentRow \notin blocked THEN currentRow ELSE FirstUsable(currentRow, blocked)

getCurrentOrNextForFamilySequential == \E blocked \in SUBSET Rows :
  LET a == SequentialPick(blocked) IN
    /\ a # NoUsable
    /\ currentRow' = a
    /\ cursor' = IF a = currentRow THEN cursor ELSE After(a)
    /\ NoOneWaits
    /\ UNCHANGED <<shut, flags, promise, blows>>

\* selectHybridAccount: any usable row may have the best score, and no other.
HybridCandidates(blocked) == {a \in Rows \ blocked : Usable(a)}

getCurrentOrNextForFamilyHybrid == \E blocked \in SUBSET Rows : \E a \in HybridCandidates(blocked) :
  /\ currentRow' = a /\ cursor' = After(a) /\ NoOneWaits
  /\ UNCHANGED <<shut, flags, promise, blows>>

\* setActiveIndex and markSwitched.
setActiveIndex == \E a \in {b \in Rows : flags[b].enabled} :
  /\ currentRow' = a /\ cursor' \in {a, After(a)} /\ NoOneWaits
  /\ UNCHANGED <<shut, flags, promise, blows>>

-----------------------------------------------------------------------------
(* What closes and opens gates. *)

Blow ==
  /\ blows < MaxBlows /\ blows' = blows + 1
  /\ promise' = NoPromise
  /\ UNCHANGED <<cursor, currentRow, passedBy>>

\* markRateLimited keeps the later deadline, markAccountCoolingDown the new one.
markRateLimited == \E a \in Rows, t \in 1..MaxWait :
  /\ Blow
  /\ shut' = [shut EXCEPT !["limit"][a] = Max({@, t})]
  /\ UNCHANGED flags
markAccountCoolingDown == \E a \in Rows, t \in 1..MaxWait :
  /\ Blow
  /\ shut' = [shut EXCEPT !["cooldown"][a] = t]
  /\ UNCHANGED flags
BreakerTrips == \E a \in Rows, t \in 1..MaxWait :
  /\ Blow
  /\ shut' = [shut EXCEPT !["breaker"][a] = Max({@, t})]
  /\ UNCHANGED flags

markAuthInvalidated == \E a \in Rows :
  /\ Blow
  /\ flags' = [flags EXCEPT ![a].revoked = TRUE]
  /\ UNCHANGED shut
\* The account is disabled, or the last of its workspaces is.
Disabled == \E a \in Rows :
  /\ Blow
  /\ \/ flags' = [flags EXCEPT ![a].enabled = FALSE]
     \/ flags' = [flags EXCEPT ![a].workspace = FALSE]
  /\ UNCHANGED shut
\* updateFromAuth after a new sign-in; enabling again.
GatesRestored == \E a \in Rows :
  /\ flags[a] # Healthy
  /\ flags' = [flags EXCEPT ![a] = Healthy]
  /\ UNCHANGED <<shut, cursor, currentRow, promise, passedBy, blows>>

\* breakerSucceeds closes the breaker of the row that answered.
breakerSucceeds == \E a \in Rows :
  /\ shut["breaker"][a] > 0
  /\ shut' = [shut EXCEPT !["breaker"][a] = 0]
  /\ UNCHANGED <<flags, cursor, currentRow, promise, passedBy, blows>>
\* clearAccountTransientState and resetVolatileRuntimeState.
resetVolatileRuntimeState ==
  /\ shut # [g \in Timed |-> [a \in Rows |-> 0]]
  /\ shut' = [g \in Timed |-> [a \in Rows |-> 0]]
  /\ UNCHANGED <<flags, cursor, currentRow, promise, passedBy, blows>>

GateTick ==
  /\ shut # [g \in Timed |-> [a \in Rows |-> 0]] \/ (promise.given /\ promise.left > 0)
  /\ shut' = [g \in Timed |-> [a \in Rows |-> Max({0, shut[g][a] - 1})]]
  /\ promise' = IF promise.given THEN [promise EXCEPT !.left = Max({0, @ - 1})] ELSE promise
  /\ UNCHANGED <<flags, cursor, currentRow, passedBy, blows>>

-----------------------------------------------------------------------------
(* The advertised wait. *)

Waitable(excluded) == {a \in Rows \ excluded : flags[a].enabled /\ ~flags[a].revoked}
RowWaitFirstGate(a) == Min({shut[g][a] : g \in {h \in Timed : shut[h][a] > 0}} \cup {Max({shut[g][a] : g \in Timed})})
RowWait(a) == Max({shut[g][a] : g \in Timed})

getMinWaitTimeForFamily(excluded) ==
  LET open == Waitable(excluded) IN
    IF open = {} \/ \E a \in open : TimedOpen(a) THEN 0
    ELSE Min({RowWait(a) : a \in open})

\* A caller finds nobody usable and is told how long to wait.
Advertise == \E excluded \in SUBSET Rows :
  /\ \A a \in Rows \ excluded : ~Usable(a)
  /\ Waitable(excluded) # {} /\ \A a \in Waitable(excluded) : flags[a].workspace
  /\ promise' = [given |-> TRUE, excluded |-> excluded, left |-> getMinWaitTimeForFamily(excluded)]
  /\ UNCHANGED <<shut, flags, cursor, currentRow, passedBy, blows>>

GatesNext ==
  \/ getNextForFamily \/ getCurrentOrNextForFamilySequential \/ getCurrentOrNextForFamilyHybrid
  \/ setActiveIndex
  \/ markRateLimited \/ markAccountCoolingDown \/ BreakerTrips \/ markAuthInvalidated
  \/ Disabled \/ GatesRestored \/ breakerSucceeds \/ resetVolatileRuntimeState
  \/ GateTick \/ Advertise

GatesSpec == GatesInit /\ [][GatesNext]_gateVars

-----------------------------------------------------------------------------
\* A caller that waits for as long as it was told finds an account it may use, unless
\* something else went wrong in the meantime: the wait covers every gate of the row
\* that opens first, not only the first gate to open.
WaitIsEnough ==
  promise.given /\ promise.left = 0 => \E a \in Rows \ promise.excluded : Usable(a)

\* Round robin passes by a usable account at most once per round.
NobodyStarves == \A a \in Rows : passedBy[a] < PoolSize
=============================================================================
