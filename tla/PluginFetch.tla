----------------------------- MODULE PluginFetch -----------------------------
(***************************************************************************)
(* The plugin host's fetch (index.ts): account traversal, retries on the   *)
(* same account, model fallback, workspace rotation, stream failover and   *)
(* session affinity, for concurrent requests.  The code                    *)
(* refers to accounts by their position in the pool, and a removal moves   *)
(* the positions of all later accounts.  Models, quotas and scores are     *)
(* abstracted: an account can be used now or not, and the selector may     *)
(* prefer any account that can.                                            *)
(***************************************************************************)
EXTENDS Integers, Sequences, FiniteSets, SequencesExt

CONSTANTS
  Fetches,          \* requests
  Sessions,         \* session affinity keys
  HostPool,         \* the account pool at the start, a sequence
  HostWorkspaces,   \* number of workspaces tracked for each account, 0 for none
  FailoverModes,    \* subset of {"aggressive", "balanced", "conservative"}
  MaxAuthFailures,  \* failed refreshes before an account is removed
  MaxShortRetries,  \* retries of a short rate limit
  MaxEmptyRetries,  \* retries of an empty response
  MaxPoolWaits,     \* waits for a pool that is limited as a whole
  MaxFallbacks,     \* length of the model fallback chain
  MaxFailovers,     \* stream failovers of a request
  MaxOutbound,      \* cap of the outbound attempt budget
  BurstThreshold,   \* accounts with server errors that pause the pool
  Blockable,        \* positions that a policy may block for a request
  Absent

HostAccounts == {HostPool[i] : i \in DOMAIN HostPool}
Positions == 1..Len(HostPool)

ASSUME FetchAssumption ==
  /\ HostPool \in Seq(HostAccounts) /\ IsInjective(HostPool) /\ HostWorkspaces \in [HostAccounts -> Nat]
  /\ FailoverModes \subseteq {"aggressive", "balanced", "conservative"}
  /\ {MaxAuthFailures, MaxOutbound, BurstThreshold} \subseteq Nat \ {0}
  /\ {MaxShortRetries, MaxEmptyRetries, MaxPoolWaits, MaxFallbacks, MaxFailovers} \subseteq Nat

VARIABLES
  hostPool,   \* accountManager.accounts: the accounts in their order
  hostRow,    \* what the manager knows of each account
  sticky,     \* the affinity entry of each session
  stickyVersion, \* sessionAffinityWriteVersion
  poolPause,  \* pool exhaustion cooldown
  burst,      \* positions with server errors; a pause when there are enough
  removedTwice, \* history: an account that had left the pool was removed again
  refundable, \* consumption records of each account's token bucket
  failoverMode, \* configured failover mode
  fetches     \* the requests

pauses == <<poolPause, burst>>
fetchVars == <<hostPool, hostRow, sticky, stickyVersion, pauses, removedTwice, refundable, failoverMode, fetches>>

NewFetch == [pc |-> "new", key |-> Absent, ver |-> 0, pref |-> 0, asked |-> FALSE, blocked |-> {}, banned |-> {}, count |-> 0,
             tried |-> {}, at |-> Absent, budget |-> 0, sends |-> 0, same |-> 0, resent |-> 0,
             short |-> 0, waits |-> 0, empties |-> 0, fallbacks |-> 0, failovers |-> 0, source |-> 0,
             voices |-> {}, order |-> <<>>, candidates |-> <<>>, net |-> 0]

FetchTypeOK ==
  /\ \A i \in DOMAIN hostPool : hostPool[i] \in HostAccounts /\ hostRow[hostPool[i]].index = i
  /\ \A a \in HostAccounts :
       /\ hostRow[a].index \in Positions /\ hostRow[a].ok \in BOOLEAN /\ hostRow[a].on \in BOOLEAN
       /\ hostRow[a].spaces \subseteq 1..HostWorkspaces[a] /\ hostRow[a].fails \in Nat
  /\ \A k \in Sessions : 
       sticky[k] # Absent => sticky[k].at \in Positions /\ sticky[k].ver \in 1..stickyVersion
  /\ poolPause \in BOOLEAN /\ removedTwice \in BOOLEAN /\ burst \subseteq Positions /\ refundable \in [HostAccounts -> Nat]
  /\ \A f \in Fetches :
       /\ fetches[f].pc \in {"new", "pick", "drained", "refresh", "send", "flight", "stream", "failover", "retried", "over"}
       /\ fetches[f].tried \subseteq Positions /\ fetches[f].budget \in 0..MaxOutbound

FetchInit ==
  /\ hostPool = HostPool /\ failoverMode \in FailoverModes
  /\ hostRow = [a \in HostAccounts |->
       [index |-> CHOOSE i \in Positions : HostPool[i] = a, ok |-> TRUE, on |-> TRUE, fails |-> 0,
        spaces |-> 1..HostWorkspaces[a], space |-> 1]]
  /\ sticky = [k \in Sessions |-> Absent] /\ stickyVersion = 0 /\ poolPause = FALSE /\ burst = {}
  /\ removedTwice = FALSE /\ refundable = [a \in HostAccounts |-> 0] /\ fetches = [f \in Fetches |-> NewFetch]

-----------------------------------------------------------------------------
(* The failure policy, the attempt budget and the affinity store. *)

SameRetries == [aggressive |-> 0, balanced |-> 1, conservative |-> 2][failoverMode]
AtMost(n, m) == IF n < m THEN n ELSE m
OneAtLeast(n) == IF n = 0 THEN 1 ELSE n

\* computeOutboundRequestAttemptBudget
AttemptBudget(count) == AtMost(OneAtLeast(count) + SameRetries + MaxEmptyRetries + MaxFailovers, MaxOutbound)

\* rememberWithVersion: the entry of a newer request stays.
Remember(r, a) ==
  LET e == sticky[r.key] IN
  IF e # Absent /\ e.ver > r.ver THEN UNCHANGED sticky
  ELSE sticky' = [sticky EXCEPT ![r.key] = [at |-> hostRow[a].index, ver |-> r.ver, server |-> a]]
Forget(r) == sticky' = [sticky EXCEPT ![r.key] = Absent]

\* Mutant of Reindexed: entries are not moved when an account leaves the pool.
ReindexedNever(e, i) == e

\* forgetAccount and reindexAfterRemoval, for one entry.
Reindexed(e, i) ==
  IF e = Absent \/ e.at = i THEN Absent ELSE IF e.at > i THEN [e EXCEPT !.at = @ - 1] ELSE e

\* Mutant of RemoveAccount: the accounts behind the removed one keep their index.
RemoveAccountNoReindex(a) ==
  /\ hostRow' = [hostRow EXCEPT ![a].fails = @ + 1]
  /\ hostPool' = SelectSeq(hostPool, LAMBDA b : b # a)

\* removeAccount: later accounts move up, the account object keeps its last position.
RemoveAccount(a) ==
  IF \E i \in DOMAIN hostPool : hostPool[i] = a
  THEN /\ hostPool' = RemoveAt(hostPool, hostRow[a].index)
       /\ hostRow' = [b \in HostAccounts |->
            IF \E i \in DOMAIN hostPool' : hostPool'[i] = b
            THEN [hostRow[b] EXCEPT !.index = CHOOSE i \in DOMAIN hostPool' : hostPool'[i] = b]
            ELSE IF b = a THEN [hostRow[b] EXCEPT !.fails = @ + 1] ELSE hostRow[b]]
  ELSE hostRow' = [hostRow EXCEPT ![a].fails = @ + 1] /\ UNCHANGED hostPool

\* isAccountAvailableForFamily
Available(i) ==
  /\ i \in DOMAIN hostPool /\ hostRow[hostPool[i]].ok /\ hostRow[hostPool[i]].on
  /\ HostWorkspaces[hostPool[i]] = 0 \/ hostRow[hostPool[i]].spaces # {}

FetchBecomes(f, r) == fetches' = [fetches EXCEPT ![f] = r]
Over(f) == FetchBecomes(f, [fetches[f] EXCEPT !.pc = "over"])
Rotate(f, r) == FetchBecomes(f, [r EXCEPT !.pc = "pick"])
Traversal(r) == [r EXCEPT !.pc = "pick", !.tried = {}, !.count = Len(hostPool), !.asked = FALSE]
Unusable(a) == [hostRow EXCEPT ![a].ok = FALSE]

\* refundToken takes back the newest record of the bucket, whoever made it.
FetchRefunded(r) == IF refundable[r.at] > 0 THEN [r EXCEPT !.net = @ - 1] ELSE r
FetchRefund(r) == refundable' = [refundable EXCEPT ![r.at] = IF @ > 0 THEN @ - 1 ELSE 0]

-----------------------------------------------------------------------------
(* Before the first attempt. *)

\* Context budget pause, runtime policy, pool exhaustion, server burst.
FetchRefused(f) ==
  /\ fetches[f].pc = "new" /\ Over(f)
  /\ UNCHANGED <<hostPool, hostRow, sticky, stickyVersion, pauses, refundable, failoverMode, removedTwice>>

\* The policy decision names the accounts it blocks by position.
FetchStarts(f, key, blocked) ==
  /\ fetches[f].pc = "new" /\ ~poolPause /\ Cardinality(burst) < BurstThreshold
  /\ stickyVersion' = stickyVersion + 1
  /\ FetchBecomes(f, [Traversal(fetches[f]) EXCEPT
       !.ver = stickyVersion + 1, !.key = key,
       !.pref = IF sticky[key] = Absent THEN 0 ELSE sticky[key].at,
       !.blocked = blocked, !.banned = {hostPool[i] : i \in blocked}, !.budget = AttemptBudget(Len(hostPool))])
  /\ UNCHANGED <<hostPool, hostRow, sticky, pauses, refundable, failoverMode, removedTwice>>

-----------------------------------------------------------------------------
(* accountAttemptLoop: pick, refresh, admit. *)

\* Mutant of Selectable: the preferred account of the session is taken although the policy blocks it.
SelectableSticky(r) ==
  IF ~r.asked /\ Available(r.pref) THEN {r.pref} ELSE {i \in DOMAIN hostPool : Available(i) /\ i \notin r.blocked}

\* The session's account first, then whichever available account scores best.
Selectable(r) ==
  IF ~r.asked /\ Available(r.pref) /\ r.pref \notin r.blocked THEN {r.pref}
  ELSE {i \in DOMAIN hostPool : Available(i) /\ i \notin r.blocked}

\* The traversal ends when as many positions were tried as there were accounts,
\* when nothing is available, or when the selector returns a position again.
FetchPicks(f) ==
  LET r == fetches[f]
      open == Cardinality(r.tried) < OneAtLeast(r.count)
      missed == open /\ ~r.asked /\ r.pref # 0 /\ ~(Available(r.pref) /\ r.pref \notin r.blocked)
  IN
  /\ r.pc = "pick"
  /\ IF missed THEN Forget(r) ELSE UNCHANGED sticky
  /\ \/ (~open \/ Selectable(r) \subseteq r.tried) /\ FetchBecomes(f, [r EXCEPT !.pc = "drained"])
     \/ /\ open
        /\ \E i \in Selectable(r) :
             IF i \in r.tried THEN FetchBecomes(f, [r EXCEPT !.pc = "drained"])
             ELSE FetchBecomes(f, [r EXCEPT !.pc = "refresh", !.at = hostPool[i], !.tried = @ \cup {i}, !.asked = TRUE])
  /\ UNCHANGED <<hostPool, hostRow, stickyVersion, pauses, refundable, failoverMode, removedTwice>>

\* Mutant of PoolWaits: waiting for the pool is not counted.
PoolWaitsUncounted(r) == MaxPoolWaits > 0

\* retryAllAccountsRateLimited
PoolWaits(r) == r.waits < MaxPoolWaits

\* Every account tried or none left: wait for the pool once more, or give up
\* and pause the pool when it is limited as a whole.
FetchDrained(f) ==
  LET r == fetches[f]
      limited == /\ \E i \in DOMAIN hostPool : hostRow[hostPool[i]].on
                 /\ \A i \in DOMAIN hostPool : hostRow[hostPool[i]].on => ~hostRow[hostPool[i]].ok
  IN
  /\ r.pc = "drained"
  /\ \/ limited /\ PoolWaits(r) /\ FetchBecomes(f, [Traversal(r) EXCEPT !.waits = AtMost(@ + 1, MaxPoolWaits)]) /\ UNCHANGED pauses
     \/ Over(f) /\ poolPause' = (poolPause \/ limited) /\ UNCHANGED burst
  /\ UNCHANGED <<hostPool, hostRow, sticky, stickyVersion, refundable, failoverMode, removedTwice>>

\* A refresh that may be retried cools the account down; a fatal one counts
\* against it, and the last one removes it from the pool.
FetchRefreshFails(f, retryable) ==
  LET r == fetches[f]
      a == r.at
  IN
  /\ r.pc = "refresh" /\ Rotate(f, r)
  /\ IF retryable \/ hostRow[a].fails + 1 < MaxAuthFailures
     THEN /\ hostRow' = [Unusable(a) EXCEPT ![a].fails = IF retryable THEN @ ELSE @ + 1]
          /\ Forget(r) /\ UNCHANGED <<hostPool, removedTwice>>
     ELSE /\ RemoveAccount(a)
          /\ removedTwice' = (removedTwice \/ \A i \in DOMAIN hostPool : hostPool[i] # a)
          /\ sticky' = [k \in Sessions |-> IF k = r.key THEN Absent ELSE Reindexed(sticky[k], hostRow[a].index)]
  /\ UNCHANGED <<stickyVersion, pauses, refundable, failoverMode>>

\* No account id, a preemptive quota deferral: unusable for a while.  A cached
\* entitlement block, an empty bucket, an open circuit: only skipped.
FetchSkips(f, cools) ==
  LET r == fetches[f] IN
  /\ r.pc = "refresh" /\ Rotate(f, r)
  /\ hostRow' = IF cools THEN Unusable(r.at) ELSE hostRow
  /\ UNCHANGED <<hostPool, sticky, stickyVersion, pauses, refundable, failoverMode, removedTwice>>

FetchAdmits(f) ==
  LET r == fetches[f] IN
  /\ r.pc = "refresh"
  /\ FetchBecomes(f, [r EXCEPT !.pc = "send", !.same = 0, !.short = 0, !.net = @ + 1])
  /\ refundable' = [refundable EXCEPT ![r.at] = @ + 1]
  /\ UNCHANGED <<hostPool, hostRow, sticky, stickyVersion, pauses, failoverMode, removedTwice>>

\* Mutant of Spend: only the first send counts, a rotation or a failover sends for free.
SpendOnce(r) == [r EXCEPT !.budget = IF r.sends > 0 THEN @ ELSE @ - 1, !.sends = @ + 1]

\* tryConsumeOutboundRequestAttempt
Spend(r) == [r EXCEPT !.budget = @ - 1, !.sends = @ + 1]

FetchSends(f) ==
  LET r == fetches[f] IN
  /\ r.pc = "send"
  /\ IF r.budget = 0 THEN Over(f) ELSE FetchBecomes(f, [Spend(r) EXCEPT !.pc = "flight"])
  /\ UNCHANGED <<hostPool, hostRow, sticky, stickyVersion, pauses, refundable, failoverMode, removedTwice>>

-----------------------------------------------------------------------------
(* Answers of the upstream. *)

InFlight(f) == fetches[f].pc = "flight"
RetrySame(f, r) == FetchBecomes(f, [r EXCEPT !.pc = "send", !.same = @ + 1, !.resent = 1])

\* A network error or a time-out: refund, then the same account again or another.
FetchNetworkError(f) ==
  LET r == FetchRefunded(fetches[f]) IN
  /\ InFlight(f) /\ FetchRefund(r)
  /\ IF r.same < SameRetries THEN RetrySame(f, r) /\ UNCHANGED <<hostRow, sticky>>
     ELSE Rotate(f, r) /\ hostRow' = Unusable(r.at) /\ Forget(r)
  /\ UNCHANGED <<hostPool, stickyVersion, pauses, failoverMode, removedTwice>>

\* Mutant of FetchAborted: the token is given back by the abort handler and again by the error path.
FetchAbortedTwice(f) ==
  LET r == FetchRefunded(fetches[f]) IN
  /\ InFlight(f) /\ Forget(r)
  /\ FetchBecomes(f, [r EXCEPT !.pc = "over", !.net = @ - IF refundable[r.at] > 1 THEN 1 ELSE 0])
  /\ refundable' = [refundable EXCEPT ![r.at] = IF @ > 2 THEN @ - 2 ELSE 0]
  /\ UNCHANGED <<hostPool, hostRow, stickyVersion, pauses, failoverMode, removedTwice>>

FetchAborted(f) ==
  LET r == FetchRefunded(fetches[f]) IN
  /\ InFlight(f) /\ FetchRefund(r) /\ FetchBecomes(f, [r EXCEPT !.pc = "over"]) /\ Forget(r)
  /\ UNCHANGED <<hostPool, hostRow, stickyVersion, pauses, failoverMode, removedTwice>>

\* A 5xx counts towards the burst pause; only the conservative mode tries the
\* same account again, and only without a retry-after hint.
FetchServerError(f, hint) ==
  LET r == FetchRefunded(fetches[f]) IN
  /\ InFlight(f) /\ FetchRefund(r)
  /\ burst' = IF Cardinality(burst) < BurstThreshold THEN burst \cup {hostRow[r.at].index} ELSE burst
  /\ IF failoverMode = "conservative" /\ ~hint /\ r.same < SameRetries
     THEN RetrySame(f, r) /\ UNCHANGED <<hostRow, sticky>>
     ELSE Rotate(f, r) /\ hostRow' = Unusable(r.at) /\ Forget(r)
  /\ UNCHANGED <<hostPool, stickyVersion, poolPause, failoverMode, removedTwice>>

\* A 429: the account is marked before the request sleeps or rotates.
FetchLimited(f, brief) ==
  LET r == fetches[f] IN
  /\ InFlight(f) /\ hostRow' = Unusable(r.at)
  /\ IF brief /\ r.short < MaxShortRetries
     THEN FetchBecomes(f, [r EXCEPT !.pc = "send", !.short = @ + 1]) /\ UNCHANGED sticky
     ELSE Rotate(f, r) /\ Forget(r)
  /\ UNCHANGED <<hostPool, stickyVersion, pauses, refundable, failoverMode, removedTwice>>

\* Mutant of FallsBack: the models already tried are forgotten.

FallsBack(r) == r.fallbacks < MaxFallbacks

\* The account lacks the model: try the remaining accounts (not for a forced
\* fallback), then the next model, then give the error back.
FetchUnsupported(f, forced) ==
  LET r == fetches[f]
      s == FetchRefunded(r)
      remaining == Cardinality(r.tried) < OneAtLeast(r.count)
  IN
  /\ InFlight(f)
  /\ IF remaining /\ ~forced THEN FetchRefund(r) /\ Rotate(f, s) /\ Forget(r)
     ELSE IF FallsBack(r)
     THEN FetchRefund(r) /\ FetchBecomes(f, [Traversal(s) EXCEPT !.fallbacks = AtMost(@ + 1, MaxFallbacks)]) /\ UNCHANGED sticky
     ELSE Over(f) /\ UNCHANGED <<refundable, sticky>>
  /\ UNCHANGED <<hostPool, hostRow, stickyVersion, pauses, failoverMode, removedTwice>>

\* Workspaces of an account in the order rotateToNextWorkspace visits them.
Successors(a) ==
  LET n == HostWorkspaces[a] IN
  SelectSeq([k \in 1..(n - 1) |-> ((hostRow[a].space - 1 + k) % n) + 1], LAMBDA w : w \in hostRow[a].spaces)

\* setAccountEnabled(index, false)
Disabled(rows, i) == IF i \in DOMAIN hostPool THEN [rows EXCEPT ![hostPool[i]].on = FALSE] ELSE rows

\* The workspace is disabled upstream: the account's current workspace is
\* disabled and the account may be tried again with the next one.
FetchWorkspaceGone(f) ==
  LET r == fetches[f]
      a == r.at
      off == [hostRow EXCEPT ![a].spaces = @ \ {hostRow[a].space}]
      next == Successors(a)
  IN
  /\ InFlight(f)
  /\ IF HostWorkspaces[a] = 0
     THEN /\ IF Cardinality(r.tried) < OneAtLeast(r.count) THEN Rotate(f, r) ELSE Over(f)
          /\ UNCHANGED <<hostRow, sticky>>
     ELSE IF next # <<>>
     THEN /\ hostRow' = [off EXCEPT ![a].space = Head(next)]
          /\ Rotate(f, [r EXCEPT !.tried = @ \ {hostRow[a].index}]) /\ UNCHANGED sticky
     ELSE /\ hostRow' = Disabled(off, hostRow[a].index) /\ Rotate(f, r) /\ Forget(r)
  /\ UNCHANGED <<hostPool, stickyVersion, pauses, refundable, failoverMode, removedTwice>>

\* Any other error, a context overflow among them, is given back.
FetchRejected(f) ==
  /\ InFlight(f) /\ Over(f)
  /\ UNCHANGED <<hostPool, hostRow, sticky, stickyVersion, pauses, refundable, failoverMode, removedTwice>>

\* An empty answer of a request that does not stream.
FetchEmpty(f) ==
  LET r == [FetchRefunded(fetches[f]) EXCEPT !.empties = @ + 1] IN
  /\ InFlight(f) /\ fetches[f].empties < MaxEmptyRetries /\ FetchRefund(r)
  /\ IF r.same < SameRetries THEN RetrySame(f, r) /\ UNCHANGED sticky
     ELSE Rotate(f, r) /\ Forget(r)
  /\ UNCHANGED <<hostPool, hostRow, stickyVersion, pauses, failoverMode, removedTwice>>

\* buildAdaptiveStreamFailoverCandidateOrder: the same position, then one other.
Candidates(r) ==
  LET i == hostRow[r.at].index
      others == {j \in DOMAIN hostPool : j # i /\ Available(j) /\ j \notin r.blocked}
  IN {<<i>>} \cup {<<i, j>> : j \in others}

\* Success: the account is remembered and the pauses end.  The body of a
\* stream is read after fetch has returned.
FetchSucceeds(f, streams) ==
  LET r == fetches[f] IN
  /\ InFlight(f) /\ Remember(r, r.at) /\ poolPause' = FALSE /\ burst' = {}
  /\ hostRow' = [hostRow EXCEPT ![r.at].fails = IF hostRow[r.at].ok THEN 0 ELSE @]
  /\ IF streams THEN \E c \in Candidates(r) : FetchBecomes(f, [r EXCEPT !.pc = "stream", !.source = @ + 1, !.order = c])
     ELSE Over(f)
  /\ UNCHANGED <<hostPool, stickyVersion, refundable, failoverMode, removedTwice>>

-----------------------------------------------------------------------------
(* withStreamingFailover and its callback. *)

StreamChunk(f) ==
  LET r == fetches[f] IN
  /\ r.pc = "stream" /\ r.source \notin r.voices
  /\ FetchBecomes(f, [r EXCEPT !.voices = @ \cup {r.source}])
  /\ UNCHANGED <<hostPool, hostRow, sticky, stickyVersion, pauses, refundable, failoverMode, removedTwice>>

StreamEnds(f) ==
  /\ fetches[f].pc = "stream" /\ Over(f)
  /\ UNCHANGED <<hostPool, hostRow, sticky, stickyVersion, pauses, refundable, failoverMode, removedTwice>>

\* Mutant of MayFailOver: a stalled stream is replayed although bytes were passed on.
MayFailOverAlways(r) == r.failovers < MaxFailovers

\* tryFailover: not after output, because a replay would repeat it.
MayFailOver(r) == r.failovers < MaxFailovers /\ r.voices = {}

\* A stall or an error of the stream.  Each failover starts with the first candidate.
StreamBreaks(f) ==
  LET r == fetches[f] IN
  /\ r.pc = "stream"
  /\ IF MayFailOver(r) THEN FetchBecomes(f, [r EXCEPT !.pc = "failover", !.failovers = @ + 1, !.candidates = r.order]) ELSE Over(f)
  /\ UNCHANGED <<hostPool, hostRow, sticky, stickyVersion, pauses, refundable, failoverMode, removedTwice>>

FetchSkipped(r) == [r EXCEPT !.pc = "failover", !.candidates = Tail(@)]

\* The next candidate: blocked, unavailable, without a fresh token, an identity
\* or a model it may use, or its bucket is empty after the attempt was counted.
FailoverSkips(f) ==
  LET r == fetches[f] IN
  /\ r.pc = "failover"
  /\ \/ r.candidates = <<>> /\ Over(f)
     \/ r.candidates # <<>> /\ FetchBecomes(f, FetchSkipped(r))
     \/ r.candidates # <<>> /\ Available(Head(r.candidates)) /\ r.budget > 0
        /\ FetchBecomes(f, FetchSkipped([r EXCEPT !.budget = @ - 1]))
     \/ r.candidates # <<>> /\ r.budget = 0 /\ Over(f)
  /\ UNCHANGED <<hostPool, hostRow, sticky, stickyVersion, pauses, refundable, failoverMode, removedTwice>>

FailoverSends(f) ==
  LET r == fetches[f]
      i == Head(r.candidates)
  IN
  /\ r.pc = "failover" /\ r.candidates # <<>> /\ i \notin r.blocked /\ Available(i) /\ r.budget > 0
  /\ FetchBecomes(f, [Spend(r) EXCEPT !.pc = "retried", !.at = hostPool[i], !.net = @ + 1])
  /\ refundable' = [refundable EXCEPT ![hostPool[i]] = @ + 1]
  /\ UNCHANGED <<hostPool, hostRow, sticky, stickyVersion, pauses, failoverMode, removedTwice>>

FailoverFails(f, how) ==
  LET r == fetches[f] IN
  /\ r.pc = "retried"
  /\ IF how = "error" THEN FetchRefund(r) /\ FetchBecomes(f, FetchSkipped(FetchRefunded(r))) ELSE UNCHANGED refundable /\ FetchBecomes(f, FetchSkipped(r))
  /\ hostRow' = IF how = "limited" THEN Unusable(r.at) ELSE hostRow
  /\ UNCHANGED <<hostPool, sticky, stickyVersion, pauses, failoverMode, removedTwice>>

FailoverSucceeds(f) ==
  LET r == fetches[f] IN
  /\ r.pc = "retried" /\ FetchBecomes(f, [r EXCEPT !.pc = "stream", !.source = @ + 1])
  /\ Remember(r, r.at)
  /\ UNCHANGED <<hostPool, hostRow, stickyVersion, pauses, refundable, failoverMode, removedTwice>>

-----------------------------------------------------------------------------
\* Cooldowns, limits and pauses run out; affinity entries expire.
TimeHeals ==
  /\ \/ \E a \in HostAccounts : ~hostRow[a].ok /\ hostRow' = [hostRow EXCEPT ![a].ok = TRUE] /\ UNCHANGED <<sticky, pauses>>
     \/ \E k \in Sessions : sticky[k] # Absent /\ sticky' = [sticky EXCEPT ![k] = Absent] /\ UNCHANGED <<hostRow, pauses>>
     \/ (poolPause \/ burst # {}) /\ poolPause' = FALSE /\ burst' = {} /\ UNCHANGED <<hostRow, sticky>>
  /\ \E f \in Fetches : fetches[f].pc # "over"
  /\ UNCHANGED <<hostPool, stickyVersion, refundable, failoverMode, removedTwice, fetches>>

FetchStep(f) ==
  \/ FetchRefused(f) \/ FetchPicks(f) \/ FetchDrained(f) \/ FetchAdmits(f) \/ FetchSends(f)
  \/ \E key \in Sessions, blocked \in SUBSET (Blockable \cap DOMAIN hostPool) : FetchStarts(f, key, blocked)
  \/ FetchNetworkError(f) \/ FetchAborted(f) \/ FetchWorkspaceGone(f) \/ FetchRejected(f) \/ FetchEmpty(f)
  \/ \E b \in BOOLEAN : \/ FetchRefreshFails(f, b) \/ FetchSkips(f, b) \/ FetchServerError(f, b)
                        \/ FetchLimited(f, b) \/ FetchUnsupported(f, b) \/ FetchSucceeds(f, b)
  \/ StreamChunk(f) \/ StreamEnds(f) \/ StreamBreaks(f) \/ FailoverSkips(f) \/ FailoverSends(f) \/ FailoverSucceeds(f)
  \/ \E how \in {"limited", "failed", "error"} : FailoverFails(f, how)

FetchNext == TimeHeals \/ \E f \in Fetches : FetchStep(f)
FetchSpec == FetchInit /\ [][FetchNext]_fetchVars /\ \A f \in Fetches : WF_fetchVars(FetchStep(f))

-----------------------------------------------------------------------------
(* Properties. *)

\* The bytes a client has read come from one upstream response: a failover
\* never replays the request after output was passed on.
OneVoice == \A f \in Fetches : Cardinality(fetches[f].voices) <= 1

\* Rotation, same-account retries, empty answers, fallback models and stream
\* failover together send no more than the budget computed at the start.
WithinBudget == \A f \in Fetches : fetches[f].sends <= AtMost(Len(HostPool) + SameRetries + MaxEmptyRetries + MaxFailovers, MaxOutbound)

\* A request goes to an account the policy blocked for it only after a removal
\* has moved the positions the decision was about.
BlockedOnlyAfterRemoval ==
  \A f \in Fetches : fetches[f].pc \in {"flight", "retried"} /\ hostPool = HostPool => fetches[f].at \notin fetches[f].banned

\* A session's entry leads to the account that served it last for as long as
\* that account is in the pool: removals move the positions of the entries with
\* the accounts, unless two requests remove the same account.
EntryLeadsToServer ==
  \A k \in Sessions : sticky[k] # Absent /\ ~removedTwice =>
    \A i \in DOMAIN hostPool : hostPool[i] = sticky[k].server => sticky[k].at = i

\* Only a retry on the same account gives back a token the request no longer holds.
RefundsCovered == \A f \in Fetches : fetches[f].net < 0 => fetches[f].resent > 0

\* One request speaks to the client with one voice, within its budget, and leaves
\* entries, bans and refunds as they should be.
FetchSafe == FetchTypeOK /\ OneVoice /\ WithinBudget /\ BlockedOnlyAfterRemoval /\ EntryLeadsToServer /\ RefundsCovered

\* Every request is answered: all the loops of fetch are bounded together.
EveryFetchEnds == \A f \in Fetches : fetches[f].pc = "new" ~> fetches[f].pc = "over"
=============================================================================
