# codex-multi-auth: TLA+ models and proofs

codex-multi-auth keeps a pool of OAuth accounts for the Codex CLI and rotates
between them.  Several independent Node processes (the wrapper around the
official CLI, the plugin host, the rotation proxy, the desktop app's helper,
manager commands) share one directory of JSON files and one set of single-use
refresh tokens.  There is no server: coordination goes through the file system,
any process may die between two file system calls, and inside a process
everything between two `await`s interleaves.  That is what this project models.

## 1. Inventory

Paths are relative to the repository root.  `PROJECT.json` lists every part with
its sources, and the places where it is hard to test ("hazards").

| Part | State | Talks to | Hard | Correct when |
|---|---|---|---|---|
| File transaction lock `lib/storage/file-lock.ts` | lock directory, candidate directories, abandoned owners | all writers of shared JSON | recovery of dead owners racing live ones, pid reuse, other hosts, failing clean-up | one holder; live holders never evicted; waits bounded |
| Refresh lease and queue `lib/refresh-lease.ts`, `lib/refresh-queue.ts` | lock and result files, pending generations, rotation map | token endpoint | owner dies with the token at the endpoint, evicted generations revive, time-outs | a token of unknown fate is not presented again; every call resolves |
| Account storage `lib/storage.ts`, `lib/storage/*` | accounts file, journal, backups, reset marker, merge baselines | file lock, snapshot merge | crash at every step, stale copies, recovery without the lock | a load finds an acknowledged pool; nobody's edit is lost |
| Credentials in a running proxy `lib/runtime/rotation-token-refresh.ts`, `rotation-proxy-state.ts` | managers, redirects, pending journal | refresh queue, storage | commit of a refresh against a replaced manager or an edited row | no spent token comes back |
| Proxy's request loop `lib/runtime-rotation-proxy.ts` | attempts, tokens, probes, pins | all of the above | await between selection and use | one payment per attempt, no replay, always an answer |
| Plugin's fetch `index.ts` | positions, budget, affinity | account manager | a removal moves positions under a request | bounded attempts, one voice |
| Selection and limits `lib/accounts.ts`, `lib/circuit-breaker.ts`, `lib/request/rate-limit-backoff.ts`, `lib/preemptive-quota-scheduler.ts` | gates, marks, windows, deadlines | proxy, fetch | late answers, concurrent 429s, manual switches | waits suffice, limits hold, nobody starves |
| Copies of files in memory `lib/live-account-sync.ts`, `lib/accounts.ts`, `lib/codex-cli/state.ts`, `lib/runtime/rotation-storage-meta.ts` | caches, timers, generations | storage | joined and overtaken loads, coarse clocks | copies catch up; changes reach the disk |
| Commands `lib/codex-manager/*` | snapshots, pins, generation | storage, refresh queue | screens and snapshots that are stale when acted upon | the account that was meant is hit; none is lost |
| Official CLI's files `lib/codex-manager/active-account-sync.ts`, `lib/codex-cli/writer.ts` | mirror and its record | official CLI | writers without our lock | the CLI ends on the selected account |
| Sign-in `lib/auth/server.ts`, `login-oauth.ts`, `device-auth.ts` | callback server, codes | browser | two logins on one port | own codes only; port released |
| Desktop app and wrapper `lib/runtime/app-bind.ts`, `scripts/codex.js` | configuration backup, router, shadow homes, helpers, children | official CLI, launchd | kills, recycled pids, edits by the user | user's files come back; nothing live is swept |
| Relays `lib/runtime/responses-websocket.ts`, `realtime-calls.ts` | queues, sockets, calls | proxy | closes, cancels and interrupts racing | in order, once, bounded |
| Settings, budgets, bridge, recovery | files under locks, ledgers, tokens, parts | plugin, proxy | stale limits, torn rows, revoked tokens | see the properties |
| Settings menu `lib/codex-manager/settings-hub/*` | screens, drafts, two settings files | settings store | a panel saved from an old draft, a theme previewed and cancelled | a panel writes its own keys; what was cancelled is not in force |
| Quota cache and automatic checks `lib/quota-cache.ts`, `lib/runtime/automatic-usage-refresh.ts` | entries, claims, timers, consent | storage, usage endpoint | two routers due at once, opt-out under way, stale merges | checks spaced; consent heard; no newer observation dropped |
| Plugin's tools and menus `index.ts` | copies of the pool, pins | storage, refresh queue | a menu acts on the copy it showed | only the rows asked for leave; the selection survives |
| API keys `lib/runtime/api-*.ts`, `lib/runtime/decisions-runtime.ts`, `lib/api-route-store.ts` | credentials and their epochs, backoff entries, evidence, slots | proxy, API endpoint | a key shared by credentials, a wipe under a running check | no key used early or twice; no evidence outlives its credential |
| Reset credits `lib/reset-credits.ts`, `lib/runtime/*reset*` | attempts, receipts, lifted limits | usage endpoint, proxy | an answer lost after the credit was spent, users and proxies at once | no spent credit forgotten; receipts in order; only as last resort |

Parts that only format, parse or draw (request transformation, screens, reports,
configuration getters) are listed in `PROJECT.json` as not modelled.

## 2. Modules

Every module names its source in its header.  A variable is a field or a file,
an action is what runs between two awaits (or between two file system calls of
different processes), and its guard is the code's condition.  Operators called
"Mutant of ..." are deliberately broken variants; no specification uses them.
Substituting one for the definition it names makes TLC report the property
listed beside it in `PROJECT.json`: this is how each property is known to be
about the code.  The lines that `PROJECT.json` maps to a definition include the detail
it abstracts from (formats, messages, the plumbing of a handler).

**FileLock.**  A call is one invocation of `withFileTransactionLock`.  `exists`
and `entries` are the directories and owner files; both are named by the call,
because `mkdtemp` and `randomUUID` make the names unique.  `pc` walks through the
source: `Begin`, `ScanCandidate`, `MakeCandidate`, `WriteOwner`, `Publish` or
`Contend` per rename, `RecoverRead/Check/Unlink/Rmdir`, `EndAction`,
`ReleaseUnlink/Rmdir`; `ReleaseFault` stands for six failed attempts of the
clean-up, `Timer*` for the retries after it.  `Reenter` is a call from inside the
holder's action.  `Crash` keeps the disk and loses the memory, `ReusePid` makes a
dead pid look alive, `LooksDead` lets a pid of another host answer anything.  On
Windows a rename onto an empty directory fails, on POSIX it succeeds: both are
allowed.  **TransactionMutex** is what the lock promises; `pc` maps to its
holders, guests and calls that are over.

**RefreshQueue** (queue and lease).  A flight is one generation, a `refresh()` that
found nothing to join.  The lock file is the flight whose nonce it contains, a
result file its age and the token it hands out; `issued` are the tokens that some
process has been handed.  `Stall` marks an acquire that outlasted the eviction
age; `Send` hands the token to the endpoint (external), which accepts a token
once and whose answer may be lost; `Unanswered` is the local time-out.

**AccountStorage.**  A session is a process with the object `loadAccounts` gave it
and its merge baseline.  An inventory is the set of record ids in a file.  Loading
takes no lock, so its reads, marker checks and recovery interleave with
everything; saving and clearing run under the lock, here a mutex freed when its
holder dies.  `truths` holds the pools that are right: after an acknowledged
operation the pools it may have produced, and for each operation that died after
its first effective write the pools it would have produced.

**AccountIdentity.**  A row is its workspace id, e-mail, refresh token and age.  The
scan of `findMatchingAccountIndex` is a set of operators; the deduplication of a load
is the state machine, which keeps the indexes by composite key, e-mail, token and id
while it appends and replaces rows, and starts a pass over until nothing merges.
**PoolTransfer** moves rows between files: an import, a migration of legacy project
files, exports of one process, and a synchronisation with the sibling plugin, while
another process edits the pool and the task may die between two steps.

**CredentialSwap.**  One row's credentials, numbered in the order of expiry, while
requests refresh it, the proxy replaces its manager and other processes edit the
file.  `Quiet` restricts the instance to replacements outside the window that the
run `swap_write_window` is about (and to syncs that are done before the next
replacement, `SyncsDone`).

**RequestLoop** and **PluginFetch** are the two places that serve a request: the
proxy's attempt loop, with accounts named by identity, and the plugin's fetch,
with accounts named by position, as in the code.  Ranking is any order.

**RateLimits** (gates, marks, quota scheduler, backoff) and **CircuitBreaker**
decide who may be used and how long to wait.  Deadlines are remaining ticks.
`CircuitBreaker`'s `log` and `tripped` are history variables.

**MemoryCopies** (the plugin's manager, debounced saves, the CLI's state) and
**StorageMeta** are the copies in memory;
a content is its version number.

**AccountCommands** (selection and login), **RepairPool, ActiveMirror, SignIn** are the
commands:
sequences of rows with pins and generations; tokens numbered as the server issued
them; mirror entries; codes and listeners.

**WrapperHomes** (shadow homes, helpers and their metadata, the desktop app's binding,
forwarding to the official CLI) is the wrapper and the app; a file is the version of its
content.

**ApiRoutes** serves the calls that name an API pool with stored keys instead of
accounts: discovery of models, admission after a rate limit (one probe per key once
its deadline has passed), the scan over candidates without an await between them, and
one delegated decision.  **ApiEvidence** is one stored credential, whose lifetimes are
told apart by an epoch, the menu that edits it, discovery, the wipe, and checkers that
share the paid evidence about it through a file; its second half is the slots that the
probes of a process share.

**Relays** (websockets and voice calls) relay frames; **SettingsStore, UsageBudget,
ClientTokens, SessionRecovery** are the remaining stores.

**SettingsHub** is the menu over the settings: each panel's draft, its preview and
its save by key, with the backend file next to the dashboard file.  **QuotaCache**
is the file of observed usage and its merge under the lock; **AutoChecks** the
routers' periodic usage checks, a claim in a shared file deciding who makes one.
**PluginTools** are the plugin's tool calls and its account menu, each working on the
copy of the pool it loaded.  **ResetCredits** follows an attempt to spend a reset
credit from its record through the endpoint (external) to its receipt, by users and
by proxies; its second half is what a later rejection, a receipt and a lifted limit
make of each other in the pool.

## 3. Runs

| Run | Instance | Shows |
|---|---|---|
| `filelock` | 3 calls, 2 processes, 2 attempts, 1 failing clean-up | exclusion, holder and candidate never robbed, no manual repair, refinement of `TransactionMutex`, calls end and dead owners are recovered |
| `refresh_lease` | 3 flights, 2 processes, 2 tokens, 1 poll, 1 fault, lease on and off | exclusive use of tokens, results shield them, joins, no forgotten lock |
| `storage_durable` | a bench: 2 sessions, 2 accounts, 2 backups, 4 operations, 1 fault, 1 damage; rows over 2 ids, 2 e-mails, 2 tokens and 2 ages, pools of 3, 2 exports, 1 foreign edit | durability, journal never stale; deduplication agrees with the scan; transfers lose no account |
| `storage_reset` | no fault, no damage | **violated**, section 6 |
| `proxy_shared` | 2 requests on one account, 2 tokens, 1 reset | payments, refunds, probes |
| `proxy_swap` | a bench: 1 request, 2 accounts sharing a workspace, 1 manager swap, pins; 2 API calls, 2 credentials, 2 keys; 2 checkers, 2 lifetimes; 4 probes for 2 slots | pins honoured, nothing replayed, no workspace asked twice; `KeysTrue` and `KeysKept` below |
| `services` | a bench: the credential swap with 1 request, 1 sync, 3 managers, 3 credentials and 1 edit or journal fault; settings menu, quota cache, automatic checks, plugin tools, reset credits | spent tokens stay out, redirects reach the live manager; checks stay spaced; `StoresTrue` and `UpdatesKept` below |
| `swap_write_window` | a reload while a commit is being written | **violated**, section 6 |
| `fetch_pair` | 2 fetches, 2 sessions, 2 accounts, one of which may be barred and one removed; a fetch that is over is told apart (`VIEW`) only by the fields the invariant reads of it | budget, one voice, affinity, refunds |
| `meta_twin` | two writes in one tick of the file's clock | **violated**, section 6 |
| `components` | a bench, see below | the grouped properties below |
| `progress` | a bench with fairness | safety of mirror, sign-in and budgets; `EverythingEnds` |

**The benches.**  `MCComponents`, `MCProgress`, `MCServices`, `MCPools` and `MCRequestLoop` check components that share no
state: a behaviour picks one (`running`), runs it and leaves the others as they
were initially.  Interleaving two of them would only multiply states.  A grouped
property states its parts of the component that runs.  The parts are defined and
explained in the components' modules:

| Group | Parts |
|---|---|
| `BreakerFaithful` | ProbeBound, AvailabilityIsFaithful |
| `LimitsRespected` | ClosedMeansFewFailures, LaterLimitKept, WaitIsEnough, NobodyStarves, DeferralWasAsked, AttemptsArePaced, ExponentialOnce; FramesComplete, PausedIsResumed, QueueBounded, StaysJoinable, ClosedRelaysNothing |
| `LaunchKept` | EditNotLost, LiveHomeKept, ReapedOnlyStranded, IdleMeansIdle, StrandedBounded, LiveMetadataKept, ReleasedAtEnd, UpstreamHonoured, ForcedHonoured, ChildKeepsHome, FirstSignalReported, NoModelTwice, StaircaseExhausted |
| `CopiesCatchUp` | CacheCatchesUp, FlushPersistsAll, ChangeOnItsWay, ForcedIsFresh, SelectionNoticed |
| `RelaysFaithful` | DeltaStaysHome, InterruptAnsweredOnce |
| `RecoveryEarned` | ResumesAreEarned, OneRecoveryPerMessage, OnlyCorruptPutAside |
| `SelectionMeant` | PinIsChosen, HitsWhatItAimedAt, RefreshDrained, SkipNotStale, CliHasActive, CliGetsAuthorised; ExplainIsTrue, OneCopyReadable; UnbindRestoresUser, ModeAgrees |
| `BridgeGuarded` | RevokedStaysOut, IssuedKept, KeyNeedsToken |
| `NothingRevived` | FlaggedNeverOlder, CacheNeverOlder, RevocationFinal, NeverReplayed, CancelledNotSent |
| `LimitsAndWrites` | TripsOnlyOnThreshold, TripHolds, LimitIsHonoured, MovesAnnounced, SaveChangesItsKey |
| `StoresTrue` | PanelsKeepToTheirKeys, OnlyAskedConfig, ThemeIsCurrent, OwnUsageOnly, OnlyAskedRowsLeave, SuccessorsStored, PoolWithinLimit, SpentIsOnRecord, LastResortOnly, NoSpentActive |
| `UpdatesKept` | EvidenceKept, NothingDropped, ConsentHonoured, RemovalKeepsSelection, ReceiptsOrdered, LiftedByNewerReset |
| `KeysTrue` | OncePerKey, DecisionOnce, PoolAndRegionKept, AdmissionsReturned, CatalogHonest; NothingAfterWipe, HiddenStaysHidden, OneBill, LostShowsNothing; SlotsKept |
| `KeysKept` | DeadlineKept; EvidenceCurrent, NoResurrection |
| `PoolsTrue` | IndexAgrees, DedupSettled, SelectionFollows, SyncSettles |
| `PoolsKept` | ImportKeepsAll, LegacyStored, BackupsKept, SyncKeepsTarget |
| `ChecksSpaced` | SpacedRequests, QuietAfterStop, OwnTickEffective |
| `AttemptsSettled` | TypeOK, TokenAccounting, ProbeNotLeaked |
| `PinnedAndOnce` | PinHonoured, NoReplay, WorkspaceOnce |
| `FetchSafe` | FetchTypeOK, OneVoice, WithinBudget, BlockedOnlyAfterRemoval, EntryLeadsToServer, RefundsCovered |
| `FlightsKept`, `ResultsShield` | InProcessDedup, NoForgottenLock; FreshResultShields, RotatedJoins |
| `SignInsApart`, `BudgetKept` | OwnCodeOnly, PortReleased, OneListener; RowsAreCounted, LimitIsCurrent, UsageNotDropped |
| `EverythingEnds` | EveryRequestAnswered, MirrorConverges, EveryFetchEnds, EveryRefreshResolves, SignInWaitsEnd, EveryCallRecorded |

**Bounds.**  Three calls are the fewest in which a recoverer, the owner it believes
dead and a new publisher differ; two attempts let a call meet the lock, recover it
and try again.  Three flights in two processes give an evicted generation, its
successor and a foreign contender; two tokens give one rotation.  Two sessions and
four operations give a load each and a save or clear each, in any order and with
any crash.  Two requests on one account with two tokens compete for the last token
and the one probe; one request over two accounts that share a workspace meets a
rejected workspace twice.  Three managers give a superseded manager that was itself
a successor.  In the benches each component has the fewest actors for its race (as a
rule two commands and one fault), and every bound is a constant of its module.
Symmetry is used only where elements are interchangeable and only in runs without
liveness.  Deadlock checking is off everywhere: operations are finite in number and
the system may come to rest.

**Fairness.**  Weak fairness is asked of what a live process's event loop executes
by itself: the next step of a file lock call (`FairSpec`); of a request or fetch,
whose upstream calls and streams have time-outs; of a flight, which ends through its
own timer; of a sign-in's own steps, whose waits have deadlines; of a budgeted
call's own steps and of a lock file's ageing; and of a pass of the mirror, because
the wrapper makes one before and after every forwarded command.  Nothing is assumed
of crashes, faults, users, browsers, other processes or the endpoint.

## 4. Proofs

Each is proved for all values of the constants, from the named assumption of the
module alone.

| Module | Theorems | Inductive invariant |
|---|---|---|
| `FileLockProofs` | TypeCorrect, Exclusion, NeverEvicted, NeverReaped, NeverNeedsRepair, Refinement | `IInv` |
| `RefreshQueueProofs` | TypeCorrect, Exclusive, Kept, Shields | see below |
| `AccountStorageProofs` | TypeCorrect, DurableAlways, JournalCurrent | see below |
| `ProgressProofs` | SkipIsRight, SignInsStayApart, BudgetsKept | `MirrorInv`, `SignInv`, `UsageInv` |
| `ComponentsProofs` | BreakerIsFaithful, TripIsHeld, BridgeIsGuarded, RevokedForGood, NeverLost, NeverOlder, RelaysStayFaithful, RelayNeverReplays, CancelIsHeard, ResumesEarned, CacheAlwaysCatchesUp, ChangesReachTheDisk, ForcedAlwaysFresh, CacheGoesForward, SelectionAlwaysNoticed | `BreakerInv`, `TokenInv`, `RepairInv`, `RelayInv`, `RecoveryInv`, `ReloadInv`, `SaveInv`, `CliInv`, `MetaInv` |
| `BenchProofs` | CopiesAlwaysCatchUp, NothingEverRevived | those of `ComponentsProofs` |
| `RequestProofs` | AttemptsAlwaysSettled, AlwaysPinnedAndOnce, FetchIsSafe | `LoopInv`, `FetchInv` |
| `ServicesProofs` | ChecksStaySpaced, OptOutIsHeard, NoResetForgotten, SpentAsLastResort, ReceiptsInOrder, LiftsAreNewer, RedirectsLeadToActive | `CheckInv`, `ResetInv`, `ReceiptInv`, `ChainOK` |

*File lock.*  `HolderKeepsLock` implies exclusion but is not inductive: a recovery
that has decided to unlink may find that the lock has changed owner.  `IInv` adds
`FilesWritten` (an owner file, and a name a recovery has read, belongs to a call past
`writeFile`), `RecoversSpent` (a name about to be unlinked belongs to a call whose
action is over for good: here the uniqueness of names, the host test and the order of
the finally block are used), `DeadMeansOver`, `ContenderKept`, `GuestOfHolder` and
`AttemptsLeft`.  `Refinement` maps every step to a step of `TransactionMutex` or a
stutter.

*Refresh queue.*  `ExclusiveRefresh` follows from who may have a lock file.  `IInv`
says what a flight's stage means for its locals (`Locals`), that a lock file names
its creator and that an owner which went on without removing it met a fault
(`Leases`), that a holder past its second look overlooks no result unless that look could
not read it (`Shielded`) and
that `pending` has every flight whose acquire was not evicted (`OnRecord`).  `RInv`,
proved on top of it, follows the tokens: `Filed`, `Requested`, `Heard`, `Minted` and
`Noted` (from its success to its end a rotation is in the process's map, and nobody
in the process asks about either token), which is what `ResultsShield` needs.

*Account storage.*  `Durable` speaks of what a load would find; it is inductive only
with a reason for every file to be right at every stage of a call: `MarkerTrue`,
`PrimaryTrue`, `JournalTrue` and `FallbackTrue`, together with `Exclusive` (one call
under the lock), `Calls` (what a call relies on), `Snapshots` (what is about to be
written is a recovered pool or a rightful one with the session's own edits) and
`Progress` (how far the holder's files are).  A reset marker whose removal failed gets a
history of its own, `shadows`, the pools that a load may find from there on; `NextShadowed`
shows that it is not empty only after such a fault.  `JournalNotStale` holds without
restriction to an undamaged primary.

*Mirror.*  A pass may be skipped because its record says nothing moved: `RecordTrue`
ties the record to the selection it was made of, `PassTrue` and `PassBehind` tie a
pass under way to the selection it read, whose generation never comes back.  Files that were rewritten within the tick of their
fingerprint are kept apart in the record (`same`, `soft`).
*Sign-in.*  `CodesOwned`, `ListenersOpen`, `BindingsKnown` and `WaitersSettled` follow
a code, a listener and a port from creation to release.  *Budgets.*  `CacheCurrent`,
`LoadCurrent`, `RowsKept` and `RowTimed` say how old a cached limit and a counted row
can be; lemma `CountedRecord` says what a request that has listed the ledger may still miss.  *Breaker.*  `SlotsCounted` compares the running probes of the window with its
counter (a cardinality argument), `ProbesKnown` numbers the windows, `TripWaits` ties
the state to the last trip.  *Bridge.*  `TokenInv` states of every caller what it may
have read under the lock and whether the file has moved since (`CallerTrue`,
`DraftTrue`, `LockTrue`, `FileTrue`, `FreshApart`).

*Automatic checks.*  `CheckInv` says that every claim since the clock was last set back
is in the history and an interval away from the others, that a router which is about to
claim has looked at the latest one, and that its own runs wait for it.  *Reset credits.*
`ResetInv`: whoever works on the attempts file holds its lock alone, and a credit that
was redeemed without a receipt is the pending attempt of its account, so a retry finds
it.  *Receipts.*  `ReceiptInv`: a read begun after the last rejection bounds everything
that a rejection may be older than; from it a limit is lifted only by a reset newer than
the rejection that set it.

*Request loop.*  `LoopInv` types the records of requests (`ReqType`) and says of each
(`ReqOK`) that the places it has left are places of its account, that it owes a debit
exactly while it attempts an unpinned pool request, that the workspaces that said no are
among the rejected ones and the one it sent to is not, that only requests
of the kinds that may be repeated go on after a lost answer, and that a pinned attempt is at
its pin; `SlotsOK` gives a probe's slot to a half-open circuit and a request preparing its
attempt.  `WorkspaceOnce` is not inductive without the third of these, `TokenAccounting` not
without the stage in the second.
*Plugin's fetch.*  `FetchInv` follows positions through removals: the pool only shrinks
and stays without repetition (`PoolOK`), a manager's rows know their positions (`RowsOK`),
an affinity entry leads to the account that served it (`StickyOK`), and each fetch
(`FetchOK`) holds the account its stage says, has no voice before a stream, has spent no
more sends than its budget, and has blocked the account it now holds only if the pool
moved.  Lemmas `Shortened` and `RemovalKeeps` say what `removeAccount` does to positions.
*Repair.*  `RepairInv`: between the two writes of a restoring verify-flagged its roll-back
copy and the list it is about to write account for every account (`CommitOK`), one process is between them
(`OneCommits`), a command looks only at accounts of its snapshot and flags what it is about
to remove (`SnapshotOK`), and a token that was refreshed is newer than the one sent
(`NewerOK`).  The proof showed that a rotation and a deletion must wait for the two-file
commit of one command too; the guards in `RepairPool` say so.
*Managers.*  `ChainOK`: the managers form one chain in the order of publication, because
every replacement compares its predecessor with the active manager in the step that
publishes.  That the redirects then lead to the end (`ChainLeads`) is an induction over
the recursive function `ResolveFrom`, made by taking the least counterexample.
*Websocket relay.*  `RelayInv`: a create waits in the queue once, is served, or has its
result (`ServedOnce`); the socket that owns a response is the one its create was sent on
last (`OwnerTrue`); what a create continues is done, and each of its deltas went where that
response lives (`DeltaTrue`); a withdrawn create is either queued under an older generation
or aborted before it was sent (`WithdrawnTrue`); answers are counted (`InterruptsTrue`).
*Session recovery.*  `RecoveryInv`: a message under recovery is marked for one handler
(`ProcessedOnce`), and the resumes made and still to come never exceed the messages repaired
and those passed for clean over an unreadable part (`ResumesCovered`, a count of handlers).  `RecoveryAssumption` asks for finitely many
handlers and messages because of that count; `RelayAssumption` only that `NoCreate` is no
create.
*Copies in memory.*  `ReloadInv`: with the watcher at rest and no reload due, the cached
manager is of the newest file unless one of the named windows was met (`UpToDate`,
`NothingMissed`), and a watcher or a poll never knows more than the file (`WatcherTrue`).
`SaveInv`: a flush that has returned found its change on disk (`FlushTrue`), at rest the file
is not behind the memory (`Settled`), one save writes at a time and nothing older than the
file (`WriterNewer`), and the promise others wait for is of a save that has not ended
(`PendingLives`); its assumption `SaveAssumption` says besides the bounds only that
`NoSaver` is no save.  `CliInv`: nobody knows more than the files hold, the latest load has
read what is cached or something newer, and a forced call knows no less than it asked for
(`LoadTrue`).  `MetaInv`: a cached
snapshot with the file's time and size is of the file's content unless two writes shared a
tick (`SnapshotTrue`, with the clock lemma `TickRises`), until a pool made anew counts its
generations from one (`Behind`).
*The bench.*  `BenchRunsEach`: a behaviour of the bench is a behaviour of each component, so
`BenchProofs` gets `CopiesCatchUp` and `NothingRevived` from the components' theorems.

*Left to TLC.*  Liveness under fairness (`CallsProgress`, `EverythingEnds`).
`ClosedMeansFewFailures` and `TripsOnlyOnThreshold`, which compare lengths of
filtered sequences and need induction over them.  Not proved, although nothing
is known to stand in the way: the rest of `LimitsRespected`, `LimitsAndWrites`,
`StoresTrue` and `UpdatesKept`, and `PoolsTrue`, `PoolsKept`, `LaunchKept`,
`SelectionMeant`, `KeysTrue` and `KeysKept`.

## 5. Not modelled, and known limits

Power loss and reordering of writes below the process; network file systems; clocks
that step backwards (but for `AutoChecks`).  In the storage layer synthetic-fixture promotion
and fields of rows that are last writer wins.  In the
proxy the model catalogue, the goal routes, the reserve fallback and response
continuation; in the plugin the replacement of the manager under a running fetch.
Request transformation, screens, reports and configuration getters.  `AccountStorage`
reads its backup candidates in one action.  In `RateLimits` the scan for the row that
opens first leaves out rows whose workspaces are all disabled (lib/accounts.ts:2100), and
`Relays` leaves out `response.steer`.

Where a property excepts a window, the window is in the code and the model reaches it.
The exceptions are:

* `RefreshQueue`: `readJson` answers nothing for a file it cannot read
  (lib/refresh-lease.ts:114), in the recheck under the lock too; an owner that met this
  (`unread`) presents a token whose result is published.
* `AccountStorage`: the removal of the reset marker after a save is tried once and its
  failure swallowed (lib/storage.ts:2683); the acknowledged save stays hidden behind the
  marker until the next one (`shadows`).
* `CredentialSwap`: a commit being written while a manager is replaced (finding below),
  and a sync overtaken by a replacement; a pending journal that cannot be read at a load
  (lib/storage/pending-auth.ts:115), or was not written when the save failed
  (lib/accounts.ts:2061), gives back the spent token.
* `StorageMeta`: a pool that is deleted and made anew counts its generations from one, and
  the proxy acts only on greater ones than it has seen (`restarted`).
* `ClientTokens`: a token file that could not be read five times is taken for empty
  (`denied`), so the next save rewrites it; an edit between the comparison of
  modification times and the rename is lost.
* `RateLimits`: a cooldown may be overwritten by a
  shorter one; a late 200 replaces a 429's mark; duplicate 429s get the earlier delay even
  if the newer Retry-After is longer; the "provably predates" argument at
  lib/accounts.ts:914 holds only if the file is unreadable for less than 30 s.
* `SettingsStore`: a first save hides the settings in force until then; a file that
  cannot be opened is rebuilt from its backup; a hand edit of the plugin section after a
  save merged it is lost; a merge that cannot read the section starts from nothing.  The
  copy to the backup may fail in silence and neither copy is synced to disk
  (lib/unified-settings.ts:212): after a power failure both may be unreadable (`bare`).
* `UsageBudget`: a torn row, a failed append and a deferred row not yet written are not
  counted; an unreadable limits file admits without limit; a stale ledger lock is removed
  whoever holds it.  The ledger is listed and then read file by file without the lock
  (lib/usage/ledger.ts:444): rows are missed if the current file is rotated in between, or
  if a file cannot be read (`blind`).  A limits file rewritten with the same time and size
  is noticed when the cached entry has lived 30 s (lib/policy/runtime-policy-cache.ts:22).
* `AccountCommands`: two snapshot commands that read the same generation publish the same
  next one; the plugin menu's deletion (index.ts:3313) neither moves the pin nor the
  generation, unlike what lib/storage.ts:1383 asks, and is not modelled.
* `ActiveMirror`: an auth.json rewritten by someone else between the write and the record
  is recorded as our own; one that is rewritten in the tick of its fingerprint with the
  same size is taken for unchanged once the time has settled, for as long as nothing else
  moves (`Unseen`); commands that publish outside the storage lock may put an older
  selection back until the next pass.
* `MemoryCopies`: a change between a reload's read and its stat, a joined reload that
  had read already, a failed reload of a polled change, changes while the watcher was off.
* `MemoryCopies`: a save queued behind the pending one when a flush begins is not awaited.
* `WrapperHomes` (binding): a backup older than the user's settings (kept by a rebind, or found without
  its state file), a backup of a bound configuration, edits under a running command,
  routers that launchd respawns.
* `WrapperHomes`: an edit between the last comparison and the rename; a wrapper killed
  between spawn and the recording of its child, or whose recording failed.  Only the marker
  of the child's own CODEX_HOME names the child (scripts/codex.js:1935): when a wrapper
  with a compatibility home is killed, the next sweep takes that home from around the
  running child.
* `WrapperHomes` (forwarding): a forced account falls back to a direct launch with a warning when the
  proxy cannot be started and no upstream is configured.
* `Relays`: more than 64 frames before the pipe, and calls evicted by 64 newer ones.
* `RepairPool`: fix copies tokens from its snapshot unconditionally; the deep check's
  explicit removal wins over a concurrent restore; a list read before an account was
  flagged may be written back by the plugin's commands.
* `PluginFetch`: the run has one stream failover, as the aggressive mode; with the two of
  the other modes the instance is too large, and `FetchIsSafe` is proved for any number.
  After a removal positions held by other requests are stale; a second
  removal of the same account shifts the affinity entries again.
* `SessionRecovery`: an event repeated after the first recovery has finished answers open
  tool calls again; a part that cannot be read is passed over while its message is reported
  clean (lib/recovery/storage.ts:614), so the session is resumed and refused again
  (`overlooked`).
* `AutoChecks`: a pass that stands still for a whole interval between its look at the
  claim and its own claim may come too close to another one; such passes are left out.
* `QuotaCache`: entries of accounts that left the pool stay until the next pruning.
* `PluginTools`: the menu works on a spread copy, which has lost its merge baseline, so its
  save is last writer wins; codex-health rotates tokens and drops the successors;
  codex-remove moves an active last row to the first; "Sign in again" does not compare
  identities and may exceed the limit; after a failed first save of a fresh sign-in the
  old pool stays and later accounts are appended to it.
* `ResetCredits`: which credit expires first is left open, ages are not compared, and the
  gate in front of `recoverResetQuota` is left out.  Receipts of older versions, which carry no generation, are left out.
* `AccountIdentity`: normalisation only range-checks the pin, which may then name
  another account of a deduplicated pool.
* `PoolTransfer`: an import does not move `activeIndex` with its account; two processes
  that migrate at once may lose rows, because a save without a baseline is last writer
  wins; a synchronisation applies the destination it read before the preview, and repeats
  rows that have neither id nor e-mail; unforced exports of different processes may
  overwrite each other.
* `ApiEvidence`: a reader that could not lock the store may show evidence of before an
  epoch.
* `RequestLoop`: a request refused by policy after its manager was replaced keeps its
  pool token.

## 6. Findings

* `storage_reset`: `loadAccounts` checks the reset marker for the last time after reading
  the journal, then waits for the lock and saves the recovered pool without a baseline.  A
  `clearAccounts` that completes in between is undone, marker included.  The
  flagged-accounts loader checks again under the lock.
* `swap_write_window`: a reload that starts while a commit is being written sees the new
  credential in memory and the spent one in the file, takes neither for a rotation and
  publishes the spent one.
* `meta_twin`: lib/runtime/rotation-storage-meta.ts:57 says equal modification times prove
  a file unchanged once its tick has settled; a second `switch` within the same tick and of
  the same size is never noticed.

Observed without a run of its own: "One in-flight refresh per token" (docs/features.md:52)
does not hold across a local time-out, because the timed-out flight drops the lease
although the endpoint may still process its request (`Unanswered`, then another flight's
`Send`).  The lock comment at scripts/codex.js:1020 says that two processes never both
acquire the status refresh lock; the sequence remove, mkdir, remove, mkdir lets them.

## 7. Plan

1. Proofs: `NoSpentActive` for `CredentialSwap` (with `Quiet`), which needs a reason for the
   credential in every copy: file, journal, snapshots and rows; then `LaunchKept`,
   `SelectionMeant`, and the rest of `LimitsRespected`.
2. An abstract register with merge semantics that `AccountStorage` implements, and a
   single-use token that `RefreshQueue` protects.
3. Models: the refresh guardian, model discovery and the catalogue of accounts.
