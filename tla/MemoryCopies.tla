---------------------------- MODULE MemoryCopies ----------------------------
(***************************************************************************)
(* How the plugin host keeps its cached account manager up to date: the    *)
(* loader (index.ts), the shared reload (lib/runtime/account-manager-cache *)
(* .ts), the watcher of the accounts file (lib/live-account-sync.ts) and a *)
(* login that writes the file and drops the cache.  A manager is the       *)
(* version of the file it was read from; the version also stands for the   *)
(* file's modification time.                                               *)
(***************************************************************************)
EXTENDS Integers, FiniteSets

CONSTANTS
  MaxFileVersions,  \* bound on writes of the accounts file
  MaxLoads          \* bound on runs of the loader

VARIABLES
  accountsFile,  \* version on disk
  cached,        \* cachedAccountManager
  loading,       \* accountReloadInFlight: nothing, reading, or the version it has read
  live,          \* the watcher: running, last known version, debounce timer, reload, poll
  watchEvent,    \* a change that fs.watch will still report
  loader,        \* what the loader, serialised by loaderMutex, is doing
  login,         \* a login between its write and dropping the cache
  loads,
  missed         \* history: reasons why the newest version may be missed

reloadVars == <<accountsFile, cached, loading, live, watchEvent, loader, login, loads, missed>>

NotLoading == -1
Reading == 0
NoManager == 0
Stopped == [on |-> FALSE, known |-> 0, timer |-> FALSE, reload |-> "idle", poll |-> 0]

ReloadInit ==
  /\ accountsFile = 1 /\ cached = NoManager /\ loading = NotLoading /\ live = Stopped /\ watchEvent = FALSE
  /\ loader = "idle" /\ login = FALSE /\ loads = 0 /\ missed = {}

\* The reload in flight has read the file.
HasRead == loading > Reading

-----------------------------------------------------------------------------
(* Writers. *)

\* Another process writes the file, or a login does; the watcher may miss it.
FileWritten(byLogin) ==
  /\ accountsFile < MaxFileVersions /\ accountsFile' = accountsFile + 1
  /\ byLogin => ~login
  /\ login' = (login \/ byLogin) /\ watchEvent' \in {watchEvent, live.on}
  /\ missed' = IF live.reload = "stat" \/ (live.reload = "load" /\ HasRead) THEN missed \cup {"overtaken"} ELSE missed
  /\ UNCHANGED <<cached, loading, live, loader, loads>>

\* invalidateRuntimeAccountManagerCache: a reload in flight goes on.
LoginInvalidates ==
  /\ login /\ login' = FALSE /\ cached' = NoManager
  /\ UNCHANGED <<accountsFile, loading, live, watchEvent, loader, loads, missed>>

-----------------------------------------------------------------------------
(* reloadRuntimeAccountManager *)

Load == loading' = IF loading = NotLoading THEN Reading ELSE loading

LoadReads ==
  /\ loading = Reading /\ loading' = accountsFile
  /\ UNCHANGED <<accountsFile, cached, live, watchEvent, loader, login, loads, missed>>

LoadDone ==
  /\ HasRead /\ cached' = loading /\ loading' = NotLoading
  /\ live' = [live EXCEPT !.reload = IF @ = "load" THEN "stat" ELSE @]
  /\ loader' = IF loader = "load" THEN "idle" ELSE loader
  /\ UNCHANGED <<accountsFile, watchEvent, login, loads, missed>>

LoadFails ==
  /\ loading # NotLoading /\ loading' = NotLoading
  /\ live' = [live EXCEPT !.reload = IF @ = "load" THEN "idle" ELSE @]
  /\ loader' = IF loader = "load" THEN "idle" ELSE loader
  /\ missed' = IF live.reload = "load" /\ live.known = accountsFile THEN missed \cup {"failed"} ELSE missed
  /\ UNCHANGED <<accountsFile, cached, watchEvent, login, loads>>

-----------------------------------------------------------------------------
(* The loader: ensureLiveAccountSyncState, then the manager. *)

\* Live sync disabled, or its settings changed: the old watcher stops first.
LoaderEnsures(enabled) ==
  /\ loader = "idle" /\ loads < MaxLoads /\ loads' = loads + 1
  /\ IF enabled /\ live.on THEN loader' = "manager" /\ UNCHANGED live
     ELSE /\ loader' = IF enabled THEN "mtime" ELSE "manager"
          /\ live' = [live EXCEPT !.on = FALSE, !.timer = FALSE]
  /\ watchEvent' = (watchEvent /\ live'.on) /\ UNCHANGED <<accountsFile, cached, loading, login, missed>>

\* syncToPath reads the modification time, then arms watcher and poll.
LoaderReadsMtime ==
  /\ loader = "mtime" /\ live' = [live EXCEPT !.known = accountsFile] /\ loader' = "arm"
  /\ missed' = IF cached \notin {NoManager, accountsFile} \/ (HasRead /\ loading # accountsFile)
               THEN missed \cup {"blind"} ELSE missed
  /\ UNCHANGED <<accountsFile, cached, loading, watchEvent, login, loads>>
LoaderArms ==
  /\ loader = "arm" /\ live' = [live EXCEPT !.on = TRUE] /\ loader' = "manager"
  /\ UNCHANGED <<accountsFile, cached, loading, watchEvent, login, loads, missed>>

LoaderTakesManager ==
  /\ loader = "manager"
  /\ IF cached # NoManager THEN loader' = "idle" /\ UNCHANGED loading ELSE loader' = "load" /\ Load
  /\ UNCHANGED <<accountsFile, cached, live, watchEvent, login, loads, missed>>

-----------------------------------------------------------------------------
(* LiveAccountSync *)

WatchFires ==
  /\ watchEvent /\ watchEvent' = FALSE /\ live' = [live EXCEPT !.timer = live.on]
  /\ UNCHANGED <<accountsFile, cached, loading, loader, login, loads, missed>>

PollReads ==
  /\ live.on /\ live.poll = 0 /\ accountsFile # live.known /\ live' = [live EXCEPT !.poll = accountsFile]
  /\ UNCHANGED <<accountsFile, cached, loading, watchEvent, loader, login, loads, missed>>

\* Mutant of Polled: the reload is left to the watcher.
PolledQuiet(l) == [l EXCEPT !.poll = 0, !.known = l.poll]

\* pollOnce, after its await: the time is remembered and a reload scheduled.
Polled(l) ==
  IF l.poll = l.known THEN [l EXCEPT !.poll = 0]
  ELSE [l EXCEPT !.poll = 0, !.known = l.poll, !.timer = @ \/ l.on]

PollCompares ==
  /\ live.poll # 0 /\ live' = Polled(live)
  /\ UNCHANGED <<accountsFile, cached, loading, watchEvent, loader, login, loads, missed>>

\* runReload: while a reload is in flight the timer only waits for it.
DebounceFires ==
  /\ live.timer
  /\ IF ~live.on \/ live.reload # "idle"
     THEN live' = [live EXCEPT !.timer = FALSE] /\ UNCHANGED <<loading, missed>>
     ELSE /\ live' = [live EXCEPT !.timer = FALSE, !.reload = "load"] /\ Load
          /\ missed' = IF HasRead /\ loading # accountsFile THEN missed \cup {"joined"} ELSE missed
  /\ UNCHANGED <<accountsFile, cached, watchEvent, loader, login, loads>>

\* The modification time is read once more after the reload.
ReloadStats ==
  /\ live.reload = "stat" /\ live' = [live EXCEPT !.known = accountsFile, !.reload = "idle"]
  /\ UNCHANGED <<accountsFile, cached, loading, watchEvent, loader, login, loads, missed>>

ReloadNext ==
  \/ \E b \in BOOLEAN : FileWritten(b) \/ LoaderEnsures(b)
  \/ LoginInvalidates \/ LoadReads \/ LoadDone \/ LoadFails \/ LoaderReadsMtime \/ LoaderArms \/ LoaderTakesManager
  \/ WatchFires \/ PollReads \/ PollCompares \/ DebounceFires \/ ReloadStats

ReloadSpec == ReloadInit /\ [][ReloadNext]_reloadVars

-----------------------------------------------------------------------------
(* Properties. *)

\* When nothing is scheduled, reported or in flight any more, the cached
\* manager is that of the newest file, also after a login that dropped the
\* cache under a reload; except for a change between the read and the stat of a
\* reload, a reload that joined one that had read already or failed on a polled
\* change, and changes made while the watcher was off.
CacheCatchesUp ==
  /\ live.on /\ ~live.timer /\ ~watchEvent /\ live.poll = 0 /\ live.reload = "idle" /\ live.known = accountsFile
  /\ loading = NotLoading /\ missed = {} /\ cached # NoManager
  => cached = accountsFile

-----------------------------------------------------------------------------
(***************************************************************************)
(* AccountManager.saveToDiskDebounced and flushPendingSave (lib/accounts   *)
(* .ts): runtime state is saved some time after it changes, a failed save  *)
(* is retried from a new timer, and shutdown flushes what is pending.      *)
(* State is the number of changes made; a save writes the number it saw    *)
(* when its turn at the storage lock came.                                 *)
(***************************************************************************)

CONSTANTS
  Savers,           \* callbacks of debounce timers that may run at once
  MaxChanges,       \* bound on changes
  MaxSaveRetries    \* MAX_DEBOUNCED_SAVE_RETRIES

NoSaver == "none"

ASSUME SaveAssumption == MaxSaveRetries \in Nat /\ MaxChanges \in Nat /\ NoSaver \notin Savers

VARIABLES
  changes,       \* runtime state in memory
  onDisk,        \* state last written
  saveTimer,     \* saveDebounceTimer is set
  retries,       \* saveRetryCount
  saver,         \* doSave calls: idle, waiting for a save, saving, and the state they saw
  pendingSave,   \* the saver whose promise is pendingSave, or none
  flush,         \* flushPendingSave: its step, the state it has to reach, what it waits for
  gaveUp,        \* history: a save was dropped, or failed with the flush
  queued         \* history: a save was waiting behind the pending one when the flush began

saveVars == <<changes, onDisk, saveTimer, retries, saver, pendingSave, flush, gaveUp, queued>>

IdleSaver == [at |-> "idle", sees |-> 0, behind |-> NoSaver]

SaveInit ==
  /\ changes = 0 /\ onDisk = 0 /\ saveTimer = FALSE /\ retries = 0 /\ pendingSave = NoSaver
  /\ saver = [s \in Savers |-> IdleSaver] /\ flush = [at |-> "idle", goal |-> 0, for |-> NoSaver]
  /\ gaveUp = FALSE /\ queued = FALSE

\* A request marks a limit or rotates a credential: the timer restarts.
Change ==
  /\ changes < MaxChanges /\ flush.at = "idle" /\ changes' = changes + 1 /\ saveTimer' = TRUE
  /\ UNCHANGED <<onDisk, retries, saver, pendingSave, flush, gaveUp, queued>>

\* The timer clears itself; doSave first waits for the save in flight.
TimerFires(s) ==
  /\ saveTimer /\ saver[s].at = "idle" /\ saveTimer' = FALSE
  /\ IF pendingSave = NoSaver
     THEN saver' = [saver EXCEPT ![s] = [at |-> "save", sees |-> 0, behind |-> NoSaver]] /\ pendingSave' = s
     ELSE saver' = [saver EXCEPT ![s] = [at |-> "wait", sees |-> 0, behind |-> pendingSave]] /\ UNCHANGED pendingSave
  /\ UNCHANGED <<changes, onDisk, retries, flush, gaveUp, queued>>

\* Under the storage lock: one saver at a time.
Locked == (\E s \in Savers : saver[s].at = "write") \/ flush.at = "write"

SaveReads(s) ==
  /\ saver[s].at = "save" /\ ~Locked /\ saver' = [saver EXCEPT ![s].at = "write", ![s].sees = changes]
  /\ UNCHANGED <<changes, onDisk, saveTimer, retries, pendingSave, flush, gaveUp, queued>>

\* Every doSave that waited behind s goes on: each starts its own save, the
\* last one to start is pendingSave.
Wakes(s, result) ==
  LET woken == {t \in Savers : saver[t].at = "wait" /\ saver[t].behind = s} IN
  /\ saver' = [t \in Savers |->
       IF t = s THEN IdleSaver
       ELSE IF t \notin woken THEN saver[t]
       ELSE IF result = "ok" THEN [at |-> "save", sees |-> 0, behind |-> NoSaver] ELSE [at |-> "failed", sees |-> 0, behind |-> NoSaver]]
  /\ IF woken # {} /\ result = "ok" THEN pendingSave' \in woken ELSE pendingSave' = NoSaver

\* The flush waits for one promise.
FlushAfter(s) == IF flush.at = "wait" /\ flush.for = s THEN [flush EXCEPT !.at = "done"] ELSE flush

SaveSucceeds(s) ==
  /\ saver[s].at = "write" /\ onDisk' = saver[s].sees /\ retries' = 0 /\ Wakes(s, "ok") /\ flush' = FlushAfter(s)
  /\ UNCHANGED <<changes, saveTimer, gaveUp, queued>>

\* Mutant of Rearms: a failed save is not retried.
RearmsNever == FALSE

\* A failed save starts a new timer until the retries are used up.
Rearms == retries < MaxSaveRetries

Retry ==
  /\ IF Rearms THEN retries' = retries + 1 /\ saveTimer' = TRUE ELSE retries' = 0 /\ UNCHANGED saveTimer

SaveFails(s) ==
  /\ saver[s].at = "write" /\ Wakes(s, "failed") /\ Retry /\ flush' = FlushAfter(s)
  /\ gaveUp' = (gaveUp \/ retries >= MaxSaveRetries \/ flush.at # "idle")
  /\ UNCHANGED <<changes, onDisk, queued>>

\* A doSave behind a failed one fails with it and starts its own retry.
WaiterFails(s) ==
  /\ saver[s].at = "failed" /\ saver' = [saver EXCEPT ![s] = IdleSaver] /\ Retry
  /\ gaveUp' = (gaveUp \/ retries >= MaxSaveRetries \/ flush.at # "idle")
  /\ UNCHANGED <<changes, onDisk, pendingSave, flush, queued>>

-----------------------------------------------------------------------------
(* flushPendingSave, at shutdown. *)

\* Mutant of FlushBegins: an armed timer is only cleared.
FlushBeginsClear ==
  /\ flush.at = "idle" /\ saveTimer' = FALSE
  /\ flush' = IF pendingSave # NoSaver THEN [at |-> "wait", goal |-> changes, for |-> pendingSave]
              ELSE [at |-> "done", goal |-> changes, for |-> NoSaver]
  /\ queued' = \E s \in Savers : saver[s].at \in {"wait", "failed"} \/ (saver[s].at \in {"save", "write"} /\ s # pendingSave)
  /\ UNCHANGED <<changes, onDisk, retries, saver, pendingSave, gaveUp>>

FlushBegins ==
  /\ flush.at = "idle" /\ saveTimer' = FALSE
  /\ flush' = IF saveTimer THEN [at |-> "save", goal |-> changes, for |-> NoSaver]
              ELSE IF pendingSave # NoSaver THEN [at |-> "wait", goal |-> changes, for |-> pendingSave]
              ELSE [at |-> "done", goal |-> changes, for |-> NoSaver]
  /\ queued' = \E s \in Savers : saver[s].at \in {"wait", "failed"} \/ (saver[s].at \in {"save", "write"} /\ s # pendingSave)
  /\ UNCHANGED <<changes, onDisk, retries, saver, pendingSave, gaveUp>>

FlushReads ==
  /\ flush.at = "save" /\ ~Locked /\ flush' = [flush EXCEPT !.at = "write"]
  /\ UNCHANGED <<changes, onDisk, saveTimer, retries, saver, pendingSave, gaveUp, queued>>

\* Then the save in flight; a failure ends the flush.
FlushWrites ==
  /\ flush.at = "write" /\ UNCHANGED <<changes, saveTimer, retries, saver, pendingSave, queued>>
  /\ \/ /\ onDisk' = changes /\ UNCHANGED gaveUp
        /\ flush' = IF pendingSave # NoSaver THEN [flush EXCEPT !.at = "wait", !.for = pendingSave] ELSE [flush EXCEPT !.at = "done"]
     \/ flush' = [flush EXCEPT !.at = "done"] /\ gaveUp' = TRUE /\ UNCHANGED onDisk

SaveNext ==
  \/ Change \/ FlushBegins \/ FlushReads \/ FlushWrites
  \/ \E s \in Savers : TimerFires(s) \/ SaveReads(s) \/ SaveSucceeds(s) \/ SaveFails(s) \/ WaiterFails(s)

SaveSpec == SaveInit /\ [][SaveNext]_saveVars

-----------------------------------------------------------------------------
(* Properties. *)

\* When a flush returns, every change made before it is on disk, and a save
\* that was in flight does not put an older state over it; unless saves failed
\* under it, or a second save was queued behind the one it waits for.
FlushPersistsAll == flush.at = "done" /\ ~gaveUp /\ ~queued => onDisk >= flush.goal

\* A change in memory is always on its way to the disk: a timer is set, or a
\* save that will still read it runs, unless all retries failed.
ChangeOnItsWay ==
  ~gaveUp /\ flush.at = "idle" /\ onDisk < changes =>
    saveTimer \/ \E s \in Savers : saver[s].at \in {"wait", "save", "failed"} \/ (saver[s].at = "write" /\ saver[s].sees = changes)

-----------------------------------------------------------------------------
(***************************************************************************)
(* The cached view of the official CLI's files (lib/codex-cli/state.ts):   *)
(* calls of loadCodexCliState in one process, some with forceRefresh, while*)
(* this process and others rewrite the files.  Contents are numbered in    *)
(* the order they were written.                                            *)
(***************************************************************************)

CONSTANTS Loaders,     \* calls of loadCodexCliState
          MaxContent,  \* bound on rewrites of the files
          Uncached     \* no cached state, or nobody in flight

VARIABLES content,     \* what the files hold; 0 when there are none
          cliCache, cliFresh,  \* cache, and whether its TTL is running
          latestLoad,  \* latestLoadGeneration
          flying,      \* inFlightLoadPromise
          cliLoader       \* each call: where it is, its generation, what it knows

cliVars == <<content, cliCache, cliFresh, latestLoad, flying, cliLoader>>

CliInit ==
  /\ content = 1 /\ cliCache = Uncached /\ cliFresh = FALSE
  /\ latestLoad = 0 /\ flying = Uncached
  /\ cliLoader = [l \in Loaders |-> [pc |-> "new", gen |-> 0, forced |-> FALSE, since |-> 0, got |-> Uncached]]

Loader(l, pc, got) == cliLoader' = [cliLoader EXCEPT ![l].pc = pc, ![l].got = got]

\* From the cache while its TTL runs ...
LoadHits(l) ==
  /\ cliLoader[l].pc = "new" /\ cliCache # Uncached /\ cliFresh
  /\ Loader(l, "done", cliCache)
  /\ UNCHANGED <<content, cliCache, cliFresh, latestLoad, flying>>

\* ... or with the load that is under way; a forced call does neither.
MayJoinAny(forced) == TRUE

MayJoin(forced) == ~ forced

LoadJoins(l, forced) ==
  /\ cliLoader[l].pc = "new" /\ MayJoin(forced) /\ flying # Uncached
  /\ forced \/ cliCache = Uncached \/ ~ cliFresh
  /\ cliLoader' = [cliLoader EXCEPT ![l].pc = "joined", ![l].gen = cliLoader[flying].gen,
                              ![l].forced = forced, ![l].since = content]
  /\ UNCHANGED <<content, cliCache, cliFresh, latestLoad, flying>>

LoadStarts(l, forced) ==
  /\ cliLoader[l].pc = "new"
  /\ forced \/ (flying = Uncached /\ (cliCache = Uncached \/ ~ cliFresh))
  /\ latestLoad' = latestLoad + 1
  /\ flying' = l
  /\ cliLoader' = [cliLoader EXCEPT ![l] = [pc |-> "reading", gen |-> latestLoad + 1, forced |-> forced,
                                      since |-> content, got |-> Uncached]]
  /\ UNCHANGED <<content, cliCache, cliFresh>>

\* accounts.json, or auth.json where that is missing or malformed; a failing
\* read yields no state.
CliReads(l) ==
  /\ cliLoader[l].pc = "reading"
  /\ \E got \in {Uncached, content} : Loader(l, "read", got)
  /\ UNCHANGED <<content, cliCache, cliFresh, latestLoad, flying>>

\* commitCache: only the latest load may replace the cache.
CommitsAlways(l) == TRUE

Commits(l) == cliLoader[l].gen = latestLoad

LoadEnds(l) ==
  /\ cliLoader[l].pc = "read"
  /\ cliCache' = IF Commits(l) THEN cliLoader[l].got ELSE cliCache
  /\ cliFresh' = IF Commits(l) THEN TRUE ELSE cliFresh
  /\ flying' = IF flying = l THEN Uncached ELSE flying
  /\ cliLoader' = [k \in Loaders |->
       IF k = l THEN [cliLoader[k] EXCEPT !.pc = "done"]
       ELSE IF cliLoader[k].pc = "joined" /\ cliLoader[k].gen = cliLoader[l].gen
       THEN [cliLoader[k] EXCEPT !.pc = "done", !.got = cliLoader[l].got] ELSE cliLoader[k]]
  /\ UNCHANGED <<content, latestLoad>>

\* The TTL ends.
CacheExpires ==
  /\ cliFresh /\ cliFresh' = FALSE
  /\ UNCHANGED <<content, cliCache, latestLoad, flying, cliLoader>>

\* The files are rewritten; this process's own writer clears the cache.
ContentWritten(own) ==
  /\ content < MaxContent /\ content' = content + 1
  /\ IF own THEN cliCache' = Uncached /\ cliFresh' = FALSE /\ flying' = Uncached
            ELSE UNCHANGED <<cliCache, cliFresh, flying>>
  /\ UNCHANGED <<latestLoad, cliLoader>>

CliNext ==
  \/ \E l \in Loaders :
       \/ LoadHits(l) \/ CliReads(l) \/ LoadEnds(l)
       \/ \E forced \in BOOLEAN : LoadJoins(l, forced) \/ LoadStarts(l, forced)
  \/ CacheExpires
  \/ \E own \in BOOLEAN : ContentWritten(own)

CliSpec == CliInit /\ [][CliNext]_cliVars

----------------------------------------------------------------------------
\* A forced load answers with nothing older than what the files held when it
\* was called, however many other loads were under way.
ForcedIsFresh ==
  \A l \in Loaders : cliLoader[l].pc = "done" /\ cliLoader[l].forced /\ cliLoader[l].got # Uncached
                     => cliLoader[l].got >= cliLoader[l].since

\* A slow load never puts an older state in place of a newer one that was
\* cached meanwhile.
CacheNeverOlder ==
  cliCache # Uncached /\ cliCache' # Uncached => cliCache' >= cliCache
=============================================================================
